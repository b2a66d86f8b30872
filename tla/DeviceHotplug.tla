---------------------------- MODULE DeviceHotplug ----------------------------
(***************************************************************************)
(* USB devices come and go: device/devicemanager/UsbDeviceEnumerator.cpp   *)
(* and DeviceManager.cpp.                                                  *)
(*   the platform   plugs and unplugs ports and reports it in order        *)
(*   the watcher    onPlatformDeviceChanged                                *)
(*   the arrivals   deviceArrivalHandleThreadFunc: waits for the ports to  *)
(*                  settle, looks at them again, lists what is new         *)
(*   the handlers   on Linux one detached thread for every change, which   *)
(*                  runs onDeviceChanged: in any order                     *)
(*   the users      create a listed device, share it and release it        *)
(* A device is one port here, and is told by the port's uid.  A handler of *)
(* added devices only calls the application back and is left out.          *)
(*                                                                         *)
(* Operators named Mut... are seeded faults; the specification uses none.  *)
(***************************************************************************)
EXTENDS Integers, Sequences

CONSTANTS
  Ports,
  Users,
  MaxPlugs,      \* bound: times a port is plugged in, all together
  MaxDevices     \* bound: devices built

ASSUME HotplugAssumption == {MaxPlugs, MaxDevices} \subseteq Nat \ {0}

VARIABLES
  plug,        \* for every port, which plugging in its device is from, 0 for no device
  plugs,       \* history: how often a port was plugged in
  events,      \* what the platform has reported and the watcher not yet handled
  list,        \* deviceInfoList_: how often each port is on it
  infos,       \* the ports a user may hold an entry of, from this list or an older one
  current,     \* currentUsbPortInfoList_
  flag,        \* newUsbPortArrival_
  arrival,     \* where the arrivals' thread is
  known,       \* currentDeviceInfoListTemp
  seen,        \* portInfoList, addedDevList
  handlers,    \* detached threads with the devices of one removal each
  device,      \* IDevice objects: their port, its plugging in, and ~isDeactivated_
  created,     \* createdDevices_: a weak pointer each, 0 for none
  pc,          \* where the users are
  held,        \* the device each builds or holds, 0 for none
  missed,      \* history: an arrival was notified before the thread had begun to wait
  outdated,    \* history: a removal was handled while the arrivals' thread used a look
               \* at the ports from before
  overlapped   \* history: a device was built while another of its port was built, while
               \* a removal of the port was handled, or from an entry no longer listed

platformVars == <<plug, plugs>>
listVars == <<list, infos, current>>
arrivalVars == <<flag, arrival, known, seen>>
useVars == <<device, created, pc, held>>
histories == <<missed, outdated, overlapped>>
hotplugVars == <<platformVars, events, listVars, arrivalVars, handlers, useVars, histories>>

Idle == [at |-> "idle"]
Calls == [at : {"build", "insert"}, port : Ports]
Reports == [kind : {"arrival", "removed"}, port : Ports, plug : 1..MaxPlugs]
Removals == [ports : SUBSET Ports, plug : 1..MaxPlugs]
Devices == [port : Ports, plug : 1..MaxPlugs, active : BOOLEAN]

HotplugTypeOK ==
  /\ {infos, current, known, seen} \subseteq SUBSET Ports
  /\ plugs \in 0..MaxPlugs /\ plug \in [Ports -> 0..plugs]
  /\ events \in Seq(Reports)
  /\ list \in [Ports -> Nat]
  /\ arrival \in {"test", "to_wait", "wait", "settle", "look", "match", "append"}
  /\ handlers \subseteq Removals
  /\ device \in Seq(Devices)
  /\ created \in [Ports -> 0..MaxDevices] /\ held \in [Users -> 0..MaxDevices]
  /\ pc \in [Users -> Calls \cup {Idle}]
  /\ {flag, missed, outdated, overlapped} \subseteq BOOLEAN

HotplugInit ==
  /\ plug = [p \in Ports |-> 0] /\ plugs = 0 /\ events = <<>>
  /\ list = [p \in Ports |-> 0] /\ infos = {} /\ current = {}
  /\ flag = FALSE /\ arrival = "test" /\ known = {} /\ seen = {}
  /\ handlers = {}
  /\ device = <<>> /\ created = [p \in Ports |-> 0]
  /\ pc = [u \in Users |-> Idle] /\ held = [u \in Users |-> 0]
  /\ missed = FALSE /\ outdated = FALSE /\ overlapped = FALSE

Plugged == {p \in Ports : plug[p] # 0}
Listed == {p \in Ports : list[p] > 0}
Alive(d) == \E u \in Users : held[u] = d
Building(p) == \E u \in Users : pc[u] # Idle /\ pc[u].port = p

-----------------------------------------------------------------------------
Reported(kind, p, n) == events' = Append(events, [kind |-> kind, port |-> p, plug |-> n])

Plug(p) ==
  /\ plug[p] = 0 /\ plugs < MaxPlugs
  /\ plugs' = plugs + 1 /\ plug' = [plug EXCEPT ![p] = plugs']
  /\ Reported("arrival", p, plugs')
  /\ UNCHANGED <<listVars, arrivalVars, handlers, useVars, histories>>

Unplug(p) ==
  /\ plug[p] # 0 /\ plug' = [plug EXCEPT ![p] = 0] /\ UNCHANGED plugs
  /\ Reported("removed", p, plug[p])
  /\ UNCHANGED <<listVars, arrivalVars, handlers, useVars, histories>>

-----------------------------------------------------------------------------
(* onPlatformDeviceChanged.  The condition variable's mutex is not held:   *)
(* a thread that has tested the flag and does not wait yet is not woken.   *)
Arrived ==
  /\ events # <<>> /\ Head(events).kind = "arrival"
  /\ events' = Tail(events)
  /\ flag' = TRUE
  /\ arrival' = IF arrival = "wait" THEN "test" ELSE arrival
  /\ missed' = (missed \/ arrival = "to_wait")
  /\ UNCHANGED <<platformVars, listVars, known, seen, handlers, useVars, outdated, overlapped>>

(* queryRemovedDevice: the list is made anew from the ports that are left, *)
(* and a handler gets what was on it and is not any more.                  *)
Relisted(p) ==
  [q \in Ports |-> CASE q = p -> 0
                     [] q # p /\ p \in current -> IF q \in current THEN 1 ELSE 0
                     [] OTHER -> list[q]]

Gone(p) == {q \in Listed : p \in current /\ Relisted(p)[q] = 0}

Removed ==
  /\ events # <<>> /\ Head(events).kind = "removed"
  /\ events' = Tail(events)
  /\ LET e == Head(events)
     IN /\ list' = Relisted(e.port)
        /\ current' = current \ {e.port}
        /\ handlers' = IF Gone(e.port) = {} THEN handlers
                         ELSE handlers \cup {[ports |-> Gone(e.port), plug |-> e.plug]}
  /\ outdated' = (outdated \/ arrival \in {"match", "append"})
  /\ UNCHANGED <<platformVars, infos, arrivalVars, useVars, missed, overlapped>>

-----------------------------------------------------------------------------
(* deviceArrivalHandleThreadFunc.                                          *)
ArrivalMove(from, to) ==
  /\ arrival = from /\ arrival' = to
  /\ UNCHANGED <<platformVars, events, handlers, useVars, histories>>

ArrivalTests ==
  /\ ArrivalMove("test", IF flag THEN "settle" ELSE "to_wait")
  /\ flag' = FALSE
  /\ UNCHANGED <<listVars, known, seen>>

ArrivalWaits == ArrivalMove("to_wait", "wait") /\ UNCHANGED <<listVars, flag, known, seen>>

(* The wait of a second is over, or cut short by an arrival.               *)
Settles ==
  /\ ArrivalMove("settle", IF flag THEN "settle" ELSE "look")
  /\ flag' = FALSE /\ known' = Listed
  /\ UNCHANGED <<listVars, seen>>

(* queryArrivalDevice: the ports are looked at, ...                        *)
Looks ==
  /\ ArrivalMove("look", "match")
  /\ seen' = Plugged
  /\ UNCHANGED <<listVars, flag, known>>

(* ... what is new is kept, ...                                            *)
Matches ==
  /\ ArrivalMove("match", "append")
  /\ seen' = seen \ known /\ known' = {}
  /\ current' = current \cup seen'
  /\ UNCHANGED <<list, infos, flag>>

(* ... and goes on the list.                                               *)
MutAppends ==
  /\ ArrivalMove("append", "test")
  /\ list' = [p \in Ports |-> IF p \in seen THEN list[p] + 1 ELSE list[p]]
  /\ infos' = infos \cup seen /\ seen' = {} /\ flag' = FALSE
  /\ UNCHANGED <<current, known>>

Appends ==
  /\ ArrivalMove("append", "test")
  /\ list' = [p \in Ports |-> IF p \in seen THEN list[p] + 1 ELSE list[p]]
  /\ infos' = infos \cup seen /\ seen' = {}
  /\ UNCHANGED <<current, flag, known>>

-----------------------------------------------------------------------------
(* createDevice: the device of an entry that is alive is shared, whatever  *)
(* its state; an entry that has expired goes.                              *)
Share(u, p) ==
  /\ pc[u] = Idle /\ held[u] = 0 /\ p \in infos
  /\ created[p] # 0 /\ Alive(created[p])
  /\ held' = [held EXCEPT ![u] = created[p]]
  /\ UNCHANGED <<platformVars, events, listVars, arrivalVars, handlers, device, created, pc,
                 histories>>

Create(u, p) ==
  /\ pc[u] = Idle /\ held[u] = 0 /\ p \in infos
  /\ created[p] = 0 \/ ~Alive(created[p])
  /\ created' = [created EXCEPT ![p] = 0]
  /\ pc' = [pc EXCEPT ![u] = [at |-> "build", port |-> p]]
  /\ overlapped' = (overlapped \/ Building(p) \/ p \notin Listed)
  /\ UNCHANGED <<platformVars, events, listVars, arrivalVars, handlers, device, held, missed,
                 outdated>>

Build(u) ==
  /\ pc[u] # Idle /\ pc[u].at = "build"
  /\ plug[pc[u].port] # 0 /\ Len(device) < MaxDevices
  /\ device' = Append(device, [port |-> pc[u].port, plug |-> plug[pc[u].port], active |-> TRUE])
  /\ held' = [held EXCEPT ![u] = Len(device')]
  /\ pc' = [pc EXCEPT ![u].at = "insert"]
  /\ UNCHANGED <<platformVars, events, listVars, arrivalVars, handlers, created, histories>>

BuildThrows(u) ==
  /\ pc[u] # Idle /\ pc[u].at = "build"
  /\ pc' = [pc EXCEPT ![u] = Idle]
  /\ UNCHANGED <<platformVars, events, listVars, arrivalVars, handlers, device, created, held,
                 histories>>

(* An entry that is there stays.                                           *)
MutInsert(u) ==
  /\ pc[u] # Idle /\ pc[u].at = "insert"
  /\ pc' = [pc EXCEPT ![u] = Idle]
  /\ UNCHANGED <<platformVars, events, listVars, arrivalVars, handlers, device, created, held,
                 histories>>

Insert(u) ==
  /\ pc[u] # Idle /\ pc[u].at = "insert"
  /\ pc' = [pc EXCEPT ![u] = Idle]
  /\ created' = [created EXCEPT ![pc[u].port] = IF @ = 0 THEN held[u] ELSE @]
  /\ UNCHANGED <<platformVars, events, listVars, arrivalVars, handlers, device, held, histories>>

(* The last one to let go destroys the device.                             *)
Release(u) ==
  /\ pc[u] = Idle /\ held[u] # 0
  /\ held' = [held EXCEPT ![u] = 0]
  /\ device' = IF \E t \in Users \ {u} : held[t] = held[u] THEN device
                 ELSE [device EXCEPT ![held[u]].active = FALSE]
  /\ UNCHANGED <<platformVars, events, listVars, arrivalVars, handlers, created, pc, histories>>

(* reboot, on the side of the host; the port goes when the device does.    *)
Reboot(u) ==
  /\ pc[u] = Idle /\ held[u] # 0
  /\ device' = [device EXCEPT ![held[u]].active = FALSE]
  /\ UNCHANGED <<platformVars, events, listVars, arrivalVars, handlers, created, pc, held,
                 histories>>

(* onDeviceChanged takes whatever the entry of the port is now.            *)
Handle(h) ==
  /\ h \in handlers /\ handlers' = handlers \ {h}
  /\ device' = [d \in DOMAIN device |->
                  IF \E p \in h.ports : created[p] = d THEN [device[d] EXCEPT !.active = FALSE]
                                                       ELSE device[d]]
  /\ created' = [p \in Ports |-> IF p \in h.ports THEN 0 ELSE created[p]]
  /\ overlapped' = (overlapped \/ \E p \in h.ports : Building(p))
  /\ UNCHANGED <<platformVars, events, listVars, arrivalVars, pc, held, missed, outdated>>

-----------------------------------------------------------------------------
Watches == Arrived \/ Removed
Arrivals == ArrivalTests \/ ArrivalWaits \/ Settles \/ Looks \/ Matches \/ Appends

HotplugNext ==
  \/ \E p \in Ports : Plug(p) \/ Unplug(p)
  \/ Watches \/ Arrivals
  \/ \E h \in handlers : Handle(h)
  \/ \E u \in Users :
       \/ \E p \in Ports : Share(u, p) \/ Create(u, p)
       \/ Build(u) \/ BuildThrows(u) \/ Insert(u) \/ Release(u) \/ Reboot(u)

HotplugSpec == HotplugInit /\ [][HotplugNext]_hotplugVars

(* The SDK's threads go on; nobody plugs, unplugs or creates in the end.   *)
FairHotplugSpec == HotplugSpec /\ WF_hotplugVars(Watches) /\ WF_hotplugVars(Arrivals)

-----------------------------------------------------------------------------
(* What is listed is what is plugged in, in the end, each device once,     *)
(* unless the thread missed an arrival or a removal crossed its look.      *)
ListSettles ==
  <>[](missed \/ outdated \/ list = [p \in Ports |-> IF p \in Plugged THEN 1 ELSE 0])

(* A port has one active device at most, and none from before it was       *)
(* unplugged once the removal has been handled: unless the creation of a   *)
(* device overlapped another or a removal, or was from an entry of an old  *)
(* list (the removal of a port that is not listed is reported to nobody).  *)
Active(p) == {d \in 1..Len(device) : device[d].active /\ device[d].port = p}
Present(d) == device[d].plug = plug[device[d].port]
Handled == events = <<>> /\ handlers = {}

DevicesArePresent ==
  (~overlapped /\ ~outdated) =>
    \A p \in Ports :
      /\ \A d, e \in Active(p) : d = e
      /\ Handled => \A d \in Active(p) : Present(d)
=============================================================================
