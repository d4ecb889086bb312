----------------------------- MODULE FlowMonitor -----------------------------
(***************************************************************************)
(* examples/flow_monitor/main.go: a table of the connections of a machine. *)
(*                                                                         *)
(* The main goroutine receives the events of the flow layer and keeps a    *)
(* map of the flows that are established; a second goroutine copies the    *)
(* map every second and draws it.  Both take flowsMutex.  The driver is    *)
(* external: it queues an event when a flow is established or deleted, in  *)
(* that order, and loses it when its queue is full; flows that were there  *)
(* before the program was started are deleted, too.  A record is           *)
(* represented by its flow's endpoint; what the record says is left out.   *)
(***************************************************************************)
EXTENDS Naturals, Sequences, FiniteSets

CONSTANTS Endpoints,   \* endpoint ids
          QueueLength, \* of the driver's queue
          MaxEvents    \* bound: events in one behaviour

VARIABLES live,        \* the flows of the machine
          old,         \* those of them that were established before the start
          queue,       \* the driver's queue of events
          happened,    \* number of events so far
          lost,        \* endpoints an event of which was lost
          monitor,     \* where the main goroutine stands
          event,       \* the event it has received
          activeFlows, \* the map's keys
          drawer,      \* where the drawing goroutine stands
          toCopy,      \* the keys its range loop has still to visit
          records,     \* sortedRecords
          screen,      \* what the terminal shows
          flowsMutex   \* who holds the lock

driverVars  == <<live, old, queue, happened, lost>>
monitorVars == <<monitor, event, activeFlows>>
drawVars    == <<drawer, toCopy, records, screen>>
flowVars    == <<driverVars, monitorVars, drawVars, flowsMutex>>

Events == [kind : {"established", "deleted"}, endpoint : Endpoints]
NoEvent == [kind |-> "none"]

MonitorInit ==
    /\ old \in SUBSET Endpoints /\ live = old
    /\ queue = <<>> /\ happened = 0 /\ lost = {}
    /\ monitor = "recv" /\ event = NoEvent /\ activeFlows = {}
    /\ drawer = "sleep" /\ toCopy = {} /\ records = {} /\ screen = {}
    /\ flowsMutex = "free"

(* The machine opens or closes a connection, and the driver tells.  An     *)
(* endpoint id is not used twice at a time. *)
Happen(e) ==
    /\ happened < MaxEvents /\ happened' = happened + 1
    /\ live' = IF e \in live THEN live \ {e} ELSE live \cup {e}
    /\ old' = old \ {e}
    /\ LET ev == [kind |-> IF e \in live THEN "deleted" ELSE "established", endpoint |-> e]
       IN  IF Len(queue) < QueueLength
           THEN queue' = Append(queue, ev) /\ UNCHANGED lost
           ELSE lost' = lost \cup {e} /\ UNCHANGED queue
    /\ UNCHANGED <<monitorVars, drawVars, flowsMutex>>

(* Recv, and an address whose event is one of flows. *)
ReadEvent ==
    /\ monitor = "recv" /\ queue # <<>>
    /\ event' = Head(queue) /\ queue' = Tail(queue)
    /\ monitor' = "lock"
    /\ UNCHANGED <<live, old, happened, lost, activeFlows, drawVars, flowsMutex>>

Lock ==
    /\ monitor = "lock" /\ flowsMutex = "free"
    /\ flowsMutex' = "main" /\ monitor' = "update"
    /\ UNCHANGED <<driverVars, event, activeFlows, drawVars>>

(* Mutant: the flow of a deleted event stays. *)
AfterForgetful(flows, ev) ==
    IF ev.kind = "established" THEN flows \cup {ev.endpoint} ELSE flows

(* A record for an established flow, none for a deleted one; to delete a   *)
(* key that is not there does nothing. *)
After(flows, ev) ==
    IF ev.kind = "established" THEN flows \cup {ev.endpoint} ELSE flows \ {ev.endpoint}

(* The map is written between Lock and Unlock, after getProcessName. *)
Update ==
    /\ monitor = "update"
    /\ activeFlows' = After(activeFlows, event)
    /\ monitor' = "recv" /\ flowsMutex' = "free"
    /\ UNCHANGED <<driverVars, event, drawVars>>

-----------------------------------------------------------------------------
(* Mutant: the copy is made without the lock. *)
DrawerMayCopy == flowsMutex' = flowsMutex

DrawerLocks == flowsMutex = "free" /\ flowsMutex' = "drawer"

(* The ticker fires: the range loop starts on the map as it is. *)
StartCopy ==
    /\ drawer = "sleep"
    /\ DrawerLocks
    /\ toCopy' = activeFlows /\ records' = {}
    /\ drawer' = "copy"
    /\ UNCHANGED <<driverVars, monitorVars, screen>>

(* One turn of the range loop: the key is visited if it is still there. *)
CopyRecord(e) ==
    /\ drawer = "copy" /\ e \in toCopy
    /\ toCopy' = toCopy \ {e}
    /\ records' = records \cup ({e} \cap activeFlows)
    /\ UNCHANGED <<driverVars, monitorVars, drawer, screen, flowsMutex>>

EndCopy ==
    /\ drawer = "copy" /\ toCopy = {}
    /\ drawer' = "draw"
    /\ flowsMutex' = IF flowsMutex = "drawer" THEN "free" ELSE flowsMutex
    /\ UNCHANGED <<driverVars, monitorVars, toCopy, records, screen>>

Draw ==
    /\ drawer = "draw"
    /\ screen' = records
    /\ drawer' = "sleep"
    /\ UNCHANGED <<driverVars, monitorVars, toCopy, records, flowsMutex>>

EventStep == ReadEvent \/ Lock \/ Update
DrawStep == StartCopy \/ (\E e \in Endpoints : CopyRecord(e)) \/ EndCopy \/ Draw

MonitorNext == (\E e \in Endpoints : Happen(e)) \/ EventStep \/ DrawStep

MonitorSpec == MonitorInit /\ [][MonitorNext]_flowVars

(* Go's mutex serves who waits longest: a goroutine that waits for the     *)
(* lock gets it although the other one takes it again and again. *)
MonitorFairness ==
    /\ WF_flowVars(ReadEvent \/ Update) /\ SF_flowVars(Lock)
    /\ WF_flowVars(DrawStep) /\ SF_flowVars(StartCopy)

FairMonitorSpec == MonitorSpec /\ MonitorFairness

-----------------------------------------------------------------------------
(* What the screen would show of e: established since the start. *)
Shown(e) == e \in live \ old

(* The drawing goroutine reads the map while nobody writes it: no record   *)
(* of a copy is there that has gone, and none that was there is missing    *)
(* (main.go:185, "Copy flow records so we can sort them and release the    *)
(* lock quickly"). *)
CopyIsSnapshot ==
    drawer \in {"copy", "draw"} =>
        /\ drawer = "copy" => records \cup toCopy = activeFlows
        /\ ~(drawer = "copy" /\ monitor = "update")

(* As long as the driver loses no event of a flow, the screen comes to     *)
(* show the flow if it is there and to forget it if it is gone, whatever   *)
(* connections come and go meanwhile (main.go:87-123, 184-190).            *)
ScreenFollows ==
    \A e \in Endpoints :
        /\ <>[](e \notin lost /\ Shown(e)) => <>[](e \in screen)
        /\ <>[](e \notin lost /\ ~Shown(e)) => <>[](e \notin screen)
=============================================================================
