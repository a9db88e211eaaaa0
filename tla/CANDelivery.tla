----------------------------- MODULE CANDelivery ----------------------------
(***************************************************************************)
(* What the receive path of a CANController promises its observers, with   *)
(* no mailboxes, swmobs, pool or mutexes.  The frames fetched from the     *)
(* hardware form a backlog.  The head of the backlog is offered to every   *)
(* registration, in one pass per frame; each registration is considered    *)
(* once.  A matching registration puts a copy into its observer's box      *)
(* unless the box is full or no message object is left.  A box is read in  *)
(* order.  Only disable() may cut a pass short.                            *)
(***************************************************************************)
EXTENDS Naturals, Sequences, FiniteSets

CONSTANTS
  Observers, Filters,
  Frames,
  Match(_, _),     \* Match(filter, f): the filter accepts frame f
  BoxSize,         \* capacity of an observer's queue
  Objects,         \* number of message objects
  Null

VARIABLES
  backlog,         \* fetched frames not dispatched to the end
  considered,      \* registrations the head of the backlog was offered to
  registrations,   \* a set of observer and filter pairs
  box,             \* frames each observer may still read
  reading,         \* the frame an observer has read and not released
  aborts           \* passes cut short

dvars == <<backlog, considered, registrations, box, reading, aborts>>

Init ==
  /\ backlog = <<>> /\ considered = {} /\ registrations = {}
  /\ box = [o \in Observers |-> <<>>]
  /\ reading = [o \in Observers |-> Null]
  /\ aborts = 0

Fetch(f) ==
  /\ backlog' = Append(backlog, f)
  /\ UNCHANGED <<considered, registrations, box, reading, aborts>>

(* The message objects that may be in use: one per boxed or read frame,    *)
(* and one per pass that was cut short.                                    *)
InUse ==
  Cardinality({w \in Observers \X (0..BoxSize + 1) :
                 IF w[2] = 0 THEN reading[w[1]] # Null
                 ELSE w[2] <= Len(box[w[1]])})
  + aborts

Consider(r) ==
  /\ backlog # <<>>
  /\ r \in registrations \ considered
  /\ considered' = considered \cup {r}
  /\ UNCHANGED <<backlog, registrations, reading, aborts>>

Deliver(r) ==
  /\ Consider(r)
  /\ Match(r.filter, Head(backlog))
  /\ box' = [box EXCEPT ![r.observer] = Append(@, Head(backlog))]

PassOver(r) ==
  /\ Consider(r)
  /\ \/ ~Match(r.filter, Head(backlog))
     \/ Len(box[r.observer]) >= BoxSize
     \/ InUse >= Objects
  /\ UNCHANGED box

(* The pass is over when every registration has been considered.           *)
Finish ==
  /\ backlog # <<>>
  /\ registrations \subseteq considered
  /\ backlog' = Tail(backlog)
  /\ considered' = {}
  /\ UNCHANGED <<registrations, box, reading, aborts>>

(* disable() abandons the pass, and at most one frame with it.             *)
Abort ==
  /\ aborts' = aborts + 1
  /\ considered' = {}
  /\ \/ UNCHANGED backlog
     \/ backlog # <<>> /\ backlog' = Tail(backlog)
  /\ UNCHANGED <<registrations, box, reading>>

ReadFrame(o) ==
  /\ box[o] # <<>>
  /\ reading[o] = Null
  /\ reading' = [reading EXCEPT ![o] = Head(box[o])]
  /\ box' = [box EXCEPT ![o] = Tail(@)]
  /\ UNCHANGED <<backlog, considered, registrations, aborts>>

Release(o) ==
  /\ reading[o] # Null
  /\ reading' = [reading EXCEPT ![o] = Null]
  /\ UNCHANGED <<backlog, considered, registrations, box, aborts>>

(* Registrations change between passes only.                               *)
Subscribe(o, filter) ==
  /\ considered = {}
  /\ registrations' = registrations \cup {[observer |-> o, filter |-> filter]}
  /\ UNCHANGED <<backlog, considered, box, reading, aborts>>

Unsubscribe(some) ==
  /\ considered = {}
  /\ registrations' = registrations \ some
  /\ UNCHANGED <<backlog, considered, box, reading, aborts>>

Next ==
  \/ \E f \in Frames : Fetch(f)
  \/ \E r \in registrations : Deliver(r) \/ PassOver(r)
  \/ Finish \/ Abort
  \/ \E o \in Observers : ReadFrame(o) \/ Release(o)
  \/ \E o \in Observers, filter \in Filters : Subscribe(o, filter)
  \/ \E some \in SUBSET registrations : Unsubscribe(some)

Spec == Init /\ [][Next]_dvars
=============================================================================
