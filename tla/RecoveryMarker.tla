--------------------------- MODULE RecoveryMarker ---------------------------
(***************************************************************************)
(* What the recovery markers promise, without connections, leases, jobs or *)
(* awaits: the life of a database profile as its user sees it across       *)
(* crashes and restarts.                                                   *)
(*                                                                         *)
(*   clear   no marker is stored and no write is outstanding               *)
(*   marked  a marker is stored, no write is outstanding                   *)
(*   live    a marker is stored and a write is open in the database        *)
(*   doubt   a marker is stored, the outcome of a write is not known       *)
(*                                                                         *)
(* A write goes live only from marked, leaves live only by being settled   *)
(* (marked) or lost (doubt), and only the user leads out of doubt.         *)
(***************************************************************************)
CONSTANT Names

VARIABLES phase, up

vars == <<phase, up>>

Phases == {"clear", "marked", "live", "doubt"}

TypeOK == phase \in [Names -> Phases] /\ up \in BOOLEAN

Init == phase = [n \in Names |-> "clear"] /\ up = TRUE

\* One write of the state document: it may add and remove the markers of any
\* profiles that have no write outstanding, several at once.
Save ==
  /\ up
  /\ \E marked \in SUBSET Names :
       phase' = [n \in Names |->
                   IF phase[n] \in {"live", "doubt"} THEN phase[n]
                   ELSE IF n \in marked THEN "marked" ELSE "clear"]
  /\ UNCHANGED up

Begin(n) == 
  /\ up
  /\ phase[n] = "marked"
  /\ phase' = [phase EXCEPT ![n] = "live"]
  /\ UNCHANGED up

Settled(n) ==
  /\ up
  /\ phase[n] = "live"
  /\ phase' = [phase EXCEPT ![n] = "marked"]
  /\ UNCHANGED up

Lost(n) ==
  /\ up
  /\ phase[n] = "live"
  /\ phase' = [phase EXCEPT ![n] = "doubt"]
  /\ UNCHANGED up

Acknowledged(n) ==
  /\ up
  /\ phase[n] = "doubt"
  /\ phase' = [phase EXCEPT ![n] = "marked"]
  /\ UNCHANGED up

\* The process ends: each live write was undone for certain, or is in doubt.
Stop ==
  /\ up
  /\ up' = FALSE
  /\ \E undone \in SUBSET Names :
       phase' = [n \in Names |->
                   IF phase[n] # "live" THEN phase[n]
                   ELSE IF n \in undone THEN "marked" ELSE "doubt"]

Start == ~up /\ up' = TRUE /\ UNCHANGED phase

Next ==
  \/ Save \/ Stop \/ Start
  \/ \E n \in Names : Begin(n) \/ Settled(n) \/ Lost(n) \/ Acknowledged(n)

Spec == Init /\ [][Next]_vars

=============================================================================
