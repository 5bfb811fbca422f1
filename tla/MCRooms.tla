------------------------------ MODULE MCRooms -------------------------------
(***************************************************************************)
(* Small instances of Timelines, Members and SavedSync.  The three keep    *)
(* different state of a room; a behaviour is about one of them, and part   *)
(* says which.  A torn timeline is not followed further.                   *)
(***************************************************************************)
EXTENDS Timelines, Members, SavedSync, TLC

VARIABLE part

\* A long room with nothing else, and a shorter one with an event loaded, a
\* local echo or a failed request.
MCPlans == {[head |-> 5, extras |-> 0], [head |-> 4, extras |-> 1]}

\* Users, and the keys of state events, are interchangeable.
Symmetry == Permutations(User) \cup Permutations(StateKey)

Init ==
  /\ part \in {"timelines", "members", "saved"}
  /\ TimelinesInit /\ MembersInit /\ SavedInit
  /\ part # "timelines" => style = "timelines" /\ plan = CHOOSE p \in Plans : TRUE

Next ==
  \/ part = "timelines" /\ ~Torn /\ TimelinesNext /\ UNCHANGED <<part, memVars, syncVars>>
  \/ part = "members" /\ MembersNext /\ UNCHANGED <<part, tlVars, syncVars>>
  \/ part = "saved" /\ SavedNext /\ UNCHANGED <<part, tlVars, memVars>>

Spec == Init /\ [][Next]_<<part, tlVars, memVars, syncVars>>
=============================================================================
