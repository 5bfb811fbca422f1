------------------------------ MODULE MCCalls -------------------------------
(***************************************************************************)
(* Small instances of Call and CallMedia.  A behaviour is about the set-up *)
(* of calls or about the media of one that is set up; part says which.     *)
(***************************************************************************)
EXTENDS Call, CallMedia

CONSTANTS a, b, b2   \* a device of one user, two of the other

VARIABLE part

MCUser == [d \in Devices |-> IF d = a THEN "A" ELSE "B"]
MCRank == [d \in Devices |-> IF d = a THEN 1 ELSE IF d = b THEN 2 ELSE 3]

Scenario(present, callers, stops, troubles, candidates) ==
  [present |-> present, callers |-> callers, stops |-> stops, troubles |-> troubles,
   candidates |-> candidates, stopped |-> FALSE, troubled |-> FALSE]

\* Both call each other; one calls the other, and somebody stops; the same
\* with a failure and candidates; a call that rings at two devices.
MCScenarios == {Scenario({a, b}, {a, b}, 0, 0, 0), Scenario({a, b}, {a}, 1, 0, 0),
                Scenario({a, b}, {a}, 0, 1, 1), Scenario({a, b, b2}, {a}, 0, 0, 0)}

Init ==
  /\ part \in {"call", "media"} /\ CallInit /\ MediaInit
  /\ part = "media" => scene = CHOOSE s \in Scenarios : TRUE

Next ==
  \/ part = "call" /\ CallNext /\ UNCHANGED <<part, mediaVars>>
  \/ part = "media" /\ MediaNext /\ UNCHANGED <<part, callVars>>

Spec == Init /\ [][Next]_<<part, callVars, mediaVars>>
=============================================================================
