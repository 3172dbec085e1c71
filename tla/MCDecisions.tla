------------------------------ MODULE MCDecisions ------------------------------
(* The inputs that TLC gives to Decisions. *)
EXTENDS Decisions

(* Events: every type with every result the code tells apart, and every     *)
(* combination of recognition results, be it in an event of another type.   *)
MCResults == {None} \cup ({0, 400, 480, 486, 487, 500, 603, 540486, 560486} \X
                          {0, 8510, 8511, 8538, 8539, 8540, 10024, 540486, 560480, 560486})

MCRecognitions == {"approve", "reject", "other", None} \X {"blank", "text", "long", None}

MCEvent(wellFormed, type, request, result, recognition) ==
    [wellFormed |-> wellFormed, type |-> type, request |-> request, call |-> "c",
     result |-> result, choice |-> recognition[1], speech |-> recognition[2]]

MCEvents ==
    {MCEvent(TRUE, t, "r", res, <<None, None>>) : t \in AcsEventTypes \cup {"Other"}, res \in MCResults}
    \cup {MCEvent(TRUE, t, "r", res, rec) :
              t \in {"RecognizeCompleted", "RecognizeFailed", "CallDisconnected"},
              res \in {None, <<0, 0>>}, rec \in MCRecognitions}
    \cup {MCEvent(w, "CallConnected", r, None, <<None, None>>) : w \in BOOLEAN, r \in {"r", None}}

MCEventInputs == [about: {"event"}, kind: {"approval", "input"}, event: MCEvents]

(* Claims: two aliases of each kind, agreeing or not, in either case, and   *)
(* an object id that is empty.                                              *)
MCFold == [id \in {"app", "APP", "other"} |-> IF id = "other" THEN "other" ELSE "app"]

MCClaims == {[typ |-> c[1], val |-> c[2]] : c \in
    {<<"appid", "app">>, <<"azp", "app">>, <<"azp", "APP">>, <<"appid", "other">>,
     <<"oid", "ann">>, <<"claims/objectidentifier", "ann">>, <<"oid", "bob">>, <<"oid", NoValue>>, <<"oid", "">>,
     <<"sub", "ann">>, <<"sub", "cat">>, <<"claims/nameidentifier", "dan">>,
     <<"roles", REQUIRED_ROLE>>, <<"role", "Reader">>}}

MCClaimInputs == [about: {"claims"}, claims: SUBSET MCClaims]

(* Evidence: two calls and two requests, rows in and out of the window, one *)
(* of them sampled, and a review of this snapshot or of another.            *)
MCAttempts == {[call |-> "c1", at |-> 1], [call |-> "c2", at |-> 2], [call |-> "c2", at |-> 3]}

MCObservation(op, request, call, received, at, count) ==
    [op |-> op, request |-> request, call |-> call, received |-> received, at |-> at, count |-> count]

MCObservations ==
    {MCObservation(Created, "r1", "c1", None, 1, 1), MCObservation(Created, "r2", "c2", None, 2, 1),
     MCObservation(Created, "r2", "c1", None, 2, 1), MCObservation(Created, "r1", "c1", None, 2, 2),
     MCObservation(CallbackAccepted, "r1", "c1", 1, 2, 1),
     MCObservation(CallbackAccepted, "r2", "c1", 1, 2, 1),
     MCObservation(CallbackAccepted, "r2", "c2", 0, 2, 1),
     MCObservation(JoinPending, "r1", None, None, 2, 1)}

MCSnapshots ==
    {[attempts |-> A, observations |-> O, start |-> 1, end |-> e, begun |-> 2, queried |-> 2] :
        A \in SUBSET MCAttempts, O \in SUBSET MCObservations, e \in 1..3}

MCEvidenceInputs ==
    {[about |-> "evidence", snapshot |-> s,
      review |-> [of |-> IF same THEN s ELSE [s EXCEPT !.attempts = {}], at |-> t], now |-> 3] :
        s \in MCSnapshots, same \in BOOLEAN, t \in {1, 3, 4}}
================================================================================
