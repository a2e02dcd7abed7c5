---------------------------- MODULE MCControlApi ----------------------------
(* PendingScan, and with it ControlApi, for TLC: two tenants with a valid API *)
(* key each, of which one has bindings for the event, and a key that is not   *)
(* valid.                                                                     *)
EXTENDS PendingScan

CONSTANTS t1, t2, a1, a2, a3, r1, r2, r3, k1, e1, b1, b2, none, nocall

TwoTenantKeys == [k \in {a1, a2} |-> IF k = a1 THEN t1 ELSE t2]
FirstTenantBindings == [t \in {t1, t2} |-> IF t = t1 THEN {b1, b2} ELSE {}]

FirstRun == [tenant : {t1}, key : {k1}, by : {r1}]

\* The first tenant's requests share an idempotency key and an event; the second
\* asks for one of the first's runs; the key that is not valid asks for a list.
MadeCalls == [op : {"run"}, apiKey : {a1}, key : {k1}]
             \union [op : {"event"}, apiKey : {a1}, id : {e1}]
             \union [op : {"get"}, apiKey : {a2}, run : FirstRun]
             \union [op : {"list"}, apiKey : {a3}]
=============================================================================
