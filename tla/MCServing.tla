----------------------------- MODULE MCServing -----------------------------
(***************************************************************************)
(* A `run` of two gates with an agent node between them, a gate submitted  *)
(* twice to `serve`, and a node of an HTTP request; the local agent of the *)
(* first and a client of `serve`.                                          *)
(***************************************************************************)
EXTENDS Serving, TLC

CONSTANTS plan, build, gate, sign1, sign2, fetch, agent, client

Tasks == {plan, build, gate, sign1, sign2, fetch}
Line == plan :> None @@ build :> plan @@ gate :> build
        @@ sign1 :> None @@ sign2 :> None @@ fetch :> None
StartedBy == plan :> "run" @@ build :> "run" @@ gate :> "run"
             @@ sign1 :> "serve" @@ sign2 :> "serve" @@ fetch :> "http"
Naming == plan :> <<<<"run">>, "plan">> @@ build :> <<<<"run">>, "build">>
          @@ gate :> <<<<"run">>, "gate">>
          @@ sign1 :> <<<<"manager">>, "sign">> @@ sign2 :> <<<<"manager">>, "sign">>
          @@ fetch :> <<<<"request", fetch>>, "fetch">>
Names == {Naming[t] : t \in Tasks}
WithTimeout == {build, fetch}
NamesOfGates == {Naming[gate]}
=============================================================================
