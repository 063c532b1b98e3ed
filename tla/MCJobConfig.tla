----------------------------- MODULE MCJobConfig -----------------------------
(***************************************************************************)
(* A small instance of JobConfig: a limit of six executions and shot       *)
(* counts around it, one source of each kind that matters.                 *)
(***************************************************************************)
EXTENDS JobConfig, TLC

\* OpenQASM sources: without and with native gates declared, and unreadable.
MCQasm == {"ecr", "ecr declared", "plain", "scoped bits"}
MCQpy == {"qpy", "loose bits"}
MCNormal == {"two shots", "nine shots", "no shots"}
MCExecutor == MCNormal \cup {"two  shots"}
MCLayout == [s \in MCQasm \cup MCQpy |->
    CASE s \in {"scoped bits", "loose bits"} -> -1
      [] s \in {"ecr", "ecr declared"} -> 1
      [] s = "plain" -> 2
      [] s = "qpy" -> 3]
MCNoLayout == -1
MCPayloadShots == [s \in MCExecutor |->
    CASE s \in {"two shots", "two  shots"} -> 2 [] s = "nine shots" -> 9 [] s = "no shots" -> 0]
MCNormalize == [s \in MCExecutor |-> IF s = "two  shots" THEN "two shots" ELSE s]
MCDeclare == [s \in MCQasm |-> IF s = "ecr" THEN "ecr declared" ELSE s]

\* Jobs others submitted: mixed formats, mixed and zero shots, over the limit.
MCPub == [circuit : [form : {"text"}, source : {"plain", "scoped bits"}]
                      \cup [form : {"object"}, source : {"qpy"}],
          shots : {0, 2, 4}]
MCForeign ==
    [program : {"sampler"}, plain : BOOLEAN,
     pubs : UNION {[1 .. n -> MCPub] : n \in 0 .. 2},
     options : {"off"}, cost : {60}]
    \cup [program : {"executor"}, params : MCNormal, cost : {60}]
=============================================================================
