------------------------------- MODULE MCFlow -------------------------------
\* An order that splits into deliveries, each of which calls another module;
\* then a child process waits for reports if there is something to wait for,
\* and the order sleeps before it ends.
EXTENDS Flow

Step(kind) == [kind |-> kind, wf |-> "none"]
Fork(kind, wf) == [kind |-> kind, wf |-> wf]
Flows(main, abort) == [q \in {"default", "abort"} |-> IF q = "default" THEN main ELSE abort]

OrderProg ==
  [w \in {"order", "delivery", "check"} |->
     CASE w = "order"    -> Flows(<<Fork("split", "delivery"), Fork("if", "check"),
                                    Step("sleep")>>, <<Step("plain")>>)
       [] w = "delivery" -> Flows(<<Step("plain"), Step("call")>>, <<>>)
       [] w = "check"    -> Flows(<<Step("wait"), Step("plain")>>, <<>>)]
=============================================================================
