--------------------------------- MODULE Calls ---------------------------------
(***************************************************************************)
(* Calls between contracts: action::call of the caller, the host's         *)
(* call_action (external), FTL_DISPATCH and execute_action of the callee,  *)
(* set_result, call_result.  A frame is an instance of a contract that     *)
(* serves one action; the frames of one transaction form a stack.          *)
(*                                                                         *)
(* Bytes are fields: a packed value is the sequence of its fields, and the *)
(* caller's idea of the callee's parameters and result, which nothing      *)
(* compares with the callee's, is a number of fields.                      *)
(***************************************************************************)
EXTENDS Naturals, Sequences

CONSTANTS
    Contracts,          \* the contracts
    Actions,            \* the names of actions
    Fields,             \* what arguments of calls are made of
    Programs,           \* a handler for each action of each contract
    Transactions,       \* calls from outside: [to, action, data]
    MaxStackBuffer,     \* max_stack_buffer_size: larger buffers are malloc'ed
    MaxDepth            \* frames the host allows (external)

VARIABLES
    handlers,   \* the program: contract -> action -> [arity, body, returns]
    tx,         \* the transaction
    stack,      \* frames, innermost last
    outcome     \* "running", "returned" or "aborted"

vars == <<handlers, tx, stack, outcome>>

\* A call in the body of a handler.
CallSites == [to : Contracts, action : Actions, passes : 0 .. 2, expects : Nat]

ASSUME ProgramsAssumption ==
    \A h \in Programs :
        /\ DOMAIN h = Contracts
        /\ \A c \in Contracts : \A a \in DOMAIN h[c] :
              h[c][a].arity \in Nat /\ h[c][a].returns \in Nat /\ h[c][a].body \in Seq(CallSites)

ASSUME TransactionsAssumption ==
    /\ {"x", "y"} \subseteq Fields /\ MaxDepth \in Nat \ {0}
    /\ \A t \in Transactions :
          t.to \in Contracts /\ t.action \in Actions /\ t.data \in Seq(Fields)

Frame(contract, action, data) ==
    [contract |-> contract, action |-> action, data |-> data, pc |-> "enter",
     args |-> <<>>,     \* the unpacked arguments
     next |-> 1,        \* the call of its body that comes next
     var |-> <<>>,      \* what *result of its calls points to
     slot |-> <<>>,     \* what call_result gives
     result |-> <<>>,   \* what it gave to set_result
     live |-> {}]       \* its malloc'ed buffers

Init ==
    /\ handlers \in Programs
    /\ tx \in Transactions
    /\ stack = <<Frame(tx.to, tx.action, tx.data)>>
    /\ outcome = "running"

-----------------------------------------------------------------------------

Top == stack[Len(stack)]

Handler(f) == handlers[f.contract][f.action]

At(pc) == stack # <<>> /\ Top.pc = pc

\* The innermost frame goes on as f.
Becomes(f) ==
    /\ stack' = [stack EXCEPT ![Len(stack)] = f]
    /\ UNCHANGED <<handlers, tx, outcome>>

\* The innermost frame ends and call_action of its caller returns (external):
\* the host holds the callee's result for the caller, or none.
Leave(result) ==
    LET n == Len(stack) - 1
    IN  /\ stack' = [i \in 1 .. n |->
                       IF i < n THEN stack[i]
                       ELSE [stack[i] EXCEPT !.pc = "called", !.slot = result]]
        /\ outcome' = IF n = 0 THEN "returned" ELSE outcome
        /\ UNCHANGED <<handlers, tx>>

\* A failed assertion: the host ends the transaction, or only the frame.
Trap ==
    \/ Leave(<<>>)
    \/ stack' = <<>> /\ outcome' = "aborted" /\ UNCHANGED <<handlers, tx>>

Buffer(name, size) == IF size > MaxStackBuffer THEN {name} ELSE {}

\* apply and the first half of execute_action.  The switch has no default.
Enter ==
    /\ At("enter")
    /\ IF Top.action \notin DOMAIN handlers[Top.contract]
       THEN Becomes([Top EXCEPT !.pc = "return"])
       ELSE IF Len(Top.data) < Handler(Top).arity
       THEN Trap
       ELSE Becomes([Top EXCEPT !.pc = "body",
                                !.args = SubSeq(Top.data, 1, Handler(Top).arity),
                                !.live = Buffer("data", Len(Top.data))])

\* What a call passes: the caller's own arguments first, or values of its own.
Passed(call, args) == SubSeq(args \o <<"x", "y">>, 1, call.passes)

\* The first half of action::call, up to call_action.
Call ==
    /\ At("body") /\ Top.next <= Len(Handler(Top).body)
    /\ LET call == Handler(Top).body[Top.next]
           data == Passed(call, Top.args)
           f == [Top EXCEPT !.live = @ \cup Buffer("call", 1 + Len(data))]
       IN  IF Len(stack) = MaxDepth
           THEN Becomes([f EXCEPT !.pc = "called", !.slot = <<>>])
           ELSE /\ stack' = Append([stack EXCEPT ![Len(stack)] = f],
                                   Frame(call.to, call.action, data))
                /\ UNCHANGED <<handlers, tx, outcome>>

Collect_BugKeepsAnswer ==
    /\ At("called")
    /\ LET call == Handler(Top).body[Top.next]
           sent == Buffer("call", 1 + Len(Passed(call, Top.args)))
           read == call.expects > 0 /\ Top.slot # <<>>
           answer == IF read THEN Buffer("answer", Len(Top.slot)) ELSE {}
       IN  IF read /\ Len(Top.slot) < call.expects
           THEN Trap
           ELSE Becomes([Top EXCEPT !.pc = "body", !.next = @ + 1,
                                    !.var = IF read THEN SubSeq(Top.slot, 1, call.expects) ELSE @,
                                    !.live = (@ \cup answer) \ sent])

\* The second half.  Of a void function the result is not asked for; of another
\* it is read if there is one, whatever call_action returned, through a buffer of
\* its own size.  Both buffers are freed as they were allocated, by their sizes.
Collect ==
    /\ At("called")
    /\ LET call == Handler(Top).body[Top.next]
           sent == Buffer("call", 1 + Len(Passed(call, Top.args)))
           read == call.expects > 0 /\ Top.slot # <<>>
           answer == IF read THEN Buffer("answer", Len(Top.slot)) ELSE {}
       IN  IF read /\ Len(Top.slot) < call.expects
           THEN Trap
           ELSE Becomes([Top EXCEPT !.pc = "body", !.next = @ + 1,
                                    !.var = IF read THEN SubSeq(Top.slot, 1, call.expects) ELSE @,
                                    !.live = (@ \cup answer) \ (answer \cup sent)])

\* What a handler returns depends on what it was passed and got from its calls.
Returned(d, f, args, var) ==
    [j \in 1 .. d.returns |-> <<f.contract, f.action, j, args, var>>]

Finish_BugVoid ==
    /\ At("body") /\ Top.next > Len(Handler(Top).body)
    /\ Becomes([Top EXCEPT !.pc = "return", !.live = @ \ Buffer("data", Len(Top.data))])

\* The second half of execute_action.
Finish ==
    /\ At("body") /\ Top.next > Len(Handler(Top).body)
    /\ LET result == Returned(Handler(Top), Top, Top.args, Top.var)
       IN  Becomes([Top EXCEPT !.pc = "return", !.result = result,
                               !.live = (@ \cup Buffer("result", Len(result)))
                                           \ Buffer("data", Len(Top.data))])

Return == At("return") /\ Leave(Top.result)

Next == Enter \/ Call \/ Collect \/ Finish \/ Return

Spec == Init /\ [][Next]_vars

-----------------------------------------------------------------------------
(* Properties *)

None == [traps |-> FALSE, value |-> <<>>]
Traps == [traps |-> TRUE, value |-> <<>>]
Value(v) == [traps |-> FALSE, value |-> v]

Callee(f) == [contract |-> f.contract, action |-> f.action]

Callees == [contract : Contracts, action : Actions]

\* What a variable that was v becomes by a call that gives r.
Assigned(v, call, r) ==
    IF v.traps \/ call.expects = 0 \/ r.traps \/ r.value = <<>> THEN v
    ELSE IF Len(r.value) < call.expects THEN Traps
    ELSE Value(SubSeq(r.value, 1, call.expects))

\* A call site as a call: what is called and what it is passed.
CallOf(site, args) ==
    <<[contract |-> site.to, action |-> site.action], Passed(site, args)>>

\* The variable of handler d after each of the calls of its body, when callees give
\* what the function "calls" says.
Variable(d, calls, args) ==
    LET var[k \in 0 .. Len(d.body)] ==
            IF k = 0 THEN None
            ELSE Assigned(var[k - 1], d.body[k], calls[CallOf(d.body[k], args)])
    IN  var

\* What frame f of program h gives.
Given(h, calls, f, data) ==
    IF f.action \notin DOMAIN h[f.contract] THEN None
    ELSE LET d == h[f.contract][f.action]
             args == SubSeq(data, 1, d.arity)
             v == Variable(d, calls, args)[Len(d.body)]
         IN  IF Len(data) < d.arity \/ v.traps THEN Traps
             ELSE Value(Returned(d, f, args, v.value))

\* What every call gives, were calls plain calls of functions, n deep.
Direct(h) ==
    LET direct[n \in 0 .. MaxDepth] ==
            [x \in Callees \X Seq(Fields) |->
               IF n = 0 THEN Traps ELSE Given(h, direct[n - 1], x[1], x[2])]
    IN  direct

\* The value a frame hands back is the one that plain function calls would have
\* computed: results, arguments and variables of nested, re-entrant and failed
\* calls do not mix, though each passes through buffers and the host's one slot.
ResultsAsDirect ==
    \A i \in 1 .. Len(stack) :
        LET f == stack[i]
        IN  f.pc = "return" =>
                Value(f.result) = Direct(handlers)[MaxDepth - i + 1][<<Callee(f), f.data>>]

\* A frame that ends has freed every buffer but the one of its own result, which
\* execute_action never frees, and a frame between two calls holds its data only:
\* neither the buffer that action::call sent nor the one it took the answer in.
OnlyResultLeaks ==
    \A i \in 1 .. Len(stack) :
        /\ stack[i].pc = "return" => stack[i].live \subseteq {"result"}
        /\ stack[i].pc = "body" /\ i = Len(stack) => stack[i].live \subseteq {"data"}
===============================================================================
