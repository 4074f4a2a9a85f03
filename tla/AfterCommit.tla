---------------------------- MODULE AfterCommit ----------------------------
(***************************************************************************)
(* services/transaction.py: transactions of one thread and the callbacks   *)
(* they defer until after their commit.  Transactions nest (each has a     *)
(* connection of its own), a callback may open transactions and register   *)
(* callbacks itself, and bodies and callbacks may raise anywhere.          *)
(***************************************************************************)
EXTENDS Naturals, SequencesExt, TLAPS

CONSTANTS
  Tx,             \* the transactions the thread can open, each once
  Callback        \* the callbacks it can register, numbers

(* What the constants must satisfy.                                        *)
CallbackAssumption == Callback \subseteq Nat /\ {"unborn", "none"} \cap Tx = {}

VARIABLES
  control,        \* the call stack: open transactions and callback loops
  outcome,        \* of each transaction
  home,           \* history: the transaction a callback was deferred to
  fired           \* history: the callbacks in the order they ran

vars == <<control, outcome, home, fired>>

TxFrame(t) == [kind |-> "tx", tx |-> t, queue |-> <<>>, inside |-> TRUE]
Loop(t, q) == [kind |-> "loop", tx |-> t, queue |-> q, inside |-> FALSE]

TypeOK ==
  /\ \A i \in 1 .. Len(control) :
       /\ control[i].kind \in {"tx", "loop"}
       /\ control[i].tx \in Tx
       /\ \A k \in 1 .. Len(control[i].queue) : control[i].queue[k] \in Callback
  /\ outcome \in [Tx -> {"new", "open", "committed", "rolled_back"}]
  /\ \A c \in Callback : home[c] \in Tx \cup {"unborn", "none"}
  /\ fired \in Seq(Callback)

Init ==
  /\ control = <<>>
  /\ outcome = [t \in Tx |-> "new"]
  /\ home = [c \in Callback |-> "unborn"]
  /\ fired = <<>>

Running == control # <<>>
Top == Last(control)
Below == Front(control)

\* _stack(): the open transactions; a callback loop is not on it.
OpenFrames == {i \in 1 .. Len(control) : control[i].kind = "tx"}
Innermost == CHOOSE i \in OpenFrames : \A k \in OpenFrames : k <= i

\* The thread is in code that can call: no transaction, the body of one, or a
\* callback.
CanCall == Running => Top.inside

\* Callbacks are numbered in the order they are registered.
Fresh(c) == home[c] = "unborn" /\ \A d \in Callback : d < c => home[d] # "unborn"

\* with transaction(): ...
Enter(t) ==
  /\ CanCall
  /\ outcome[t] = "new"
  /\ outcome' = [outcome EXCEPT ![t] = "open"]
  /\ control' = Append(control, TxFrame(t))
  /\ UNCHANGED <<home, fired>>

\* register_after_commit: on the innermost open transaction, or at once.
Register(c) ==
  /\ CanCall
  /\ Fresh(c)
  /\ IF OpenFrames = {}
     THEN /\ home' = [home EXCEPT ![c] = "none"]
          /\ fired' = Append(fired, c)
          /\ UNCHANGED control
     ELSE /\ home' = [home EXCEPT ![c] = control[Innermost].tx]
          /\ control' = [control EXCEPT ![Innermost].queue = Append(@, c)]
          /\ UNCHANGED fired
  /\ UNCHANGED outcome

\* The body ends and the commit succeeds: the frame is popped, the connection
\* released, the callbacks run next.
Commit ==
  /\ Running /\ Top.kind = "tx"
  /\ outcome' = [outcome EXCEPT ![Top.tx] = "committed"]
  /\ control' = Append(Below, Loop(Top.tx, Top.queue))
  /\ UNCHANGED <<home, fired>>

\* The body raises, or the commit does: the callbacks are dropped.  The
\* exception goes on to the caller, which may be a body of its own (and raise
\* next, or not), or a callback loop, which logs it.
RollBack ==
  /\ Running /\ Top.kind = "tx"
  /\ outcome' = [outcome EXCEPT ![Top.tx] = "rolled_back"]
  /\ control' = Below
  /\ UNCHANGED <<home, fired>>

\* Variant: the loop ends at the first callback that raises.
RunOrGiveUp ==
  /\ Running /\ Top.kind = "loop" /\ Top.queue # <<>>
  /\ fired' = Append(fired, Head(Top.queue))
  /\ \/ control' = Append(Below, [Top EXCEPT !.queue = Tail(@), !.inside = TRUE])
     \/ control' = Below
  /\ UNCHANGED <<outcome, home>>

\* run_after_commit: the next callback; if it raises the loop goes on.
RunCallback ==
  /\ Running /\ Top.kind = "loop" /\ Top.queue # <<>>
  /\ fired' = Append(fired, Head(Top.queue))
  /\ control' = Append(Below, [Top EXCEPT !.queue = Tail(@), !.inside = TRUE])
  /\ UNCHANGED <<outcome, home>>

Return ==
  /\ Running /\ Top.kind = "loop" /\ Top.queue = <<>>
  /\ control' = Below
  /\ UNCHANGED <<outcome, home, fired>>

Next ==
  \/ \E t \in Tx : Enter(t)
  \/ \E c \in Callback : Register(c)
  \/ Commit \/ RollBack \/ RunCallback \/ Return

Spec == Init /\ [][Next]_vars
-----------------------------------------------------------------------------
Fired == {fired[i] : i \in 1 .. Len(fired)}

\* Side effects "must NOT fire if the main write rolls back", nor before it
\* commits: whatever the nesting, a callback that ran was deferred to a
\* transaction that had committed.
FiresOnlyAfterCommit ==
  \A c \in Fired : home[c] = "none" \/ outcome[home[c]] = "committed"

\* No callback is lost or repeated: one whose transaction committed is waiting
\* in the loop of that transaction or has run, and none runs twice.
NoneLost ==
  /\ IsInjective(fired)
  /\ \A c \in Callback \ Fired :
       home[c] \in Tx /\ outcome[home[c]] = "committed" =>
         \E i \in 1 .. Len(control) :
           control[i].tx = home[c] /\ c \in {control[i].queue[k] : k \in 1 .. Len(control[i].queue)}

\* Callbacks of one transaction run in the order they were registered.
RunInOrder ==
  \A t \in Tx : \A i, k \in 1 .. Len(fired) :
    i < k /\ home[fired[i]] = t /\ home[fired[k]] = t => fired[i] < fired[k]


-----------------------------------------------------------------------------
(* Callbacks run after their commit, once and in order, whatever the       *)
(* nesting of transactions and callbacks and wherever they raise.  The     *)
(* inductive invariant says what is on the call stack; each kind of step   *)
(* keeps it.                                                               *)

Frame == [kind : {"tx", "loop"}, tx : Tx, queue : Seq(Callback), inside : BOOLEAN]
Types ==
  /\ control \in Seq(Frame)
  /\ outcome \in [Tx -> {"new", "open", "committed", "rolled_back"}]
  /\ home \in [Callback -> Tx \cup {"unborn", "none"}]
  /\ fired \in Seq(Callback)

\* The first n frames have an innermost transaction, if they have any.
Deepest(n) ==
  (\E i \in 1 .. n : control[i].kind = "tx") =>
    \E i \in 1 .. n : control[i].kind = "tx" /\ \A k \in i + 1 .. n : control[k].kind # "tx"

\* A transaction is on the stack once, as what it is; its callbacks wait
\* there, in their order, behind those of its own that have run.
FrameInv(i) ==
  /\ outcome[control[i].tx] = IF control[i].kind = "tx" THEN "open" ELSE "committed"
  /\ \A k \in 1 .. Len(control) : control[k].tx = control[i].tx => k = i
  /\ \A k \in 1 .. Len(control[i].queue) :
       /\ home[control[i].queue[k]] = control[i].tx
       /\ \A l \in 1 .. k - 1 : control[i].queue[l] < control[i].queue[k]
       /\ \A l \in 1 .. Len(fired) : home[fired[l]] = control[i].tx => fired[l] < control[i].queue[k]

\* A callback that ran was due, and came after those of its transaction.
FiredInv(i) ==
  /\ home[fired[i]] # "none" => home[fired[i]] \in Tx /\ outcome[home[fired[i]]] = "committed"
  /\ \A k \in 1 .. i - 1 : home[fired[k]] = home[fired[i]] => fired[k] < fired[i]

\* A callback of a transaction that may commit or has is on the stack or ran.
Kept(c) ==
  home[c] \in Tx /\ outcome[home[c]] # "rolled_back" =>
    \/ \E i \in 1 .. Len(fired) : fired[i] = c
    \/ \E i \in 1 .. Len(control) : /\ control[i].tx = home[c]
                                    /\ \E k \in 1 .. Len(control[i].queue) : control[i].queue[k] = c

IInv ==
  /\ Types
  /\ \A n \in 0 .. Len(control) : Deepest(n)
  /\ \A i \in 1 .. Len(control) : FrameInv(i)
  /\ \A i \in 1 .. Len(fired) : FiredInv(i)
  /\ \A c \in Callback : Kept(c)
  /\ \A c, d \in Callback : d < c /\ home[c] # "unborn" => home[d] # "unborn"

\* What the invariant says of the callbacks that ran and of those that wait.
LEMMA Holds ==
  ASSUME CallbackAssumption, IInv
  PROVE  TypeOK /\ FiresOnlyAfterCommit /\ NoneLost /\ RunInOrder
  <1>0. TypeOK
    <2>1. \A i \in 1 .. Len(control) : control[i] \in Frame
      BY DEF IInv, Types
    <2>2. \A i \in 1 .. Len(control) : \A k \in 1 .. Len(control[i].queue) : control[i].queue[k] \in Callback
      BY <2>1 DEF Frame
    <2> QED BY <2>1, <2>2 DEF TypeOK, IInv, Types, Frame
  <1> USE DEF Types
  <1>1. FiresOnlyAfterCommit
    BY DEF FiresOnlyAfterCommit, IInv, FiredInv, Fired
  <1>2. RunInOrder
    BY DEF RunInOrder, IInv, FiredInv
  <1>3. IsInjective(fired)
    <2> SUFFICES ASSUME NEW a \in 1 .. Len(fired), NEW b \in 1 .. Len(fired), fired[a] = fired[b], a # b PROVE FALSE
      BY DEF IsInjective, IInv
    <2>1. fired[a] \in Nat
      BY DEF IInv, CallbackAssumption
    <2> QED BY <2>1 DEF IInv, FiredInv
  <1>4. ASSUME NEW c \in Callback \ Fired, home[c] \in Tx, outcome[home[c]] = "committed"
        PROVE \E i \in 1 .. Len(control) :
           control[i].tx = home[c] /\ c \in {control[i].queue[k] : k \in 1 .. Len(control[i].queue)}
    BY <1>4 DEF IInv, Kept, Fired
  <1> QED BY <1>0, <1>1, <1>2, <1>3, <1>4 DEF NoneLost

\* The call stack has a top, and the rest of it below.
LEMMA TopOfStack ==
  ASSUME Types, Running
  PROVE  /\ Len(control) \in Nat \ {0} /\ Top = control[Len(control)] /\ Top \in Frame
         /\ Below \in Seq(Frame) /\ Len(Below) = Len(control) - 1
         /\ \A i \in 1 .. Len(control) - 1 : Below[i] = control[i]
  <1>1. control \in Seq(Frame) /\ Len(control) \in Nat \ {0}
    BY DEF Types, Running
  <1>2. Top = control[Len(control)] /\ Below = SubSeq(control, 1, Len(control) - 1)
    BY DEF Top, Below, Last, Front
  <1>3. Top \in Frame
    BY <1>1, <1>2
  <1>4. ASSUME NEW n \in Nat, n = Len(control) - 1
        PROVE  /\ Below \in Seq(Frame) /\ Len(Below) = n
               /\ \A i \in 1 .. n : Below[i] = control[i]
    <2>1. Below = SubSeq(control, 1, n) /\ n < Len(control)
      BY <1>1, <1>2, <1>4
    <2>2. ASSUME NEW i \in 1 .. n PROVE SubSeq(control, 1, n)[i] = control[i]
      BY <1>1, <2>1
    <2>3. SubSeq(control, 1, n) \in Seq(Frame) /\ Len(SubSeq(control, 1, n)) = n
      BY <1>1, <2>1
    <2> QED BY <2>1, <2>2, <2>3
  <1>5. PICK n \in Nat : n = Len(control) - 1
    BY <1>1
  <1>6. /\ Below \in Seq(Frame) /\ Len(Below) = n
        /\ \A i \in 1 .. n : Below[i] = control[i]
    BY <1>4, <1>5
  <1> QED BY <1>1, <1>2, <1>3, <1>5, <1>6

\* The same, with another frame on top.
LEMMA NewTop ==
  ASSUME Types, Running, NEW f \in Frame, control' = Append(Below, f)
  PROVE  /\ control' \in Seq(Frame) /\ Len(control') = Len(control)
         /\ \A i \in 1 .. Len(control) - 1 : control'[i] = control[i]
         /\ control'[Len(control)] = f
  BY TopOfStack

\* A frame that comes or goes on top leaves the innermost transactions.
LEMMA DeepestKept ==
  ASSUME Types, control' \in Seq(Frame), \A n \in 0 .. Len(control) : Deepest(n),
         NEW m \in 0 .. Len(control), Len(control') \in {m, m + 1},
         \A i \in 1 .. m : control'[i].kind = control[i].kind
  PROVE  \A n \in 0 .. Len(control') : Deepest(n)'
  <1> SUFFICES ASSUME NEW n \in 0 .. Len(control') PROVE Deepest(n)'
    OBVIOUS
  <1>1. Len(control) \in Nat /\ Len(control') \in Nat /\ m \in Nat /\ n \in Nat
    BY DEF Types
  <1>2. CASE n <= m
    <2>1. Deepest(n)
      BY <1>1, <1>2
    <2>2. \A i \in 1 .. n : control'[i].kind = control[i].kind
      BY <1>1, <1>2
    <2>3. SUFFICES ASSUME NEW i \in 1 .. n, control'[i].kind = "tx"
          PROVE \E k \in 1 .. n : control'[k].kind = "tx" /\ \A l \in k + 1 .. n : control'[l].kind # "tx"
      BY DEF Deepest
    <2>4. PICK k \in 1 .. n : control[k].kind = "tx" /\ \A l \in k + 1 .. n : control[l].kind # "tx"
      BY <2>1, <2>2, <2>3 DEF Deepest
    <2>5. \A l \in k + 1 .. n : l \in 1 .. n
      BY <1>1
    <2> QED BY <2>2, <2>4, <2>5
  <1>3. CASE n = m + 1
    <2>1. CASE control'[n].kind = "tx"
      BY <2>1, <1>1, <1>3 DEF Deepest
    <2>2. CASE control'[n].kind # "tx"
      <3>1. Deepest(m)
        OBVIOUS
      <3>2. SUFFICES ASSUME NEW i \in 1 .. n, control'[i].kind = "tx"
            PROVE \E k \in 1 .. n : control'[k].kind = "tx" /\ \A l \in k + 1 .. n : control'[l].kind # "tx"
        BY DEF Deepest
      <3>3. i \in 1 .. m
        BY <3>2, <2>2, <1>1, <1>3
      <3>4. PICK k \in 1 .. m : control[k].kind = "tx" /\ \A l \in k + 1 .. m : control[l].kind # "tx"
        BY <3>1, <3>2, <3>3 DEF Deepest
      <3>5. \A l \in k + 1 .. n : l = n \/ (l \in k + 1 .. m /\ l \in 1 .. m)
        BY <1>1, <1>3
      <3>6. k \in 1 .. n
        BY <1>1, <1>3
      <3> QED BY <2>2, <3>4, <3>5, <3>6
    <2> QED BY <2>1, <2>2
  <1> QED BY <1>1, <1>2, <1>3

\* Callbacks are registered in the order of their numbers.
LEMMA FreshIsNewest ==
  ASSUME CallbackAssumption, IInv, NEW c \in Callback, Fresh(c)
  PROVE  /\ \A d \in Callback : home[d] # "unborn" => d < c
         /\ \A i \in 1 .. Len(control) : \A k \in 1 .. Len(control[i].queue) :
              control[i].queue[k] \in Callback /\ home[control[i].queue[k]] # "unborn"
         /\ \A i \in 1 .. Len(fired) : fired[i] \in Callback /\ home[fired[i]] # "unborn"
  <1>1. \A d \in Callback : home[d] # "unborn" => d < c
    BY DEF Fresh, IInv, CallbackAssumption
  <1>2. \A i \in 1 .. Len(control) : control[i] \in Frame
    BY DEF IInv, Types
  <1>3. \A i \in 1 .. Len(control) : \A k \in 1 .. Len(control[i].queue) :
          control[i].queue[k] \in Callback /\ home[control[i].queue[k]] # "unborn"
    BY <1>2 DEF IInv, FrameInv, Frame, CallbackAssumption
  <1>4. \A i \in 1 .. Len(fired) : fired[i] \in Callback /\ home[fired[i]] # "unborn"
    BY DEF IInv, Types, FiredInv, CallbackAssumption
  <1> QED BY <1>1, <1>3, <1>4

LEMMA EnterKeeps ==
  ASSUME IInv, NEW t \in Tx, Enter(t)
  PROVE  IInv'
  <1> DEFINE n == Len(control)
  <1>1. n \in Nat /\ control \in Seq(Frame) /\ \A i \in 1 .. n : control[i] \in Frame
    BY DEF IInv, Types
  <1>2. TxFrame(t) \in Frame /\ TxFrame(t).kind = "tx" /\ TxFrame(t).tx = t /\ Len(TxFrame(t).queue) = 0
    BY DEF TxFrame, Frame
  <1>3. /\ control' \in Seq(Frame) /\ Len(control') = n + 1
        /\ \A i \in 1 .. n : control'[i] = control[i]
        /\ control'[n + 1] = TxFrame(t)
    BY <1>1, <1>2 DEF Enter
  <1>4. outcome[t] = "new" /\ outcome'[t] = "open" /\ \A u \in Tx \ {t} : outcome'[u] = outcome[u]
    BY DEF Enter, IInv, Types
  <1>5. Types' /\ home' = home /\ fired' = fired
    BY <1>3 DEF Enter, IInv, Types
  <1>6. \A m \in 0 .. Len(control') : Deepest(m)'
    BY <1>1, <1>3, DeepestKept DEF IInv
  <1>7. \A i \in 1 .. n : control[i].tx \in Tx \ {t}
    BY <1>1, <1>4 DEF IInv, FrameInv, Frame
  <1>8. ASSUME NEW i \in 1 .. Len(control') PROVE FrameInv(i)'
    <2>1. CASE i = n + 1
      BY <2>1, <1>1, <1>2, <1>3, <1>4, <1>7 DEF FrameInv
    <2>2. CASE i \in 1 .. n
      <3>1. FrameInv(i) /\ control'[i] = control[i] /\ control[i] \in Frame /\ control[i].tx \in Tx \ {t}
        BY <2>2, <1>1, <1>3, <1>7 DEF IInv
      <3>2. \A k \in 1 .. n + 1 : control'[k].tx = control[i].tx => k \in 1 .. n
        BY <3>1, <1>1, <1>2, <1>3
      <3> QED BY <3>1, <3>2, <1>1, <1>3, <1>4, <1>5 DEF FrameInv
    <2> QED BY <2>1, <2>2, <1>1, <1>3
  <1>9. \A i \in 1 .. Len(fired') : FiredInv(i)'
    BY <1>4, <1>5 DEF IInv, FiredInv
  <1>10. ASSUME NEW c \in Callback PROVE Kept(c)'
    <2>1. home[c] \in Tx /\ outcome'[home[c]] # "rolled_back" => outcome[home[c]] # "rolled_back"
      BY <1>4
    <2> QED BY <2>1, <1>1, <1>3, <1>5 DEF IInv, Kept
  <1> QED BY <1>5, <1>6, <1>8, <1>9, <1>10 DEF IInv

\* The step that ends a frame and leaves those below: RollBack and Return.
LEMMA PopKeeps ==
  ASSUME IInv, Running, control' = Below, home' = home, fired' = fired,
         outcome' \in [Tx -> {"new", "open", "committed", "rolled_back"}],
         \A u \in Tx \ {Top.tx} : outcome'[u] = outcome[u],
         \/ outcome[Top.tx] = "open" /\ outcome'[Top.tx] = "rolled_back"
         \/ outcome' = outcome /\ Top.queue = <<>>
  PROVE  IInv'
  <1> DEFINE n == Len(control)
  <1>1. /\ n \in Nat \ {0} /\ Top = control[n] /\ Top \in Frame /\ control' \in Seq(Frame)
        /\ Len(control') = n - 1 /\ \A i \in 1 .. n - 1 : control'[i] = control[i]
    BY TopOfStack DEF IInv
  <1>2. \A i \in 1 .. n : control[i] \in Frame /\ FrameInv(i)
    BY DEF IInv, Types
  <1>3. Types'
    BY <1>1 DEF IInv, Types
  <1>4. \A m \in 0 .. Len(control') : Deepest(m)'
    <2>1. n - 1 \in 0 .. n /\ Types /\ (\A m \in 0 .. n : Deepest(m))
      BY <1>1 DEF IInv
    <2>2. \A i \in 1 .. n - 1 : control'[i].kind = control[i].kind
      BY <1>1
    <2> QED BY <2>1, <2>2, <1>1, DeepestKept
  <1>5. \A i \in 1 .. n - 1 : control[i].tx \in Tx \ {Top.tx}
    BY <1>1, <1>2 DEF FrameInv, Frame
  <1>6. ASSUME NEW i \in 1 .. Len(control') PROVE FrameInv(i)'
    <2>1. control'[i] = control[i] /\ control[i].tx \in Tx \ {Top.tx} /\ FrameInv(i) /\ i \in 1 .. n - 1
      BY <1>1, <1>2, <1>5
    <2>2. outcome'[control[i].tx] = outcome[control[i].tx]
      BY <2>1
    <2>3. \A k \in 1 .. n - 1 : k \in 1 .. n /\ control'[k] = control[k]
      BY <1>1
    <2> QED BY <2>1, <2>2, <2>3, <1>1 DEF FrameInv
  <1>7. ASSUME NEW i \in 1 .. Len(fired') PROVE FiredInv(i)'
    BY <1>7 DEF IInv, FiredInv
  <1>8. ASSUME NEW c \in Callback PROVE Kept(c)'
    <2>1. SUFFICES ASSUME home[c] \in Tx, outcome'[home[c]] # "rolled_back",
                          ~ \E i \in 1 .. Len(fired) : fired[i] = c
          PROVE \E i \in 1 .. n - 1 : /\ control[i].tx = home[c]
                                      /\ \E k \in 1 .. Len(control[i].queue) : control[i].queue[k] = c
      BY <1>1 DEF Kept
    <2>2. outcome[home[c]] # "rolled_back" /\ Kept(c)
      BY <2>1 DEF IInv
    <2>3. PICK i \in 1 .. n : /\ control[i].tx = home[c]
                              /\ \E k \in 1 .. Len(control[i].queue) : control[i].queue[k] = c
      BY <2>1, <2>2 DEF Kept
    <2>4. i # n
      BY <2>1, <2>3, <1>1
    <2> QED BY <2>3, <2>4, <1>1
  <1> QED BY <1>3, <1>4, <1>6, <1>7, <1>8 DEF IInv

LEMMA CommitKeeps ==
  ASSUME IInv, Commit
  PROVE  IInv'
  <1> DEFINE n == Len(control)
             f == Loop(Top.tx, Top.queue)
  <1>1. n \in Nat \ {0} /\ Top = control[n] /\ Top \in Frame /\ Top.kind = "tx"
    BY TopOfStack DEF IInv, Commit
  <1>2. f \in Frame /\ f.kind = "loop" /\ f.tx = Top.tx /\ f.queue = Top.queue
    BY <1>1 DEF Loop, Frame
  <1>3. /\ control' \in Seq(Frame) /\ Len(control') = n /\ control'[n] = f
        /\ \A i \in 1 .. n - 1 : control'[i] = control[i]
    BY <1>2, NewTop DEF Commit, IInv
  <1> HIDE DEF f
  <1>4. \A i \in 1 .. n : control[i] \in Frame /\ FrameInv(i)
    BY DEF IInv, Types
  <1>5. /\ outcome[Top.tx] = "open" /\ outcome'[Top.tx] = "committed" /\ Top.tx \in Tx
        /\ \A u \in Tx \ {Top.tx} : outcome'[u] = outcome[u]
    <2>1. Top.tx \in Tx /\ outcome[Top.tx] = "open"
      BY <1>1, <1>4 DEF FrameInv, Frame
    <2>2. outcome \in [Tx -> {"new", "open", "committed", "rolled_back"}]
          /\ outcome' = [outcome EXCEPT ![Top.tx] = "committed"]
      BY DEF Commit, IInv, Types
    <2> QED BY <2>1, <2>2
  <1>6. home' = home /\ fired' = fired /\ Types'
    BY <1>3 DEF Commit, IInv, Types
  <1>7. \A i \in 1 .. n : control'[i].tx = control[i].tx /\ control'[i].queue = control[i].queue
    BY <1>1, <1>2, <1>3
  <1>8. \A m \in 0 .. Len(control') : Deepest(m)'
    <2>1. n - 1 \in 0 .. n /\ Types /\ (\A m \in 0 .. n : Deepest(m))
      BY <1>1 DEF IInv
    <2>2. \A i \in 1 .. n - 1 : control'[i].kind = control[i].kind
      BY <1>3
    <2>3. control' \in Seq(Frame) /\ Len(control') \in {n - 1, n - 1 + 1}
      BY <1>1, <1>3
    <2> HIDE DEF n
    <2> QED BY <2>1, <2>2, <2>3, DeepestKept DEF n
  <1>9. ASSUME NEW i \in 1 .. Len(control') PROVE FrameInv(i)'
    <2>1. outcome'[control[i].tx] = IF control'[i].kind = "tx" THEN "open" ELSE "committed"
      <3>1. CASE i = n
        BY <3>1, <1>1, <1>2, <1>3, <1>5
      <3>2. CASE i # n
        <4>1. control[i].tx \in Tx \ {Top.tx} /\ control'[i] = control[i] /\ FrameInv(i)
          <5>1. i \in 1 .. n - 1 /\ i \in 1 .. n
            BY <3>2, <1>1, <1>3
          <5>2. FrameInv(i) /\ control[i] \in Frame /\ control'[i] = control[i]
            BY <5>1, <1>3, <1>4
          <5>3. Top.tx = control[i].tx => n = i
            BY <5>2, <1>1 DEF FrameInv
          <5> QED BY <5>2, <5>3, <3>2 DEF Frame
        <4> QED BY <4>1, <1>5 DEF FrameInv
      <3> QED BY <3>1, <3>2
    <2> QED BY <2>1, <1>3, <1>4, <1>6, <1>7 DEF FrameInv
  <1>10. ASSUME NEW i \in 1 .. Len(fired') PROVE FiredInv(i)'
    BY <1>5, <1>6, <1>10 DEF IInv, FiredInv
  <1>11. ASSUME NEW c \in Callback PROVE Kept(c)'
    <2>1. home[c] \in Tx /\ outcome'[home[c]] # "rolled_back" => outcome[home[c]] # "rolled_back"
      BY <1>5
    <2> QED BY <2>1, <1>3, <1>6, <1>7 DEF IInv, Kept
  <1> QED BY <1>6, <1>8, <1>9, <1>10, <1>11 DEF IInv

LEMMA RunCallbackKeeps ==
  ASSUME IInv, RunCallback
  PROVE  IInv'
  <1> DEFINE n == Len(control)
             q == Top.queue
             f == [Top EXCEPT !.queue = Tail(@), !.inside = TRUE]
  <1>1. n \in Nat \ {0} /\ Top = control[n] /\ Top \in Frame /\ Top.kind = "loop" /\ Running /\ Types
    BY TopOfStack DEF IInv, RunCallback
  <1>2. q \in Seq(Callback) /\ q # <<>>
    BY <1>1 DEF Frame, RunCallback
  <1>3. /\ Len(q) \in Nat \ {0} /\ Head(q) = q[1] /\ Head(q) \in Callback /\ Tail(q) \in Seq(Callback)
        /\ Len(Tail(q)) = Len(q) - 1 /\ \A k \in 1 .. Len(q) - 1 : Tail(q)[k] = q[k + 1]
    <2> HIDE DEF q
    <2> QED BY <1>2
  <1>4. f \in Frame /\ f.kind = "loop" /\ f.tx = Top.tx /\ f.queue = Tail(q)
    BY <1>1, <1>3 DEF Frame
  <1> HIDE DEF f
  <1>5. /\ control' \in Seq(Frame) /\ Len(control') = n /\ control'[n] = f
        /\ \A i \in 1 .. n - 1 : control'[i] = control[i]
    BY <1>1, <1>4, NewTop DEF RunCallback, f
  <1>6. \A i \in 1 .. n : control[i] \in Frame /\ FrameInv(i)
    BY DEF IInv, Types
  <1> DEFINE m == Len(fired)
  <1>7. /\ m \in Nat /\ fired' \in Seq(Callback) /\ Len(fired') = m + 1 /\ fired'[m + 1] = q[1]
        /\ \A l \in 1 .. m : fired'[l] = fired[l]
    BY <1>1, <1>3 DEF RunCallback, Types
  <1>8. home' = home /\ outcome' = outcome /\ Types'
    BY <1>5, <1>7 DEF RunCallback, IInv, Types
  <1>9. /\ home[q[1]] = Top.tx /\ outcome[Top.tx] = "committed" /\ Top.tx \in Tx
        /\ \A k \in 2 .. Len(q) : home[q[k]] = Top.tx /\ q[1] < q[k]
        /\ \A l \in 1 .. m : home[fired[l]] = Top.tx => fired[l] < q[1]
    <2>1. FrameInv(n)
      BY <1>1, <1>6
    <2>2. 1 \in 1 .. Len(q) /\ \A k \in 2 .. Len(q) : k \in 1 .. Len(q) /\ 1 \in 1 .. k - 1
      BY <1>3
    <2> QED BY <2>1, <2>2, <1>1 DEF FrameInv, Frame
  <1>10. \A i \in 1 .. n : control'[i].tx = control[i].tx /\ control'[i].kind = control[i].kind
    BY <1>1, <1>4, <1>5
  <1>11. \A d \in 0 .. Len(control') : Deepest(d)'
    <2>1. n \in 0 .. n /\ (\A d \in 0 .. n : Deepest(d)) /\ Len(control') \in {n, n + 1}
      BY <1>1, <1>5 DEF IInv
    <2> HIDE DEF n
    <2> QED BY <2>1, <1>1, <1>5, <1>10, DeepestKept DEF n
  <1>12. ASSUME NEW i \in 1 .. Len(control') PROVE FrameInv(i)'
    <2>1. i \in 1 .. n /\ control[i] \in Frame /\ FrameInv(i)
      BY <1>5, <1>6
    <2>2. CASE i = n
      <3>1. control'[i].queue = Tail(q) /\ control'[i].tx = Top.tx /\ control'[i].kind = "loop"
        BY <2>2, <1>4, <1>5
      <3>2. ASSUME NEW k \in 1 .. Len(Tail(q))
            PROVE  /\ home[Tail(q)[k]] = Top.tx
                   /\ \A l \in 1 .. k - 1 : Tail(q)[l] < Tail(q)[k]
                   /\ \A l \in 1 .. Len(fired') : home[fired'[l]] = Top.tx => fired'[l] < Tail(q)[k]
        <4>1. k + 1 \in 1 .. Len(q) /\ k + 1 \in 2 .. Len(q) /\ Tail(q)[k] = q[k + 1] /\ k \in Nat
          BY <1>3
        <4>2. \A l \in 1 .. k - 1 : l + 1 \in 1 .. k + 1 - 1 /\ Tail(q)[l] = q[l + 1]
          BY <1>3, <4>1
        <4>3. /\ \A l \in 1 .. k + 1 - 1 : q[l] < q[k + 1]
              /\ \A l \in 1 .. m : home[fired[l]] = Top.tx => fired[l] < q[k + 1]
          <5>1. \A a \in 1 .. Len(q) : /\ \A l \in 1 .. a - 1 : q[l] < q[a]
                                       /\ \A l \in 1 .. m : home[fired[l]] = Top.tx => fired[l] < q[a]
            BY <2>1, <2>2, <1>1 DEF FrameInv
          <5> HIDE DEF q, m
          <5> QED BY <4>1, <5>1
        <4>4. \A l \in 1 .. Len(fired') : home[fired'[l]] = Top.tx => fired'[l] < q[k + 1]
          BY <4>1, <4>3, <1>7, <1>9
        <4> QED BY <4>1, <4>2, <4>3, <4>4, <1>9
      <3>3. \A k \in 1 .. n : control'[k].tx = Top.tx => k = n
        BY <2>1, <2>2, <1>1, <1>10 DEF FrameInv
      <3> DEFINE t == Top.tx
                 w == Tail(q)
      <3> HIDE DEF q, n, m, t, w
      <3>4. outcome'[control'[i].tx] = IF control'[i].kind = "tx" THEN "open" ELSE "committed"
        BY <3>1, <1>8, <1>9
      <3>5. \A k \in 1 .. Len(control') : control'[k].tx = control'[i].tx => k = i
        BY <2>2, <3>1, <3>3, <1>5
      <3>6. /\ control'[i].queue = w /\ control'[i].tx = t
            /\ \A k \in 1 .. Len(w) : /\ home[w[k]] = t
                                      /\ \A l \in 1 .. k - 1 : w[l] < w[k]
                                      /\ \A l \in 1 .. Len(fired') : home[fired'[l]] = t => fired'[l] < w[k]
        BY <3>1, <3>2 DEF t, w
      <3> QED BY <3>4, <3>5, <3>6, <1>8 DEF FrameInv
    <2>3. CASE i # n
      <3>1. i \in 1 .. n - 1 /\ control'[i] = control[i]
        BY <2>1, <2>3, <1>1, <1>5
      <3>2. control[i].tx # Top.tx
        BY <2>1, <2>3, <1>1, <3>1 DEF FrameInv
      <3>3. \A l \in 1 .. Len(fired') : home[fired'[l]] = control[i].tx => l \in 1 .. m /\ fired'[l] = fired[l]
        BY <3>2, <1>7, <1>9
      <3>4. \A k \in 1 .. n : control'[k].tx = control[i].tx => k = i
        BY <2>1, <1>10 DEF FrameInv
      <3> QED BY <2>1, <3>1, <3>3, <3>4, <1>5, <1>8 DEF FrameInv
    <2> QED BY <2>2, <2>3
  <1>13. ASSUME NEW i \in 1 .. Len(fired') PROVE FiredInv(i)'
    <2>1. CASE i = m + 1
      <3>1. \A k \in 1 .. i - 1 : k \in 1 .. m /\ fired'[k] = fired[k]
        BY <2>1, <1>7
      <3> QED BY <2>1, <3>1, <1>7, <1>8, <1>9 DEF FiredInv
    <2>2. CASE i \in 1 .. m
      <3>1. FiredInv(i) /\ fired'[i] = fired[i]
        BY <2>2, <1>7 DEF IInv
      <3>2. \A k \in 1 .. i - 1 : fired'[k] = fired[k]
        BY <2>2, <1>7
      <3> QED BY <3>1, <3>2, <1>8 DEF FiredInv
    <2> QED BY <2>1, <2>2, <1>7
  <1>14. ASSUME NEW c \in Callback PROVE Kept(c)'
    <2>1. SUFFICES ASSUME home[c] \in Tx, outcome[home[c]] # "rolled_back",
                          ~ \E i \in 1 .. m + 1 : fired'[i] = c
          PROVE \E i \in 1 .. n : /\ control'[i].tx = home[c]
                                  /\ \E k \in 1 .. Len(control'[i].queue) : control'[i].queue[k] = c
      BY <1>5, <1>7, <1>8 DEF Kept
    <2>2. (~ \E i \in 1 .. m : fired[i] = c) /\ c # q[1]
      BY <2>1, <1>7
    <2>3. PICK i \in 1 .. n : /\ control[i].tx = home[c]
                              /\ \E k \in 1 .. Len(control[i].queue) : control[i].queue[k] = c
      BY <2>1, <2>2 DEF Kept, IInv
    <2>4. PICK k \in 1 .. Len(control[i].queue) : control[i].queue[k] = c
      BY <2>3
    <2>5. CASE i = n
      <3>1. k - 1 \in 1 .. Len(Tail(q)) /\ Tail(q)[k - 1] = c
        BY <2>2, <2>4, <2>5, <1>1, <1>3
      <3> HIDE DEF q
      <3> QED BY <3>1, <2>3, <2>5, <1>1, <1>4, <1>5
    <2>6. CASE i # n
      BY <2>3, <2>6, <1>1, <1>5
    <2> QED BY <2>5, <2>6
  <1> QED BY <1>8, <1>11, <1>12, <1>13, <1>14 DEF IInv

\* A callback that is registered outside of every transaction runs at once.
LEMMA RunAtOnceKeeps ==
  ASSUME CallbackAssumption, IInv, NEW c \in Callback, Fresh(c),
         home' = [home EXCEPT ![c] = "none"], fired' = Append(fired, c),
         control' = control, outcome' = outcome
  PROVE  IInv'
  <1> DEFINE m == Len(fired)
  <1>1. /\ m \in Nat /\ fired' \in Seq(Callback) /\ Len(fired') = m + 1 /\ fired'[m + 1] = c
        /\ \A l \in 1 .. m : fired'[l] = fired[l]
    BY DEF IInv, Types
  <1>2. Types' /\ home[c] = "unborn" /\ home'[c] = "none" /\ \A d \in Callback \ {c} : home'[d] = home[d]
    BY <1>1 DEF IInv, Types, Fresh
  <1>3. /\ \A d \in Callback : home[d] # "unborn" => d < c /\ home'[d] = home[d]
        /\ \A i \in 1 .. Len(control) : \A k \in 1 .. Len(control[i].queue) :
              control[i].queue[k] \in Callback /\ home[control[i].queue[k]] # "unborn"
        /\ \A i \in 1 .. m : fired[i] \in Callback /\ home[fired[i]] # "unborn"
    BY <1>2, FreshIsNewest
  <1>4. \A n \in 0 .. Len(control') : Deepest(n)'
    BY DEF IInv, Deepest
  <1>5. ASSUME NEW i \in 1 .. Len(control') PROVE FrameInv(i)'
    <2>1. FrameInv(i) /\ control[i].tx \in Tx /\ control[i].tx # "none"
      <3>1. control[i] \in Frame /\ FrameInv(i)
        BY DEF IInv, Types
      <3> QED BY <3>1 DEF Frame, CallbackAssumption
    <2>2. \A l \in 1 .. m + 1 : home'[fired'[l]] = control[i].tx =>
            l \in 1 .. m /\ fired'[l] = fired[l] /\ home[fired[l]] = control[i].tx
      BY <2>1, <1>1, <1>2, <1>3
    <2> QED BY <2>1, <2>2, <1>1, <1>3 DEF FrameInv
  <1>6. ASSUME NEW i \in 1 .. Len(fired') PROVE FiredInv(i)'
    <2>1. CASE i = m + 1
      <3>1. \A k \in 1 .. i - 1 : k \in 1 .. m /\ fired'[k] = fired[k] /\ fired[k] < c
        BY <2>1, <1>1, <1>3
      <3> QED BY <2>1, <3>1, <1>1, <1>2 DEF FiredInv
    <2>2. CASE i \in 1 .. m
      <3>1. FiredInv(i) /\ fired'[i] = fired[i] /\ home'[fired[i]] = home[fired[i]]
        BY <2>2, <1>1, <1>3 DEF IInv
      <3>2. \A k \in 1 .. i - 1 : fired'[k] = fired[k] /\ home'[fired[k]] = home[fired[k]]
        BY <2>2, <1>1, <1>3
      <3> QED BY <3>1, <3>2 DEF FiredInv
    <2> QED BY <2>1, <2>2, <1>1
  <1>7. ASSUME NEW d \in Callback PROVE Kept(d)'
    <2>1. CASE d = c
      BY <2>1, <1>2 DEF Kept, CallbackAssumption
    <2>2. CASE d # c
      <3>1. Kept(d) /\ home'[d] = home[d]
        BY <2>2, <1>2 DEF IInv
      <3>2. (\E i \in 1 .. m : fired[i] = d) => \E i \in 1 .. m + 1 : fired'[i] = d
        BY <1>1
      <3> QED BY <3>1, <3>2, <1>1 DEF Kept
    <2> QED BY <2>1, <2>2
  <1>8. \A a, d \in Callback : d < a /\ home'[a] # "unborn" => home'[d] # "unborn"
    BY <1>2 DEF IInv, Fresh
  <1> QED BY <1>2, <1>4, <1>5, <1>6, <1>7, <1>8 DEF IInv

\* One that is registered inside waits in the frame of the innermost.
LEMMA DeferKeeps ==
  ASSUME CallbackAssumption, IInv, NEW c \in Callback, Fresh(c), NEW o \in 1 .. Len(control),
         control[o].kind = "tx",
         home' = [home EXCEPT ![c] = control[o].tx],
         control' = [control EXCEPT ![o].queue = Append(@, c)],
         fired' = fired, outcome' = outcome
  PROVE  IInv'
  <1> DEFINE n == Len(control)
             q == control[o].queue
             f == [control[o] EXCEPT !.queue = Append(q, c)]
  <1>1. control \in Seq(Frame) /\ n \in Nat /\ \A i \in 1 .. n : control[i] \in Frame /\ FrameInv(i)
    BY DEF IInv, Types
  <1>2. /\ q \in Seq(Callback) /\ Len(q) \in Nat /\ Append(q, c) \in Seq(Callback)
        /\ Len(Append(q, c)) = Len(q) + 1 /\ Append(q, c)[Len(q) + 1] = c
        /\ \A k \in 1 .. Len(q) : Append(q, c)[k] = q[k]
    <2>1. q \in Seq(Callback)
      BY <1>1 DEF Frame
    <2> HIDE DEF q
    <2> QED BY <2>1
  <1>3. f \in Frame /\ f.kind = "tx" /\ f.tx = control[o].tx /\ f.queue = Append(q, c)
    BY <1>1, <1>2 DEF Frame
  <1>4. control' = [control EXCEPT ![o] = f]
    OBVIOUS
  <1> HIDE DEF f
  <1>5. /\ control' \in Seq(Frame) /\ Len(control') = n /\ control'[o] = f
        /\ \A i \in 1 .. n : i # o => control'[i] = control[i]
    <2>1. control' \in [1 .. n -> Frame]
      <3>1. control \in [1 .. n -> Frame]
        BY <1>1
      <3> QED BY <3>1, <1>3, <1>4
    <2>2. control' \in Seq(Frame) /\ Len(control') = n
      BY <1>1, <2>1
    <2> QED BY <1>1, <1>4, <2>2
  <1>6. \A i \in 1 .. n : control'[i].tx = control[i].tx /\ control'[i].kind = control[i].kind
    BY <1>3, <1>5
  <1>7. Types' /\ home[c] = "unborn" /\ home'[c] = control[o].tx /\ \A d \in Callback \ {c} : home'[d] = home[d]
    BY <1>1, <1>5 DEF IInv, Types, Fresh, Frame
  <1>8. /\ \A d \in Callback : home[d] # "unborn" => d < c /\ home'[d] = home[d]
        /\ \A i \in 1 .. n : \A k \in 1 .. Len(control[i].queue) :
              control[i].queue[k] \in Callback /\ home[control[i].queue[k]] # "unborn"
        /\ \A i \in 1 .. Len(fired) : fired[i] \in Callback /\ home[fired[i]] # "unborn"
    BY <1>7, FreshIsNewest
  <1>9. \A d \in 0 .. Len(control') : Deepest(d)'
    <2>1. n \in 0 .. n /\ (\A d \in 0 .. n : Deepest(d)) /\ Len(control') \in {n, n + 1} /\ Types
      BY <1>1, <1>5 DEF IInv
    <2> HIDE DEF n
    <2> QED BY <2>1, <1>5, <1>6, DeepestKept DEF n
  <1>10. ASSUME NEW i \in 1 .. n PROVE FrameInv(i)'
    <2> DEFINE w == control'[i].queue
               t == control[i].tx
    <2>1. FrameInv(i) /\ control'[i].tx = t /\ control'[i].kind = control[i].kind
      BY <1>1, <1>6
    <2>2. /\ \A k \in 1 .. Len(control[i].queue) : w[k] = control[i].queue[k]
          /\ \A k \in 1 .. Len(w) : k \in 1 .. Len(control[i].queue)
               \/ (i = o /\ k = Len(control[i].queue) + 1 /\ w[k] = c)
          /\ Len(control[i].queue) \in Nat
      <3>1. CASE i = o
        <4>1. w = Append(q, c) /\ control[i].queue = q
          BY <3>1, <1>3, <1>5
        <4>2. (\A k \in 1 .. Len(q) : w[k] = q[k]) /\ Len(w) = Len(q) + 1 /\ w[Len(q) + 1] = c /\ Len(q) \in Nat
          BY <4>1, <1>2
        <4>3. ASSUME NEW k \in 1 .. Len(w)
              PROVE  k \in 1 .. Len(control[i].queue) \/ (k = Len(control[i].queue) + 1 /\ w[k] = c)
          BY <4>1, <4>2
        <4> QED BY <3>1, <4>1, <4>2, <4>3
      <3>2. CASE i # o
        <4>1. control[i] \in Frame /\ w = control[i].queue
          BY <3>2, <1>1, <1>5
        <4>2. Len(control[i].queue) \in Nat
          BY <4>1 DEF Frame
        <4> QED BY <4>1, <4>2
      <3> HIDE DEF w
      <3> QED BY <3>1, <3>2
    <2>3. \A l \in 1 .. Len(fired) : home'[fired[l]] = home[fired[l]] /\ fired[l] < c
      BY <1>8
    <2>4. ASSUME NEW k \in 1 .. Len(w)
          PROVE  /\ home'[w[k]] = t
                 /\ \A l \in 1 .. k - 1 : w[l] < w[k]
                 /\ \A l \in 1 .. Len(fired) : home'[fired[l]] = t => fired[l] < w[k]
      <3>1. CASE k \in 1 .. Len(control[i].queue)
        <4>1. \A l \in 1 .. k - 1 : l \in 1 .. Len(control[i].queue) /\ w[l] = control[i].queue[l]
          BY <3>1, <2>2
        <4>2. w[k] = control[i].queue[k] /\ home'[w[k]] = home[w[k]]
          BY <3>1, <2>2, <1>8
        <4> QED BY <3>1, <4>1, <4>2, <2>1, <2>3 DEF FrameInv
      <3>2. CASE i = o /\ k = Len(control[i].queue) + 1 /\ w[k] = c
        <4>1. \A l \in 1 .. k - 1 : l \in 1 .. Len(control[i].queue) /\ w[l] = control[i].queue[l] /\ w[l] < c
          BY <3>2, <2>2, <1>8
        <4> QED BY <3>2, <4>1, <2>3, <1>7
      <3> QED BY <3>1, <3>2, <2>2
    <2>5. \A k \in 1 .. n : control'[k].tx = t => k = i
      BY <2>1, <1>6 DEF FrameInv
    <2>6. outcome'[t] = IF control'[i].kind = "tx" THEN "open" ELSE "committed"
      BY <2>1 DEF FrameInv
    <2>7. outcome'[control'[i].tx] = IF control'[i].kind = "tx" THEN "open" ELSE "committed"
      BY <2>1, <2>6
    <2>8. \A k \in 1 .. Len(control') : control'[k].tx = control'[i].tx => k = i
      BY <2>1, <2>5, <1>5
    <2>9. \A k \in 1 .. Len(control'[i].queue) :
            /\ home'[control'[i].queue[k]] = control'[i].tx
            /\ \A l \in 1 .. k - 1 : control'[i].queue[l] < control'[i].queue[k]
            /\ \A l \in 1 .. Len(fired') : home'[fired'[l]] = control'[i].tx => fired'[l] < control'[i].queue[k]
      BY <2>1, <2>4
    <2> HIDE DEF w, t
    <2> QED BY <2>7, <2>8, <2>9 DEF FrameInv
  <1>11. ASSUME NEW i \in 1 .. Len(fired') PROVE FiredInv(i)'
    BY <1>8, <1>11 DEF FiredInv, IInv
  <1>12. ASSUME NEW d \in Callback PROVE Kept(d)'
    <2>1. CASE d = c
      BY <2>1, <1>2, <1>3, <1>5, <1>6, <1>7 DEF Kept
    <2>2. CASE d # c
      <3>1. Kept(d) /\ home'[d] = home[d]
        BY <2>2, <1>7 DEF IInv
      <3>2. \A i \in 1 .. n : \A k \in 1 .. Len(control[i].queue) :
              k \in 1 .. Len(control'[i].queue) /\ control'[i].queue[k] = control[i].queue[k]
        BY <1>2, <1>3, <1>5
      <3> QED BY <3>1, <3>2, <1>5, <1>6 DEF Kept
    <2> QED BY <2>1, <2>2
  <1>13. \A a, d \in Callback : d < a /\ home'[a] # "unborn" => home'[d] # "unborn"
    <2>1. control[o].tx # "unborn"
      BY <1>1 DEF Frame, CallbackAssumption
    <2> QED BY <2>1, <1>7 DEF IInv, Fresh
  <1> QED BY <1>5, <1>7, <1>9, <1>10, <1>11, <1>12, <1>13 DEF IInv

LEMMA RegisterKeeps ==
  ASSUME CallbackAssumption, IInv, NEW c \in Callback, Register(c)
  PROVE  IInv'
  <1>1. CASE OpenFrames = {}
    BY <1>1, RunAtOnceKeeps DEF Register
  <1>2. CASE OpenFrames # {}
    <2>1. Len(control) \in Nat
      BY DEF IInv, Types
    <2>2. PICK o \in 1 .. Len(control) : control[o].kind = "tx" /\ \A k \in o + 1 .. Len(control) : control[k].kind # "tx"
      BY <1>2, <2>1 DEF IInv, Deepest, OpenFrames
    <2>3. o \in OpenFrames /\ \A k \in OpenFrames : k <= o
      BY <2>1, <2>2 DEF OpenFrames
    <2>4. Innermost \in OpenFrames
      BY <2>3 DEF Innermost
    <2> QED BY <1>2, <2>4, DeferKeeps DEF Register, OpenFrames
  <1> QED BY <1>1, <1>2

\* No transaction is open, no callback registered.
LEMMA InitIInv == ASSUME CallbackAssumption, Init PROVE IInv
  <1>1. Types /\ Len(control) = 0 /\ Len(fired) = 0
    BY DEF Init, Types
  <1> QED BY <1>1 DEF Init, IInv, Deepest, FrameInv, FiredInv, Kept, CallbackAssumption

\* Every step of the thread keeps the invariant.
LEMMA NextIInv == ASSUME CallbackAssumption, IInv, [Next]_vars PROVE IInv'
  <1>1. CASE UNCHANGED vars
    BY <1>1 DEF vars, IInv, Types, Deepest, FrameInv, FiredInv, Kept
  <1>2. ASSUME NEW t \in Tx, Enter(t) PROVE IInv'
    BY <1>2, EnterKeeps
  <1>3. ASSUME NEW c \in Callback, Register(c) PROVE IInv'
    BY <1>3, RegisterKeeps
  <1>4. CASE RollBack
    <2>1. Running /\ Top \in Frame /\ outcome[Top.tx] = "open"
      BY <1>4, TopOfStack DEF RollBack, IInv, FrameInv
    <2> QED BY <1>4, <2>1, PopKeeps DEF RollBack, IInv, Types, Frame
  <1>5. CASE Return
    BY <1>5, PopKeeps DEF Return, IInv, Types
  <1> QED BY <1>1, <1>2, <1>3, <1>4, <1>5, CommitKeeps, RunCallbackKeeps DEF Next

\* Whatever the nesting of transactions and callbacks, and whatever raises:
\* callbacks run after their transaction's commit, once, in their order.
THEOREM SpecCallbacksHold ==
  CallbackAssumption => (Spec => [](TypeOK /\ FiresOnlyAfterCommit /\ NoneLost /\ RunInOrder))
  <1> SUFFICES ASSUME CallbackAssumption
               PROVE  Spec => [](TypeOK /\ FiresOnlyAfterCommit /\ NoneLost /\ RunInOrder)
    OBVIOUS
  <1> QED BY InitIInv, NextIInv, Holds, PTL DEF Spec
=============================================================================
