------------------------ MODULE ServerLifecycleProofs ------------------------
(***************************************************************************)
(* Theorems about ServerLifecycle, for any number of connections, cameras  *)
(* and signals.                                                            *)
(*                                                                         *)
(* Why only four things kill a process that has started: a handler that    *)
(* finds no reactor was called by a signal that came before there was one; *)
(* what a handler finds done already, another handler did; a handler that  *)
(* is called by a first signal runs in main() and waits for the server     *)
(* thread, so that only a node that is killed from outside leaves main()   *)
(* before this thread; and semaphores are closed, and static objects       *)
(* destroyed, by a server thread that has left its loop or after it.       *)
(*                                                                         *)
(* Why a shutdown ends: every step of main(), of a handler and of the      *)
(* server thread is one fewer to do, and somebody always has one.          *)
(***************************************************************************)
EXTENDS ServerLifecycle, SequenceTheorems, TLAPS

Total == signals.untimely + signals.timely

(* Calls of the handler that have not returned. *)
In(t) == others[t]["close"] + others[t]["quit"] + others[t]["join"] + others[t]["shutdown"]
Elsewhere == In("server") + In("other")
Active == Len(handler) + Elsewhere

(* One of them is about to do one of these steps, or will when the calls   *)
(* that interrupt it have returned.                                        *)
Pending(steps) ==
    \/ \E i \in DOMAIN handler : handler[i] \in steps
    \/ \E t \in Others : \E step \in HandlerSteps \cap steps : others[t][step] > 0

(* A handler has waited for the server thread, or tried to. *)
Passed == Active < Total \/ Pending({"shutdown"})

(* Each call of the handler came with a signal of its own. *)
SignalInv ==
    /\ Active <= Total /\ Total <= MaxSignals
    /\ Elsewhere > 0 => Total > 1
    /\ reactor = "null" /\ Active > 0 => signals.untimely > 0
    /\ Passed => joined \/ Total > 1
    /\ joined => server = "done" /\ Passed
    /\ main = "destroy" => ros # "ok"
    /\ main = "destroy" /\ handler # <<>> => signals.untimely > 0
    /\ ros = "shutdown" => Active < Total

Serving == {"serve", "finalize", "done"}

(* Initialize opens the semaphores in order, Finalize closes them, and     *)
(* connections come after the one and before the other.                    *)
MutexInv ==
    /\ main \in {"observe", "create"} => server = "none"
    /\ server \in {"none", "get"} => next = 0 /\ \A c \in Cameras : mutex[c] = "null"
    /\ server = "initialize" =>
         \A c \in Cameras : mutex[c] # "closed" /\ (c < next => mutex[c] = "open")
    /\ server \in {"reactor", "open", "serve"} => next = 0 /\ \A c \in Cameras : mutex[c] = "open"
    /\ server \in Serving => \A c \in Cameras : mutex[c] # "null"
    /\ (\E s \in Sessions : generator[s] # None) => server \in Serving

Inv == TypeOK /\ SignalInv /\ MutexInv /\ DeathExplained

------------------------------------------------------------------------------
(***************************************************************************)
(* The calls of the handler: how many, and at which steps.                 *)
(***************************************************************************)
CallsType == handler \in Seq(HandlerSteps) /\ others \in [Others -> [HandlerSteps -> Nat]]

Counted ==
    /\ \A t \in Others, step \in HandlerSteps :
         others[t][step] \in Nat /\ others[t][step] <= In(t)
    /\ Len(handler) \in Nat /\ DOMAIN handler = 1..Len(handler)
    /\ In("server") \in Nat /\ In("other") \in Nat
    /\ Elsewhere \in Nat /\ Active \in Nat
    /\ Active = 0 <=> ~Pending(HandlerSteps)

LEMMA CallsCounted == CallsType => Counted
<1> SUFFICES ASSUME CallsType PROVE Counted
    OBVIOUS
<1>1. \A t \in Others, step \in HandlerSteps : others[t][step] \in Nat
    BY DEF CallsType
<1>2. Len(handler) \in Nat /\ DOMAIN handler = 1..Len(handler)
    BY DEF CallsType
<1>3. \A t \in Others : In(t) \in Nat
    BY <1>1 DEF In, HandlerSteps
<1>4. \A t \in Others, step \in HandlerSteps : others[t][step] <= In(t)
    BY <1>1 DEF In, HandlerSteps
<1>5. In("server") \in Nat /\ In("other") \in Nat
    BY <1>3 DEF Others
<1>6. Elsewhere \in Nat /\ Active \in Nat
    BY <1>2, <1>5 DEF Elsewhere, Active
<1>7. ASSUME Active = 0 PROVE ~Pending(HandlerSteps)
    <2>1. Len(handler) = 0 /\ In("server") = 0 /\ In("other") = 0
        BY <1>2, <1>5, <1>7 DEF Active, Elsewhere
    <2>2. \A t \in Others, step \in HandlerSteps : ~(others[t][step] > 0)
        BY <1>1, <1>4, <2>1 DEF Others
    <2> QED BY <1>2, <2>1, <2>2 DEF Pending
<1>8. ASSUME ~Pending(HandlerSteps) PROVE Active = 0
    <2>1. \A t \in Others, step \in HandlerSteps : others[t][step] = 0
        BY <1>1, <1>8 DEF Pending
    <2>2. \A t \in Others : In(t) = 0
        BY <2>1 DEF In, HandlerSteps
    <2>3. Len(handler) = 0
        <3>1. \A i \in 1..Len(handler) : handler[i] \in HandlerSteps
            BY DEF CallsType
        <3> QED BY <1>2, <1>8, <3>1 DEF Pending
    <2> QED BY <2>2, <2>3 DEF Active, Elsewhere, Others
<1> QED BY <1>1, <1>2, <1>4, <1>5, <1>6, <1>7, <1>8 DEF Counted

LEMMA CallsCountedNext == CallsType' => Counted'
BY CallsCounted, PTL

(* How the steps that are pending change when a call goes on. *)
GoesOnFrom(from, to, steps) ==
    /\ from \in steps => Pending(steps)
    /\ to \in steps => Pending(steps)'
    /\ Pending(steps)' => to \in steps \/ Pending(steps)
    /\ Pending(steps) => from \in steps \/ Pending(steps)'

LEMMA StackMoved ==
    ASSUME CallsType, NEW from \in HandlerSteps, NEW to \in HandlerSteps,
           At("main", from), handler' = <<to>> \o Tail(handler), UNCHANGED others, NEW steps
    PROVE  /\ handler' \in Seq(HandlerSteps) /\ Len(handler') = Len(handler)
           /\ handler # <<>> /\ handler' # <<>> /\ Head(handler') = to
           /\ GoesOnFrom(from, to, steps)
<1>1. /\ Tail(handler) \in Seq(HandlerSteps) /\ Len(Tail(handler)) = Len(handler) - 1
      /\ \A i \in 1..Len(Tail(handler)) : Tail(handler)[i] = handler[i + 1]
      /\ Len(handler) \in Nat /\ Len(handler) > 0 /\ handler # <<>>
      /\ handler[1] = from /\ DOMAIN handler = 1..Len(handler)
    BY DEF CallsType, At
<1>2. <<to>> \in Seq(HandlerSteps)
    OBVIOUS
<1> DEFINE rest == Tail(handler)
<1> HIDE DEF rest
<1>3. /\ handler' \in Seq(HandlerSteps) /\ Len(handler') = 1 + Len(rest)
      /\ \A i \in 1..1 + Len(rest) :
            handler'[i] = IF i <= 1 THEN <<to>>[i] ELSE rest[i - 1]
    BY <1>1, <1>2, ConcatProperties DEF rest
<1>4. ASSUME NEW i \in 2..Len(handler) PROVE handler'[i] = handler[i]
    <2>1. /\ i \in 1..1 + Len(rest) /\ ~(i <= 1)
          /\ i - 1 \in 1..Len(rest) /\ (i - 1) + 1 = i
        BY <1>1 DEF rest
    <2>2. rest[i - 1] = handler[(i - 1) + 1]
        BY <1>1, <2>1 DEF rest
    <2> QED BY <2>1, <2>2, <1>3
<1>5. handler'[1] = to /\ Len(handler') = Len(handler) /\ DOMAIN handler' = 1..Len(handler)
    BY <1>1, <1>3 DEF rest
<1>6. Head(handler') = to /\ handler' # <<>>
    BY <1>1, <1>3, <1>5
<1>7. \A i \in 1..Len(handler) : i = 1 \/ i \in 2..Len(handler)
    BY <1>1
<1>8. 1 \in 1..Len(handler)
    BY <1>1
<1>9. GoesOnFrom(from, to, steps)
    BY <1>1, <1>4, <1>5, <1>7, <1>8 DEF GoesOnFrom, Pending
<1> QED BY <1>1, <1>3, <1>5, <1>6, <1>9

(* A call in another thread, of the handler that goes from one step to     *)
(* the next.                                                               *)
LEMMA OtherMoved ==
    ASSUME CallsType, NEW t \in Others, NEW from \in HandlerSteps, NEW to \in HandlerSteps,
           from # to, others[t][from] > 0, UNCHANGED handler,
           others' = [others EXCEPT ![t] = [others[t] EXCEPT ![from] = @ - 1, ![to] = @ + 1]]
    PROVE  /\ others' \in [Others -> [HandlerSteps -> Nat]]
           /\ \A u \in Others, step \in HandlerSteps :
                others'[u][step] = IF u = t /\ step = to THEN others[u][step] + 1
                                   ELSE IF u = t /\ step = from THEN others[u][step] - 1
                                   ELSE others[u][step]
<1> DEFINE row == [others[t] EXCEPT ![from] = @ - 1, ![to] = @ + 1]
<1>1. others \in [Others -> [HandlerSteps -> Nat]] /\ others[t] \in [HandlerSteps -> Nat]
    BY DEF CallsType
<1>2. row \in [HandlerSteps -> Nat]
    BY <1>1
<1>3. \A step \in HandlerSteps :
          row[step] = IF step = to THEN others[t][step] + 1
                      ELSE IF step = from THEN others[t][step] - 1 ELSE others[t][step]
    BY <1>1
<1>4. others' = [others EXCEPT ![t] = row]
    OBVIOUS
<1> HIDE DEF row
<1>5. others' \in [Others -> [HandlerSteps -> Nat]]
    BY <1>1, <1>2, <1>4
<1>6. \A u \in Others : others'[u] = IF u = t THEN row ELSE others[u]
    BY <1>1, <1>4
<1> QED BY <1>3, <1>5, <1>6

LEMMA OthersCounted ==
    ASSUME CallsType, NEW t \in Others, NEW from \in HandlerSteps, NEW to \in HandlerSteps,
           from # to, others[t][from] > 0,
           \A u \in Others, step \in HandlerSteps :
                others'[u][step] = IF u = t /\ step = to THEN others[u][step] + 1
                                   ELSE IF u = t /\ step = from THEN others[u][step] - 1
                                   ELSE others[u][step]
    PROVE  In("server")' = In("server") /\ In("other")' = In("other")
<1>1. \A u \in Others, step \in HandlerSteps : others[u][step] \in Nat
    BY DEF CallsType
<1>2. ASSUME NEW u \in Others, u # t PROVE In(u)' = In(u)
    BY <1>1, <1>2 DEF In, HandlerSteps
<1>3. In(t)' = In(t)
  <2> DEFINE a == others[t]["close"]
             b == others[t]["quit"]
             c == others[t]["join"]
             d == others[t]["shutdown"]
  <2>1. a \in Nat /\ b \in Nat /\ c \in Nat /\ d \in Nat
      BY <1>1 DEF HandlerSteps
  <2> HIDE DEF a, b, c, d
  <2>2. /\ others'[t]["close"] = IF to = "close" THEN a + 1 ELSE IF from = "close" THEN a - 1 ELSE a
        /\ others'[t]["quit"] = IF to = "quit" THEN b + 1 ELSE IF from = "quit" THEN b - 1 ELSE b
        /\ others'[t]["join"] = IF to = "join" THEN c + 1 ELSE IF from = "join" THEN c - 1 ELSE c
        /\ others'[t]["shutdown"] =
              IF to = "shutdown" THEN d + 1 ELSE IF from = "shutdown" THEN d - 1 ELSE d
      BY DEF HandlerSteps, a, b, c, d
  <2>3. In(t)' = a + b + c + d
      BY <2>1, <2>2 DEF In, HandlerSteps
  <2> QED BY <2>3 DEF In, a, b, c, d
<1>4. In("server") = In("server") /\ "server" \in Others /\ "other" \in Others
    BY DEF Others
<1> QED BY <1>2, <1>3, <1>4

(* A call of the handler in any thread goes on: as many as before.         *)
LEMMA CallMoves ==
    ASSUME CallsType, NEW t \in {"main"} \cup Others,
           NEW from \in HandlerSteps, NEW to \in HandlerSteps, from # to,
           At(t, from), GoesTo(t, from, to)
    PROVE  /\ CallsType' /\ Len(handler') = Len(handler)
           /\ Elsewhere' = Elsewhere /\ Active' = Active /\ Active > 0
           /\ handler' = <<>> <=> handler = <<>>
           /\ \A steps : GoesOnFrom(from, to, steps)
<1>1. CASE t = "main"
  <2>1. handler' = <<to>> \o Tail(handler) /\ UNCHANGED others
      BY <1>1 DEF GoesTo
  <2>2. /\ handler' \in Seq(HandlerSteps) /\ Len(handler') = Len(handler)
        /\ handler # <<>> /\ handler' # <<>>
      BY <1>1, <2>1, StackMoved
  <2>3. \A steps : GoesOnFrom(from, to, steps)
      BY <1>1, <2>1, StackMoved
  <2>4. In("server")' = In("server") /\ In("other")' = In("other")
      BY <2>1 DEF In
  <2>5. Len(handler) \in Nat /\ Len(handler) > 0 /\ Elsewhere \in Nat
      BY <2>2, CallsCounted DEF Counted, CallsType
  <2> QED BY <2>1, <2>2, <2>3, <2>4, <2>5 DEF CallsType, Elsewhere, Active
<1>2. CASE t # "main"
  <2>1. /\ t \in Others /\ others[t][from] > 0 /\ UNCHANGED handler
        /\ others' = [others EXCEPT ![t] = [others[t] EXCEPT ![from] = @ - 1, ![to] = @ + 1]]
      BY <1>2 DEF At, GoesTo
  <2>2. /\ others' \in [Others -> [HandlerSteps -> Nat]]
        /\ \A u \in Others, step \in HandlerSteps :
              others'[u][step] = IF u = t /\ step = to THEN others[u][step] + 1
                                 ELSE IF u = t /\ step = from THEN others[u][step] - 1
                                 ELSE others[u][step]
      BY <2>1, OtherMoved
  <2>3. In("server")' = In("server") /\ In("other")' = In("other")
      BY <2>1, <2>2, OthersCounted
  <2>4. /\ \A u \in Others, step \in HandlerSteps :
              others[u][step] \in Nat /\ others[u][step] <= In(u)
        /\ In("server") \in Nat /\ In("other") \in Nat /\ Len(handler) \in Nat
      BY CallsCounted DEF Counted
  <2>5. Elsewhere > 0 /\ Elsewhere \in Nat
      BY <2>1, <2>4 DEF Elsewhere, Others
  <2>6. ASSUME NEW steps PROVE GoesOnFrom(from, to, steps)
    <3>1. others'[t][to] > 0
        BY <2>1, <2>2, <2>4
    <3>2. \A u \in Others, step \in HandlerSteps :
              others'[u][step] > 0 => others[u][step] > 0 \/ step = to
        BY <2>1, <2>2, <2>4
    <3>3. \A u \in Others, step \in HandlerSteps :
              others[u][step] > 0 => others'[u][step] > 0 \/ step = from
        BY <2>2, <2>4
    <3> QED BY <2>1, <3>1, <3>2, <3>3 DEF GoesOnFrom, Pending
  <2> QED BY <2>1, <2>2, <2>3, <2>4, <2>5, <2>6 DEF CallsType, Elsewhere, Active
<1> QED BY <1>1, <1>2

(* A call returns. *)
LEMMA CallReturns ==
    ASSUME CallsType, NEW t \in {"main"} \cup Others, At(t, "shutdown"),
           \/ t = "main" /\ handler' = Tail(handler) /\ UNCHANGED others
           \/ /\ t # "main" /\ UNCHANGED handler
              /\ others' = [others EXCEPT ![t] = [others[t] EXCEPT !["shutdown"] = @ - 1]]
    PROVE  /\ CallsType' /\ Len(handler') <= Len(handler)
           /\ Elsewhere' <= Elsewhere /\ Active' = Active - 1
           /\ handler = <<>> => handler' = <<>>
           /\ Pending({"shutdown"})
           /\ \A steps : Pending(steps)' => Pending(steps)
<1>0. /\ \A u \in Others, step \in HandlerSteps :
            others[u][step] \in Nat /\ others[u][step] <= In(u)
      /\ In("server") \in Nat /\ In("other") \in Nat /\ Len(handler) \in Nat
      /\ "shutdown" \in HandlerSteps /\ DOMAIN handler = 1..Len(handler)
    BY CallsCounted DEF Counted, HandlerSteps
<1>1. CASE t = "main"
  <2>1. /\ handler # <<>> /\ handler[1] = "shutdown" /\ UNCHANGED others
        /\ handler' = Tail(handler) /\ handler \in Seq(HandlerSteps)
      BY <1>1 DEF At, CallsType
  <2>2. /\ handler' \in Seq(HandlerSteps) /\ Len(handler') = Len(handler) - 1 /\ Len(handler) > 0
        /\ DOMAIN handler' = 1..Len(handler) - 1
        /\ \A i \in 1..Len(handler) - 1 : handler'[i] = handler[i + 1]
      BY <2>1
  <2>3. \A i \in 1..Len(handler) - 1 : i + 1 \in 1..Len(handler)
      BY <1>0
  <2>4. \A steps : Pending(steps)' => Pending(steps)
      BY <1>0, <2>1, <2>2, <2>3 DEF Pending
  <2>5. Pending({"shutdown"})
    <3>1. 1 \in 1..Len(handler)
        BY <1>0, <2>2
    <3> QED BY <1>0, <2>1, <3>1 DEF Pending
  <2>6. Elsewhere' = Elsewhere
      BY <2>1 DEF In, Elsewhere
  <2>7. Elsewhere \in Nat
      BY <1>0 DEF Elsewhere
  <2>8. /\ Active' = Active - 1 /\ Elsewhere' <= Elsewhere
        /\ Len(handler') <= Len(handler)
      BY <1>0, <2>2, <2>6, <2>7 DEF Active
  <2>9. CallsType'
      BY <2>1, <2>2 DEF CallsType
  <2> QED BY <2>1, <2>4, <2>5, <2>8, <2>9
<1>2. CASE t # "main"
  <2>1. /\ t \in Others /\ others[t]["shutdown"] > 0 /\ UNCHANGED handler
        /\ others' = [others EXCEPT ![t] = [others[t] EXCEPT !["shutdown"] = @ - 1]]
        /\ others \in [Others -> [HandlerSteps -> Nat]]
      BY <1>2 DEF At, CallsType
  <2> DEFINE row == [others[t] EXCEPT !["shutdown"] = @ - 1]
  <2>9. row \in [HandlerSteps -> Nat]
    <3>1. others[t] \in [HandlerSteps -> Nat]
        BY <2>1
    <3>2. others[t]["shutdown"] \in Nat
        BY <3>1 DEF HandlerSteps
    <3>3. others[t]["shutdown"] - 1 \in Nat
        BY <2>1, <3>2
    <3> QED BY <3>1, <3>3
  <2>10. \A step \in HandlerSteps :
            row[step] = IF step = "shutdown" THEN others[t][step] - 1 ELSE others[t][step]
      BY <2>1
  <2>11. others' = [others EXCEPT ![t] = row]
      BY <2>1
  <2> HIDE DEF row
  <2>3. \A u \in Others : others'[u] = IF u = t THEN row ELSE others[u]
      BY <2>1, <2>11
  <2>2. \A u \in Others, step \in HandlerSteps :
            others'[u][step] = IF u = t /\ step = "shutdown" THEN others[u][step] - 1
                               ELSE others[u][step]
      BY <2>3, <2>10
  <2>4. others' \in [Others -> [HandlerSteps -> Nat]]
      BY <2>1, <2>9, <2>11
  <2>5. \A steps : Pending(steps)' => Pending(steps)
      BY <1>0, <2>1, <2>2 DEF Pending
  <2>6. Pending({"shutdown"})
      BY <1>0, <2>1 DEF Pending
  <2>7. In(t)' = In(t) - 1
    <3>1. /\ others[t]["close"] \in Nat /\ others[t]["quit"] \in Nat
          /\ others[t]["join"] \in Nat /\ others[t]["shutdown"] \in Nat
        BY <1>0, <2>1 DEF HandlerSteps
    <3>2. /\ others'[t]["close"] = others[t]["close"] /\ others'[t]["quit"] = others[t]["quit"]
          /\ others'[t]["join"] = others[t]["join"]
          /\ others'[t]["shutdown"] = others[t]["shutdown"] - 1
        BY <2>1, <2>2 DEF HandlerSteps
    <3> QED BY <3>1, <3>2 DEF In
  <2>12. ASSUME NEW u \in Others, u # t PROVE In(u)' = In(u)
      BY <2>3, <2>12 DEF In
  <2>13. t \in {"server", "other"} /\ "server" \in Others /\ "other" \in Others
      BY <2>1 DEF Others
  <2>8. Elsewhere' = Elsewhere - 1
    <3>1. CASE t = "server"
        BY <1>0, <2>7, <2>12, <2>13, <3>1 DEF Elsewhere
    <3>2. CASE t = "other"
        BY <1>0, <2>7, <2>12, <2>13, <3>2 DEF Elsewhere
    <3> QED BY <2>13, <3>1, <3>2
  <2>14. Elsewhere \in Nat
      BY <1>0 DEF Elsewhere
  <2>15. Active' = Active - 1 /\ Elsewhere' <= Elsewhere
    <3>1. Len(handler') = Len(handler) /\ Len(handler) \in Nat
        BY <1>0, <2>1
    <3> QED BY <2>8, <2>14, <3>1 DEF Active
  <2>16. CallsType' /\ Len(handler') <= Len(handler)
    <3>1. handler \in Seq(HandlerSteps) /\ handler' = handler /\ Len(handler) \in Nat
        BY <1>0, <2>1 DEF CallsType
    <3> QED BY <2>4, <3>1 DEF CallsType
  <2> QED BY <2>1, <2>5, <2>6, <2>15, <2>16
<1> QED BY <1>1, <1>2

(* A signal begins a call, in main() or in another thread. *)
LEMMA CallBegins ==
    ASSUME CallsType,
           \/ handler' = <<"close">> \o handler /\ UNCHANGED others
           \/ /\ handler # <<>> /\ UNCHANGED handler
              /\ \E t \in Others :
                    others' = [others EXCEPT ![t] = [others[t] EXCEPT !["close"] = @ + 1]]
    PROVE  /\ CallsType' /\ Len(handler') <= Len(handler) + 1
           /\ Active' = Active + 1
           /\ Elsewhere' > Elsewhere => handler # <<>>
           /\ \A steps : "close" \notin steps => (Pending(steps)' <=> Pending(steps))
<1>0. /\ \A u \in Others, step \in HandlerSteps : others[u][step] \in Nat
      /\ In("server") \in Nat /\ In("other") \in Nat /\ Len(handler) \in Nat
      /\ "close" \in HandlerSteps /\ DOMAIN handler = 1..Len(handler)
      /\ Elsewhere \in Nat
    BY CallsCounted DEF Counted, HandlerSteps
<1>1. CASE handler' = <<"close">> \o handler /\ UNCHANGED others
  <2>1. <<"close">> \in Seq(HandlerSteps) /\ handler \in Seq(HandlerSteps)
      BY DEF HandlerSteps, CallsType
  <2>2. /\ handler' \in Seq(HandlerSteps) /\ Len(handler') = 1 + Len(handler)
        /\ \A i \in 1..1 + Len(handler) :
              handler'[i] = IF i <= 1 THEN <<"close">>[i] ELSE handler[i - 1]
      BY <1>1, <2>1, ConcatProperties
  <2>3. DOMAIN handler' = 1..Len(handler) + 1 /\ Len(handler') = Len(handler) + 1
      BY <1>0, <2>2
  <2>4. ASSUME NEW i \in 1..Len(handler) PROVE handler'[i + 1] = handler[i]
    <3>1. i + 1 \in 1..1 + Len(handler) /\ ~(i + 1 <= 1) /\ (i + 1) - 1 = i
        BY <1>0
    <3> QED BY <3>1, <2>2
  <2>5. handler'[1] = "close"
      BY <1>0, <2>2
  <2>6. ASSUME NEW steps, "close" \notin steps PROVE Pending(steps)' <=> Pending(steps)
    <3>1. ASSUME NEW i \in 1..Len(handler) + 1, handler'[i] \in steps
          PROVE  \E j \in 1..Len(handler) : handler[j] \in steps
      <4>1. i # 1
          BY <2>5, <2>6, <3>1
      <4>2. i - 1 \in 1..Len(handler) /\ (i - 1) + 1 = i
          BY <1>0, <4>1
      <4> QED BY <2>4, <3>1, <4>2
    <3>2. ASSUME NEW j \in 1..Len(handler), handler[j] \in steps
          PROVE  \E i \in 1..Len(handler) + 1 : handler'[i] \in steps
      <4>1. j + 1 \in 1..Len(handler) + 1
          BY <1>0
      <4> QED BY <2>4, <3>2, <4>1
    <3> QED BY <1>0, <1>1, <2>3, <3>1, <3>2 DEF Pending
  <2>7. Elsewhere' = Elsewhere
      BY <1>1 DEF In, Elsewhere
  <2>8. Active' = Active + 1 /\ ~(Elsewhere' > Elsewhere)
    <3>1. Len(handler) \in Nat /\ Elsewhere \in Nat
        BY <1>0
    <3>2. Active' = (Len(handler) + 1) + Elsewhere
        BY <2>3, <2>7 DEF Active
    <3> QED BY <2>7, <3>1, <3>2 DEF Active
  <2>9. CallsType'
      BY <1>1, <2>2 DEF CallsType
  <2> QED BY <1>0, <2>3, <2>6, <2>8, <2>9
<1>2. ASSUME handler # <<>>, UNCHANGED handler, NEW t \in Others,
             others' = [others EXCEPT ![t] = [others[t] EXCEPT !["close"] = @ + 1]]
      PROVE  /\ CallsType' /\ Active' = Active + 1 /\ Len(handler') <= Len(handler) + 1
             /\ \A steps : "close" \notin steps => (Pending(steps)' <=> Pending(steps))
  <2> DEFINE row == [others[t] EXCEPT !["close"] = @ + 1]
  <2>1. others \in [Others -> [HandlerSteps -> Nat]] /\ others[t] \in [HandlerSteps -> Nat]
      BY DEF CallsType
  <2>2. row \in [HandlerSteps -> Nat]
    <3>1. others[t]["close"] \in Nat /\ others[t]["close"] + 1 \in Nat
        BY <1>0
    <3> QED BY <2>1, <3>1
  <2>3. \A step \in HandlerSteps :
            row[step] = IF step = "close" THEN others[t][step] + 1 ELSE others[t][step]
      BY <2>1
  <2>4. others' = [others EXCEPT ![t] = row]
      BY <1>2
  <2> HIDE DEF row
  <2>5. others' \in [Others -> [HandlerSteps -> Nat]]
      BY <2>1, <2>2, <2>4
  <2>6. \A u \in Others : others'[u] = IF u = t THEN row ELSE others[u]
      BY <2>1, <2>4
  <2>7. In(t)' = In(t) + 1
    <3>1. /\ others[t]["close"] \in Nat /\ others[t]["quit"] \in Nat
          /\ others[t]["join"] \in Nat /\ others[t]["shutdown"] \in Nat
        BY <1>0 DEF HandlerSteps
    <3>2. /\ others'[t]["close"] = others[t]["close"] + 1
          /\ others'[t]["quit"] = others[t]["quit"]
          /\ others'[t]["join"] = others[t]["join"]
          /\ others'[t]["shutdown"] = others[t]["shutdown"]
        BY <2>3, <2>6 DEF HandlerSteps
    <3>3. \A a, b, c, d \in Nat : (a + 1) + b + c + d = (a + b + c + d) + 1
        OBVIOUS
    <3>4. In(t) = others[t]["close"] + others[t]["quit"] + others[t]["join"]
                  + others[t]["shutdown"]
        BY DEF In
    <3>5. In(t)' = (others[t]["close"] + 1) + others[t]["quit"] + others[t]["join"]
                   + others[t]["shutdown"]
        BY ONLY <3>2 DEF In
    <3> QED BY ONLY <3>1, <3>3, <3>4, <3>5
  <2>8. ASSUME NEW u \in Others, u # t PROVE In(u)' = In(u)
      BY <2>6, <2>8 DEF In
  <2>9. t \in {"server", "other"} /\ "server" \in Others /\ "other" \in Others
      BY DEF Others
  <2>10. Elsewhere' = Elsewhere + 1
    <3>1. CASE t = "server"
      <4>1. In("server")' = In("server") + 1 /\ In("other")' = In("other")
          BY <2>7, <2>8, <2>9, <3>1
      <4>2. In("server") \in Nat /\ In("other") \in Nat
          BY <1>0
      <4> QED BY <4>1, <4>2 DEF Elsewhere
    <3>2. CASE t = "other"
      <4>1. In("server")' = In("server") /\ In("other")' = In("other") + 1
          BY <2>7, <2>8, <2>9, <3>2
      <4>2. In("server") \in Nat /\ In("other") \in Nat
          BY <1>0
      <4> QED BY <4>1, <4>2 DEF Elsewhere
    <3> QED BY <2>9, <3>1, <3>2
  <2>11. Active' = Active + 1 /\ Len(handler') <= Len(handler) + 1
    <3>1. Len(handler') = Len(handler) /\ Len(handler) \in Nat
        BY <1>0, <1>2
    <3> QED BY <1>0, <2>10, <3>1 DEF Active
  <2>12. \A u \in Others, step \in HandlerSteps :
             step # "close" => others'[u][step] = others[u][step]
      BY <2>3, <2>6
  <2>13. ASSUME NEW steps, "close" \notin steps PROVE Pending(steps)' <=> Pending(steps)
      BY <1>2, <2>12, <2>13 DEF Pending
  <2>14. CallsType'
    <3>1. handler \in Seq(HandlerSteps) /\ handler' = handler
        BY <1>2 DEF CallsType
    <3> QED BY <2>5, <3>1 DEF CallsType
  <2> QED BY <2>11, <2>13, <2>14
<1> QED BY <1>1, <1>2

LEMMA CallsKept ==
    ASSUME UNCHANGED calls
    PROVE  /\ UNCHANGED <<handler, others>>
           /\ Active' = Active /\ Elsewhere' = Elsewhere /\ (CallsType => CallsType')
           /\ \A steps : Pending(steps)' <=> Pending(steps)
BY DEF calls, Active, Elsewhere, In, CallsType, Pending

(* What an action of the handler does to its call. *)
LEMMA HandlerCalls ==
    ASSUME CallsType, NEW t \in {"main"} \cup Others,
           CloseReactor(t) \/ SetQuit(t) \/ JoinServer(t) \/ ShutdownRos(t)
    PROVE  /\ CallsType' /\ Len(handler') <= Len(handler)
           /\ Active' <= Active /\ Elsewhere' <= Elsewhere /\ Active > 0
           /\ handler = <<>> => handler' = <<>>
<1>0. Counted /\ HandlerSteps = {"close", "quit", "join", "shutdown"}
    BY CallsCounted DEF HandlerSteps
<1>1. ASSUME NEW from \in HandlerSteps, NEW to \in HandlerSteps, from # to,
             At(t, from), GoesTo(t, from, to)
      PROVE  /\ CallsType' /\ Len(handler') <= Len(handler)
             /\ Active' <= Active /\ Elsewhere' <= Elsewhere /\ Active > 0
             /\ handler = <<>> => handler' = <<>>
    BY <1>0, <1>1, CallMoves DEF Counted
<1>2. CASE CloseReactor(t)
  <2>1. CASE UNCHANGED calls
    <3>1. Pending(HandlerSteps)
      <4>1. CASE t = "main"
        <5>1. 1 \in DOMAIN handler /\ handler[1] = "close"
            BY <1>2, <4>1 DEF CloseReactor, At, CallsType
        <5> QED BY <1>0, <5>1 DEF Pending
      <4>2. CASE t # "main"
        <5>1. t \in Others /\ others[t]["close"] > 0
            BY <1>2, <4>2 DEF CloseReactor, At
        <5> QED BY <1>0, <5>1 DEF Pending
      <4> QED BY <4>1, <4>2
    <3>2. Active > 0 /\ Active \in Nat /\ Elsewhere \in Nat /\ Len(handler) \in Nat
        BY <1>0, <3>1 DEF Counted
    <3> QED BY <2>1, <3>2, CallsKept
  <2>2. CASE GoesTo(t, "close", "quit")
      BY <1>0, <1>1, <1>2, <2>2 DEF CloseReactor
  <2> QED BY <1>2, <2>1, <2>2 DEF CloseReactor
<1>3. CASE SetQuit(t)
    BY <1>0, <1>1, <1>3 DEF SetQuit
<1>4. CASE JoinServer(t)
    BY <1>0, <1>1, <1>4 DEF JoinServer
<1>5. CASE ShutdownRos(t)
  <2>1. /\ CallsType' /\ Len(handler') <= Len(handler) /\ Elsewhere' <= Elsewhere
        /\ Active' = Active - 1 /\ (handler = <<>> => handler' = <<>>)
      BY <1>5, CallReturns DEF ShutdownRos
  <2>2. Active \in Nat /\ Active' \in Nat
      BY <1>0, <2>1, CallsCountedNext DEF Counted
  <2> QED BY <2>1, <2>2
<1> QED BY <1>2, <1>3, <1>4, <1>5

------------------------------------------------------------------------------
(***************************************************************************)
(* Types.                                                                  *)
(***************************************************************************)
LEMMA InvTypes ==
    ASSUME Inv
    PROVE  /\ CallsType /\ Counted /\ MaxSignals \in Nat
           /\ signals \in [untimely : 0..MaxSignals, timely : 0..MaxSignals]
           /\ signals.untimely \in Nat /\ signals.timely \in Nat /\ Total \in Nat
<1>1. CallsType
  <2>1. handler \in Seq(HandlerSteps) /\ others \in [Others -> [HandlerSteps -> 0..MaxSignals]]
      BY DEF Inv, TypeOK
  <2>2. \A u \in Others : others[u] \in [HandlerSteps -> Nat]
      BY <2>1, CountsAssumption
  <2> QED BY <2>1, <2>2 DEF CallsType
<1>2. /\ signals \in [untimely : 0..MaxSignals, timely : 0..MaxSignals]
      /\ MaxSignals \in Nat
    BY CountsAssumption DEF Inv, TypeOK
<1>3. signals.untimely \in Nat /\ signals.timely \in Nat
    BY <1>2
<1> QED BY <1>1, <1>2, <1>3, CallsCounted DEF Total

LEMMA InitInv == Init => Inv
<1> SUFFICES ASSUME Init PROVE Inv
    OBVIOUS
<1> USE CountsAssumption DEF Init
<1>1. TypeOK
    <2>1. handler \in Seq(HandlerSteps) /\ Len(handler) <= MaxSignals
        BY DEF HandlerSteps
    <2>2. signals \in [untimely : 0..MaxSignals, timely : 0..MaxSignals]
        OBVIOUS
    <2>3. /\ tryCount \in 0..MaxTries /\ next \in 0..N_COUNT
          /\ mutex \in [Cameras -> {"null", "open", "closed"}]
          /\ generator \in [Sessions -> Cameras \cup {Idle, None}]
        OBVIOUS
    <2>4. others \in [Others -> [HandlerSteps -> 0..MaxSignals]]
        OBVIOUS
    <2> QED BY <2>1, <2>2, <2>3, <2>4 DEF TypeOK
<1>2. SignalInv
    <2>1. \A t \in Others, step \in HandlerSteps : others[t][step] = 0
        OBVIOUS
    <2>2. In("server") = 0 /\ In("other") = 0
        BY <2>1 DEF In, Others, HandlerSteps
    <2>3. Elsewhere = 0 /\ Active = 0 /\ Total = 0
        BY <2>2 DEF Elsewhere, Active, Total
    <2>4. ~Pending({"shutdown"})
        BY <2>1 DEF Pending
    <2> QED BY <2>3, <2>4 DEF SignalInv, Passed
<1> QED BY <1>1, <1>2 DEF Inv, MutexInv, DeathExplained, Serving

(* Nothing but a signal adds a call of the handler. *)
LEMMA CallsStep ==
    ASSUME Inv, [Next]_vars
    PROVE  /\ CallsType' /\ Total' \in Nat /\ Total' <= MaxSignals
           /\ signals' \in [untimely : 0..MaxSignals, timely : 0..MaxSignals]
           /\ \/ /\ Signal /\ Total' = Total + 1 /\ Active' = Active + 1
                 /\ Len(handler') <= Len(handler) + 1
              \/ /\ UNCHANGED signals /\ Total' = Total /\ Active' <= Active
                 /\ Elsewhere' <= Elsewhere /\ Len(handler') <= Len(handler)
<1>1. /\ CallsType /\ Counted /\ MaxSignals \in Nat /\ Total \in Nat /\ Total <= MaxSignals
      /\ signals \in [untimely : 0..MaxSignals, timely : 0..MaxSignals]
      /\ signals.untimely \in Nat /\ signals.timely \in Nat
    BY InvTypes DEF Inv, SignalInv
<1>2. CASE Signal
  <2>1. CallsType' /\ Active' = Active + 1 /\ Len(handler') <= Len(handler) + 1
      BY <1>1, <1>2, CallBegins DEF Signal
  <2>2. /\ signals' \in [untimely : 0..MaxSignals, timely : 0..MaxSignals]
        /\ Total' = Total + 1 /\ Total' <= MaxSignals
    <3>1. /\ signals.untimely + signals.timely < MaxSignals
          /\ \/ signals' = [signals EXCEPT !.untimely = @ + 1]
             \/ signals' = [signals EXCEPT !.timely = @ + 1]
        BY <1>2 DEF Signal
    <3>2. signals.untimely + 1 \in 0..MaxSignals /\ signals.timely + 1 \in 0..MaxSignals
        BY <1>1, <3>1
    <3> QED BY <1>1, <3>1, <3>2 DEF Total
  <2> QED BY <1>1, <1>2, <2>1, <2>2
<1>3. CASE UNCHANGED calls /\ UNCHANGED signals
  <2>1. Active \in Nat /\ Elsewhere \in Nat /\ Len(handler) \in Nat
      BY <1>1 DEF Counted
  <2>2. Total' = Total
      BY <1>3 DEF Total
  <2> QED BY <1>1, <1>3, <2>1, <2>2, CallsKept
<1>4. CASE Handler
  <2>1. UNCHANGED signals
      BY <1>4 DEF Handler, CloseReactor, SetQuit, JoinServer, ShutdownRos
  <2>2. Total' = Total
      BY <2>1 DEF Total
  <2> QED BY <1>1, <1>4, <2>1, <2>2, HandlerCalls DEF Handler
<1>5. CASE Main \/ RosKilled \/ ServerRuns \/ Accepts \/ Generators \/ UNCHANGED vars
    BY <1>3, <1>5 DEF Main, RosKilled, ServerRuns, Accepts, Generators, vars
<1> QED BY <1>2, <1>4, <1>5 DEF Next

LEMMA CallsTyped ==
    ASSUME Inv, [Next]_vars
    PROVE  /\ handler' \in Seq(HandlerSteps) /\ Len(handler') <= MaxSignals
           /\ others' \in [Others -> [HandlerSteps -> 0..MaxSignals]]
           /\ Active' <= Total'
<1>1. /\ Active \in Nat /\ Active <= Total /\ Total \in Nat /\ MaxSignals \in Nat
    BY InvTypes DEF Inv, SignalInv, Counted
<1>2. CallsType' /\ Total' \in Nat /\ Total' <= MaxSignals
    BY CallsStep
<1>3. Counted'
    BY <1>2, CallsCountedNext
<1>4. /\ Active' \in Nat /\ In("server")' \in Nat /\ In("other")' \in Nat /\ Elsewhere' \in Nat
      /\ Len(handler') \in Nat
      /\ Elsewhere' = In("server")' + In("other")' /\ Active' = Len(handler') + Elsewhere'
    BY <1>3 DEF Counted, Elsewhere, Active
<1>5. Active' <= Total'
    BY <1>1, <1>4, CallsStep
<1>6. In("server")' <= MaxSignals /\ In("other")' <= MaxSignals /\ Len(handler') <= MaxSignals
    BY <1>1, <1>2, <1>4, <1>5
<1>7. ASSUME NEW t \in Others, NEW step \in HandlerSteps
      PROVE  others'[t][step] \in 0..MaxSignals
  <2>1. others'[t][step] \in Nat /\ others'[t][step] <= In(t)'
      BY <1>3 DEF Counted
  <2>2. In(t)' \in Nat /\ In(t)' <= MaxSignals
      BY <1>4, <1>6 DEF Others
  <2> QED BY <1>1, <2>1, <2>2
<1>8. others' \in [Others -> [HandlerSteps -> Nat]] /\ handler' \in Seq(HandlerSteps)
    BY <1>2 DEF CallsType
<1>9. \A t \in Others : others'[t] \in [HandlerSteps -> 0..MaxSignals]
    BY <1>7, <1>8
<1>10. others' \in [Others -> [HandlerSteps -> 0..MaxSignals]]
    BY <1>8, <1>9
<1> QED BY <1>5, <1>6, <1>8, <1>10

LEMMA TypeStep == Inv /\ [Next]_vars => TypeOK'
<1> SUFFICES ASSUME Inv, [Next]_vars PROVE TypeOK'
    OBVIOUS
<1>1. /\ process \in {"up", "exited", "aborted", "dead"}
      /\ main \in {"observe", "create", "set", "spin", "destroy"}
      /\ tryCount \in 0..MaxTries
      /\ ros \in {"ok", "shutdown", "killed"}
      /\ registered \in BOOLEAN /\ joined \in BOOLEAN /\ quit \in BOOLEAN
      /\ server \in {"none", "get", "initialize", "reactor", "open", "serve", "finalize", "done"}
      /\ reactor \in {"null", "open", "closed"}
      /\ mutex \in [Cameras -> {"null", "open", "closed"}]
      /\ next \in 0..N_COUNT
      /\ generator \in [Sessions -> Cameras \cup {Idle, None}]
      /\ MaxTries \in Nat /\ N_COUNT \in Nat
    BY CountsAssumption DEF Inv, TypeOK
<1> DEFINE MainType == /\ process' \in {"up", "exited", "aborted", "dead"}
                       /\ main' \in {"observe", "create", "set", "spin", "destroy"}
                       /\ tryCount' \in 0..MaxTries
                       /\ ros' \in {"ok", "shutdown", "killed"}
                       /\ registered' \in BOOLEAN
                       /\ joined' \in BOOLEAN /\ quit' \in BOOLEAN
                       /\ reactor' \in {"null", "open", "closed"}
           ServerType == /\ server' \in {"none", "get", "initialize", "reactor", "open", "serve",
                                         "finalize", "done"}
                         /\ mutex' \in [Cameras -> {"null", "open", "closed"}]
                         /\ next' \in 0..N_COUNT
                         /\ generator' \in [Sessions -> Cameras \cup {Idle, None}]
<1>2. MainType /\ ServerType
    <2> USE <1>1 DEF mainVars, serverVars
    <2>1. CASE Main
        <3> USE <2>1 DEF Main
        <3>1. CASE CallObserver \/ NotInitialized \/ CreateServer \/ Exit
            BY <3>1 DEF CallObserver, NotInitialized, CreateServer, Exit
        <3>2. CASE SetShmManager
            BY <3>2 DEF SetShmManager
        <3>3. CASE LeaveLoop
            BY <3>3 DEF LeaveLoop
        <3> QED BY <3>1, <3>2, <3>3
    <2>2. CASE Signal /\ UNCHANGED <<mainVars, serverVars, generator>>
        BY <2>2 DEF Signal
    <2>3. CASE Handler
        <3>0. UNCHANGED <<mainVars, serverVars, generator>>
            BY <2>3 DEF Handler
        <3>5. PICK t \in {"main"} \cup Others :
                 CloseReactor(t) \/ SetQuit(t) \/ JoinServer(t) \/ ShutdownRos(t)
            BY <2>3 DEF Handler
        <3>1. CASE CloseReactor(t)
            BY <3>0, <3>1 DEF CloseReactor, MayDie
        <3>2. CASE SetQuit(t)
            BY <3>0, <3>2 DEF SetQuit
        <3>3. CASE JoinServer(t)
            <4>1. MainType
                BY <3>0, <3>3 DEF JoinServer, MayDie
            <4>2. ServerType
                BY <3>0, <3>3 DEF JoinServer
            <4> QED BY <4>1, <4>2
        <3>4. CASE ShutdownRos(t)
            BY <3>0, <3>4 DEF ShutdownRos
        <3> QED BY <3>1, <3>2, <3>3, <3>4, <3>5
    <2>4. CASE ServerRuns
        <3> USE <2>4 DEF ServerRuns
        <3>1. CASE GetShmManager
            BY <3>1 DEF GetShmManager
        <3>2. CASE InitializeShm
            BY <3>2 DEF InitializeShm, Cameras
        <3>3. CASE MakeReactor \/ OpenAcceptor \/ LeaveServe \/ DiesInExit
            BY <3>3 DEF MakeReactor, OpenAcceptor, LeaveServe, DiesInExit
        <3>4. CASE FinalizeShm
            BY <3>4 DEF FinalizeShm, Cameras
        <3> QED BY <3>1, <3>2, <3>3, <3>4
    <2>5. CASE Accepts
        BY <2>5 DEF Accepts, AcceptConnection
    <2>6. CASE Generators
        <3>1. process' \in {"up", "exited", "aborted", "dead"}
            BY <2>6 DEF Generators, EndSession, EndProcess, BeginCopy, EndCopy, UseSemaphore,
                        MayDie
        <3>2. generator' \in [Sessions -> Cameras \cup {Idle, None}]
            BY <2>6 DEF Generators, EndSession, EndProcess, BeginCopy, EndCopy
        <3> QED BY <2>6, <3>1, <3>2 DEF Generators
    <2>7. CASE RosKilled
        BY <2>7 DEF RosKilled
    <2>8. CASE UNCHANGED vars
        BY <2>8 DEF vars
    <2> QED BY <2>1, <2>2, <2>3, <2>4, <2>5, <2>6, <2>7, <2>8 DEF Next
<1> QED BY <1>2, CallsTyped, CallsStep DEF TypeOK

------------------------------------------------------------------------------
(***************************************************************************)
(* Signals.                                                                *)
(***************************************************************************)

(* Where the join does not wait there are two calls. *)
LEMMA JoinsAtOnce ==
    ASSUME Inv, NEW t \in {"main"} \cup Others, At(t, "join"), t = "server" \/ AnotherJoins(t)
    PROVE  Total > 1
<1>1. /\ CallsType /\ Len(handler) \in Nat /\ Elsewhere \in Nat /\ Total \in Nat
      /\ In("server") \in Nat /\ In("other") \in Nat
      /\ \A u \in Others : others[u]["join"] \in Nat /\ others[u]["join"] <= In(u)
      /\ DOMAIN handler = 1..Len(handler)
    BY InvTypes DEF Counted, HandlerSteps
<1>2. Len(handler) + Elsewhere <= Total /\ (Elsewhere > 0 => Total > 1)
    BY DEF Inv, SignalInv, Active
<1>3. ASSUME NEW u \in Others, others[u]["join"] > 0 PROVE Total > 1
  <2>1. In(u) > 0 /\ u \in {"server", "other"}
      BY <1>1, <1>3 DEF Others
  <2>2. Elsewhere > 0
      BY <1>1, <2>1 DEF Elsewhere
  <2> QED BY <1>2, <2>2
<1>4. CASE t \in Others
    BY <1>3, <1>4 DEF At, Others
<1>5. CASE t = "main"
  <2>1. CASE others["other"]["join"] > 0
      BY <1>3, <2>1 DEF Others
  <2>2. CASE \E i \in DOMAIN handler : i > 1
      BY <1>1, <1>2, <2>2
  <2> QED BY <1>5, <2>1, <2>2 DEF AnotherJoins
<1> QED BY <1>4, <1>5

LEMMA SignalStep == Inv /\ [Next]_vars => SignalInv'
<1> SUFFICES ASSUME Inv, [Next]_vars PROVE SignalInv'
    OBVIOUS
<1>1. /\ CallsType /\ Active \in Nat /\ Total \in Nat /\ Elsewhere \in Nat
      /\ Len(handler) \in Nat /\ handler \in Seq(HandlerSteps)
      /\ signals \in [untimely : 0..MaxSignals, timely : 0..MaxSignals]
      /\ signals.untimely \in Nat /\ signals.timely \in Nat
      /\ joined \in BOOLEAN /\ ros \in {"ok", "shutdown", "killed"}
    BY InvTypes DEF Counted, CallsType, Inv, TypeOK
<1>2. SignalInv
    BY DEF Inv
<1>3. /\ Active' <= Total' /\ Total' <= MaxSignals /\ Total' \in Nat
      /\ Active' \in Nat /\ Elsewhere' \in Nat
    BY CallsTyped, CallsStep, CallsCountedNext DEF Counted
<1> DEFINE Standing == /\ UNCHANGED <<calls, joined, signals>>
                       /\ (reactor' = "null" => reactor = "null")
                       /\ (server = "done" => server' = "done")
                       /\ (main' = "destroy" => main = "destroy"
                                                \/ (ros # "ok" /\ handler = <<>>))
                       /\ (ros' = ros \/ ros' = "killed")
<1>4. CASE Standing
    <2>1. /\ Active' = Active /\ Elsewhere' = Elsewhere /\ handler' = handler
          /\ Pending({"shutdown"})' <=> Pending({"shutdown"})
        BY <1>4, CallsKept
    <2>2. Total' = Total /\ signals' = signals /\ joined' = joined
        BY <1>4 DEF Total
    <2>3. Passed' <=> Passed
        BY <2>1, <2>2 DEF Passed
    <2> QED BY <1>2, <1>4, <2>1, <2>2, <2>3 DEF SignalInv
<1>5. CASE Main
    <2>1. main \in {"observe", "create"} => server = "none"
        BY DEF Inv, MutexInv
    <2> QED BY <1>5, <2>1, <1>4 DEF Main, CallObserver, NotInitialized, CreateServer,
                                    SetShmManager, LeaveLoop, Exit, mainVars
<1>6. CASE Signal /\ UNCHANGED <<mainVars, serverVars, generator>>
    <2>1. /\ Active' = Active + 1 /\ (Elsewhere' > Elsewhere => handler # <<>>)
          /\ Pending({"shutdown"})' <=> Pending({"shutdown"})
        BY <1>1, <1>6, CallBegins DEF Signal
    <2>2. /\ Total' = Total + 1
          /\ signals'.untimely \in Nat /\ signals'.untimely >= signals.untimely
          /\ reactor = "null" \/ main = "destroy" => signals'.untimely > 0
        BY <1>1, <1>6 DEF Signal, Total
    <2>3. Passed' <=> Passed
        BY <1>1, <2>1, <2>2 DEF Passed
    <2>4. Elsewhere' > 0 => Total' > 1
        <3>1. handler # <<>> => Active > 0
            BY <1>1 DEF Active
        <3>2. CASE Elsewhere' > Elsewhere
            BY <1>1, <1>2, <2>1, <2>2, <3>1, <3>2 DEF SignalInv
        <3>3. CASE ~(Elsewhere' > Elsewhere)
            BY <1>1, <1>2, <1>3, <2>2, <3>3 DEF SignalInv
        <3> QED BY <3>2, <3>3
    <2>5. UNCHANGED <<ros, joined, reactor, main, server>>
        BY <1>6 DEF Signal, mainVars, serverVars
    <2>6. Passed' => joined' \/ Total' > 1
        BY <1>1, <1>2, <2>2, <2>3, <2>5 DEF SignalInv
    <2>7. ros' = "shutdown" => Active' < Total'
        BY <1>1, <1>2, <2>1, <2>2, <2>5 DEF SignalInv
    <2> QED BY <1>2, <1>3, <2>2, <2>3, <2>4, <2>5, <2>6, <2>7 DEF SignalInv
<1>7. CASE Handler
    <2>0. /\ Total' = Total /\ signals' = signals /\ UNCHANGED <<main, server>>
          /\ CallsType' /\ Elsewhere' <= Elsewhere
        <3>1. signals' = signals /\ UNCHANGED <<main, server>>
            BY <1>7 DEF Handler, CloseReactor, SetQuit, JoinServer, ShutdownRos, mainVars,
                        serverVars
        <3>2. CallsType' /\ Elsewhere' <= Elsewhere
            BY <1>1, <1>7, HandlerCalls DEF Handler
        <3> QED BY <3>1, <3>2 DEF Total
    <2>1. PICK t \in {"main"} \cup Others :
             CloseReactor(t) \/ SetQuit(t) \/ JoinServer(t) \/ ShutdownRos(t)
        BY <1>7 DEF Handler
    <2>2. /\ Elsewhere' > 0 => Total' > 1
          /\ Active > 0 /\ (handler = <<>> => handler' = <<>>)
        <3>1. Active > 0 /\ (handler = <<>> => handler' = <<>>)
            BY <1>1, <2>1, HandlerCalls
        <3>2. Elsewhere' > 0 => Total' > 1
            BY <1>1, <1>2, <1>3, <2>0 DEF SignalInv
        <3> QED BY <3>1, <3>2
    (* A call that goes on, but not to the end. *)
    <2>3. ASSUME NEW from \in HandlerSteps \ {"shutdown"}, NEW to \in HandlerSteps \ {"shutdown"},
                 from # to, At(t, from), GoesTo(t, from, to), UNCHANGED <<ros, joined>>,
                 reactor' = "null" => reactor = "null"
          PROVE  SignalInv'
        <3>1. /\ Active' = Active
              /\ GoesOnFrom(from, to, {"shutdown"})
            BY <1>1, <2>3, CallMoves
        <3>2. Passed' <=> Passed
            BY <2>0, <2>3, <3>1 DEF Passed, GoesOnFrom
        <3> QED BY <1>2, <1>3, <2>0, <2>2, <2>3, <3>1, <3>2 DEF SignalInv
    <2>4. CASE CloseReactor(t)
        <3>1. CASE UNCHANGED <<calls, reactor>>
            BY <2>0, <2>4, <3>1, <1>4 DEF CloseReactor
        <3>2. CASE GoesTo(t, "close", "quit")
            BY <2>3, <2>4, <3>2 DEF CloseReactor, HandlerSteps
        <3> QED BY <2>4, <3>1, <3>2 DEF CloseReactor
    <2>5. CASE SetQuit(t)
        BY <2>3, <2>5 DEF SetQuit, HandlerSteps
    <2>6. CASE JoinServer(t)
        <3>1. At(t, "join") /\ GoesTo(t, "join", "shutdown") /\ UNCHANGED <<ros, reactor>>
            BY <2>6 DEF JoinServer
        <3>2. Active' = Active /\ GoesOnFrom("join", "shutdown", {"shutdown"})
            BY <1>1, <3>1, CallMoves DEF HandlerSteps
        <3>3. Passed'
            BY <3>2 DEF Passed, GoesOnFrom
        <3>4. CASE (t = "server" \/ AnotherJoins(t)) /\ joined' = joined
            <4>1. Total > 1
                BY <3>1, <3>4, JoinsAtOnce
            <4> QED BY <1>2, <1>3, <2>0, <2>2, <3>1, <3>2, <3>3, <3>4, <4>1 DEF SignalInv
        <3>5. CASE server = "done" /\ joined' = TRUE
            BY <1>2, <1>3, <2>0, <2>2, <3>1, <3>2, <3>3, <3>5 DEF SignalInv
        <3> QED BY <2>6, <3>4, <3>5 DEF JoinServer
    <2>7. CASE ShutdownRos(t)
        <3>1. Active' = Active - 1 /\ Pending({"shutdown"})
            BY <1>1, <2>7, CallReturns DEF ShutdownRos
        <3>2. Passed /\ Active' < Total'
            BY <1>1, <1>2, <2>0, <3>1 DEF Passed, SignalInv
        <3>3. Passed'
            BY <3>2 DEF Passed
        <3>4. UNCHANGED <<joined, reactor>> /\ ros' # "ok"
            BY <1>1, <2>7 DEF ShutdownRos
        <3> QED BY <1>2, <1>3, <2>0, <2>2, <3>2, <3>3, <3>4 DEF SignalInv
    <2> QED BY <2>1, <2>4, <2>5, <2>6, <2>7
<1>8. CASE ServerRuns
    BY <1>8, <1>4 DEF ServerRuns, GetShmManager, InitializeShm, MakeReactor, OpenAcceptor,
                      LeaveServe, FinalizeShm, DiesInExit, mainVars, serverVars
<1>9. CASE Accepts \/ Generators \/ RosKilled
    BY <1>9, <1>4 DEF Accepts, AcceptConnection, Generators, RosKilled, mainVars, serverVars
<1>10. CASE UNCHANGED vars
    BY <1>10, <1>4 DEF vars, mainVars, serverVars
<1> QED BY <1>5, <1>6, <1>7, <1>8, <1>9, <1>10 DEF Next

------------------------------------------------------------------------------
(***************************************************************************)
(* Semaphores and connections.                                             *)
(***************************************************************************)
LEMMA MutexStep == Inv /\ [Next]_vars => MutexInv'
<1> SUFFICES ASSUME Inv, [Next]_vars PROVE MutexInv'
    OBVIOUS
<1>1. /\ MutexInv
      /\ main \in {"observe", "create", "set", "spin", "destroy"}
      /\ server \in {"none", "get", "initialize", "reactor", "open", "serve", "finalize", "done"}
      /\ mutex \in [Cameras -> {"null", "open", "closed"}]
      /\ next \in Nat /\ next <= N_COUNT /\ N_COUNT \in Nat
      /\ generator \in [Sessions -> Cameras \cup {Idle, None}]
    BY CountsAssumption DEF Inv, TypeOK
<1>2. \A c \in Cameras : c \in Nat /\ c < N_COUNT
    BY <1>1 DEF Cameras
<1> USE <1>1, <1>2 DEF MutexInv, Serving, mainVars, serverVars
<1>3. CASE Main
    <2> USE <1>3 DEF Main
    <2>1. CASE CallObserver \/ NotInitialized \/ SetShmManager \/ LeaveLoop \/ Exit
        BY <2>1 DEF CallObserver, NotInitialized, SetShmManager, LeaveLoop, Exit
    <2>2. CASE CreateServer
        BY <2>2 DEF CreateServer
    <2> QED BY <2>1, <2>2
<1>4. CASE (Signal \/ Handler \/ RosKilled) /\ UNCHANGED <<mainVars, serverVars, generator>>
    BY <1>4
<1>5. CASE ServerRuns
    <2> USE <1>5 DEF ServerRuns
    <2>1. CASE GetShmManager
        BY <2>1 DEF GetShmManager
    <2>2. CASE InitializeShm
        <3>1. CASE next < N_COUNT /\ mutex' = [mutex EXCEPT ![next] = "open"] /\ next' = next + 1
                   /\ server' = server
            <4>1. \A c \in Cameras : mutex'[c] # "closed" /\ (c < next + 1 => mutex'[c] = "open")
                BY <2>2, <3>1 DEF InitializeShm
            <4> QED BY <2>2, <3>1, <4>1 DEF InitializeShm
        <3>2. CASE UNCHANGED serverVars
            BY <2>2, <3>2 DEF InitializeShm
        <3>3. CASE next = N_COUNT /\ next' = 0 /\ server' = "reactor" /\ UNCHANGED mutex
            BY <2>2, <3>3 DEF InitializeShm
        <3> QED BY <2>2, <3>1, <3>2, <3>3 DEF InitializeShm
    <2>3. CASE MakeReactor \/ OpenAcceptor \/ LeaveServe \/ DiesInExit
        BY <2>3 DEF MakeReactor, OpenAcceptor, LeaveServe, DiesInExit
    <2>4. CASE FinalizeShm
        <3>1. \A c \in Cameras : mutex'[c] # "null"
            BY <2>4 DEF FinalizeShm
        <3> QED BY <2>4, <3>1 DEF FinalizeShm
    <2> QED BY <2>1, <2>2, <2>3, <2>4
<1>6. CASE Accepts
    BY <1>6 DEF Accepts, AcceptConnection
<1>7. CASE Generators
    <2>1. (\E s \in Sessions : generator'[s] # None) => \E s \in Sessions : generator[s] # None
        <3>1. Idle # None /\ \A c \in Cameras : c # None
            BY DEF Idle, None
        <3> QED BY <1>7, <3>1 DEF Generators, EndSession, EndProcess, BeginCopy, EndCopy
    <2> QED BY <1>7, <2>1 DEF Generators
<1>8. CASE UNCHANGED vars
    BY <1>8 DEF vars
<1> QED BY <1>3, <1>4, <1>5, <1>6, <1>7, <1>8 DEF Next, Handler, RosKilled

------------------------------------------------------------------------------
(***************************************************************************)
(* What kills the process.                                                 *)
(***************************************************************************)
LEMMA DeathStep == Inv /\ [Next]_vars => DeathExplained'
<1> SUFFICES ASSUME Inv, [Next]_vars, process' = "dead" PROVE DeathExplained'
    BY DEF DeathExplained
<1>1. CASE UNCHANGED vars
    BY <1>1 DEF vars, mainVars, serverVars, Inv, DeathExplained, Starting
<1>2. /\ CallsType /\ Counted /\ SignalInv /\ MutexInv
      /\ signals.untimely \in Nat /\ signals.timely \in Nat /\ Total \in Nat
      /\ ros \in {"ok", "shutdown", "killed"}
    BY InvTypes DEF Inv, TypeOK
<1>3. /\ Len(handler) \in Nat /\ Elsewhere \in Nat /\ Active \in Nat
      /\ Active = Len(handler) + Elsewhere /\ Active <= Total
    BY <1>2 DEF Counted, Active, SignalInv
<1> USE DEF mainVars, serverVars
(* When main() has left its loop and ROS was not shut down from outside    *)
(* a call of the handler has returned: the server thread is done, unless   *)
(* there were more.                                                        *)
<1>4. main = "destroy" => ros = "killed" \/ server = "done" \/ Total > 1
  <2>1. ros = "shutdown" => Passed
      BY <1>2 DEF SignalInv, Passed
  <2> QED BY <1>2, <2>1 DEF SignalInv
<1>5. CASE process = "up" /\ Handler
    <2>1. signals' = signals /\ Total' = Total
        BY <1>5 DEF Handler, CloseReactor, SetQuit, JoinServer, ShutdownRos, Total
    <2>2. PICK t \in {"main"} \cup Others :
             CloseReactor(t) \/ SetQuit(t) \/ JoinServer(t) \/ ShutdownRos(t)
        BY <1>5 DEF Handler
    <2>3. Active > 0 /\ (t # "main" => Elsewhere > 0)
        <3>1. Active > 0
            BY <1>2, <2>2, HandlerCalls
        <3>2. ASSUME t # "main" PROVE Elsewhere > 0
            <4>1. PICK step \in HandlerSteps : t \in Others /\ others[t][step] > 0
                BY <2>2, <3>2 DEF CloseReactor, SetQuit, JoinServer, ShutdownRos, At,
                                  HandlerSteps
            <4>2. /\ others[t][step] \in Nat /\ others[t][step] <= In(t)
                  /\ In("server") \in Nat /\ In("other") \in Nat
                  /\ t \in {"server", "other"}
                BY <1>2, <4>1 DEF Counted, Others
            <4>3. In(t) > 0
                BY <4>1, <4>2 DEF Others
            <4> QED BY <4>2, <4>3 DEF Elsewhere
        <3> QED BY <3>1, <3>2
    <2>4. CASE CloseReactor(t)
        <3>1. reactor = "null" \/ main = "destroy"
            BY <1>5, <2>4 DEF CloseReactor
        <3>2. reactor = "null" => signals.untimely > 0
            BY <1>2, <2>3 DEF SignalInv
        <3>3. main = "destroy" => signals.untimely > 0 \/ Total > 1
            <4>1. CASE t = "main"
                BY <1>2, <2>4, <4>1 DEF CloseReactor, At, SignalInv
            <4>2. CASE t # "main"
                BY <1>2, <2>3, <4>2 DEF SignalInv
            <4> QED BY <4>1, <4>2
        <3> QED BY <2>1, <3>1, <3>2, <3>3 DEF DeathExplained, Total
    <2>5. CASE JoinServer(t)
        <3>1. At(t, "join") /\ GoesTo(t, "join", "shutdown") /\ joined
            BY <1>5, <2>5 DEF JoinServer
        <3>2. Passed
            BY <1>2, <3>1 DEF SignalInv
        <3>3. CASE Active < Total
            <4>1. Total > 1
                BY <1>2, <1>3, <2>3, <3>3
            <4> QED BY <2>1, <4>1 DEF DeathExplained, Total
        (* One call has joined, another is about to. *)
        <3>4. ASSUME Pending({"shutdown"}) PROVE Total > 1
            <4>1. CASE Elsewhere > 0
                BY <1>2, <4>1 DEF SignalInv
            <4>2. CASE ~(Elsewhere > 0)
                <5>1. t = "main"
                    BY <2>3, <4>2
                <5>2. \A u \in Others, step \in HandlerSteps : ~(others[u][step] > 0)
                    <6> TAKE u \in Others, step \in HandlerSteps
                    <6>1. /\ others[u][step] \in Nat /\ others[u][step] <= In(u)
                          /\ In("server") \in Nat /\ In("other") \in Nat
                          /\ u \in {"server", "other"}
                        BY <1>2 DEF Counted, Others
                    <6>2. In("server") = 0 /\ In("other") = 0
                        BY <4>2, <6>1 DEF Elsewhere
                    <6> QED BY <6>1, <6>2
                <5>3. PICK i \in DOMAIN handler : handler[i] = "shutdown"
                    BY <3>4, <5>2 DEF Pending
                <5>4. handler[1] = "join" /\ DOMAIN handler = 1..Len(handler)
                    BY <1>2, <3>1, <5>1 DEF At, Counted
                <5>5. i # 1 /\ i \in 1..Len(handler)
                    BY <5>3, <5>4
                <5>6. Len(handler) > 1
                    BY <1>3, <5>5
                <5> QED BY <1>2, <1>3, <5>6
            <4> QED BY <4>1, <4>2
        <3>5. CASE Total > 1
            BY <2>1, <3>5 DEF DeathExplained, Total
        <3> QED BY <3>2, <3>3, <3>4, <3>5 DEF Passed
    <2>6. CASE SetQuit(t) \/ ShutdownRos(t)
        BY <1>5, <2>6 DEF SetQuit, ShutdownRos
    <2> QED BY <2>2, <2>4, <2>5, <2>6
<1>6. CASE process = "up" /\ ServerRuns
    <2>1. (GetShmManager \/ InitializeShm \/ DiesInExit) /\ server' = server
        BY <1>6 DEF ServerRuns, GetShmManager, InitializeShm, MakeReactor, OpenAcceptor,
                    LeaveServe, FinalizeShm, DiesInExit
    <2>2. CASE GetShmManager \/ InitializeShm
        <3>1. Starting'
            BY <2>1, <2>2 DEF GetShmManager, InitializeShm, Starting
        <3> QED BY <3>1 DEF DeathExplained
    <2>3. CASE DiesInExit
        <3>1. main = "destroy" /\ server # "done" /\ UNCHANGED <<main, ros, server, signals>>
            BY <1>6, <2>3 DEF DiesInExit, ServerRuns
        <3> QED BY <1>4, <3>1 DEF DeathExplained, Total
    <2> QED BY <2>1, <2>2, <2>3
<1>7. CASE process = "up" /\ Generators
    <2>1. PICK s \in Sessions, c \in Cameras : BeginCopy(s, c) \/ EndCopy(s, c)
        BY <1>7 DEF Generators, EndSession, EndProcess
    <2>2. Idle # None /\ c # None
        BY CountsAssumption DEF Idle, None, Cameras
    <2>3. generator[s] # None /\ generator'[s] # None
        BY <2>1, <2>2, CountsAssumption DEF BeginCopy, EndCopy, Inv, TypeOK
    <2>4. server \in Serving /\ mutex[c] # "null"
        BY <2>3, <1>2 DEF MutexInv
    <2>5. mutex[c] # "open" \/ main = "destroy"
        BY <1>7, <2>1 DEF BeginCopy, EndCopy, UseSemaphore
    <2>6. UNCHANGED <<server, signals, main, ros>>
        BY <1>7 DEF Generators
    <2>7. CASE mutex[c] # "open"
        <3>1. server \in {"finalize", "done"}
            BY <2>4, <2>7, <1>2 DEF MutexInv, Serving
        <3> QED BY <2>3, <2>6, <3>1 DEF DeathExplained
    <2>8. CASE main = "destroy"
        BY <1>4, <2>3, <2>6, <2>8 DEF DeathExplained, Total
    <2> QED BY <2>5, <2>7, <2>8
<1>8. CASE process = "up" /\ (Main \/ Signal \/ RosKilled \/ Accepts)
    <2>1. CASE Main
        BY <1>8, <2>1 DEF Main, CallObserver, NotInitialized, CreateServer, SetShmManager,
                          LeaveLoop, Exit
    <2>2. CASE Signal \/ RosKilled \/ Accepts
        BY <1>8, <2>2 DEF Signal, RosKilled, Accepts, AcceptConnection
    <2> QED BY <1>8, <2>1, <2>2
<1> QED BY <1>1, <1>5, <1>6, <1>7, <1>8 DEF Next

------------------------------------------------------------------------------
(***************************************************************************)
(* The theorems.                                                           *)
(***************************************************************************)
LEMMA InvStep == Inv /\ [Next]_vars => Inv'
BY TypeStep, SignalStep, MutexStep, DeathStep DEF Inv

LEMMA Invariance == Spec => []Inv
BY InitInv, InvStep, PTL DEF Spec

(* The variables keep their types: the handler is never interrupted more   *)
(* often than there are signals, and the loops of Initialize and Finalize  *)
(* stay within the cameras.                                                *)
THEOREM TypeCorrect == Spec => []TypeOK
<1>1. Inv => TypeOK
    BY DEF Inv
<1> QED BY <1>1, Invariance, PTL

(* The server accepts connections only with all semaphores open, and no    *)
(* generator meets one that was not opened.                                *)
THEOREM ServesCorrect == Spec => []ServesInitialised
<1>1. Inv => ServesInitialised
    BY DEF Inv, MutexInv, Serving, ServesInitialised
<1> QED BY <1>1, Invariance, PTL

(* Undefined behaviour or an uncaught exception ends a process that has    *)
(* started only after a signal that came before the reactor or during      *)
(* exit(), after a second signal, when ROS has been shut down from outside *)
(* and main() left under the server thread, or when connections outlive    *)
(* this thread.                                                            *)
THEOREM DeathCorrect == Spec => []DeathExplained
<1>1. Inv => DeathExplained
    BY DEF Inv
<1> QED BY <1>1, Invariance, PTL

------------------------------------------------------------------------------
(***************************************************************************)
(* Why the process ends after a signal, though the handler waits.          *)
(***************************************************************************)

(* Who waits for the server thread has told it to stop, after it made its  *)
(* reactor, and will tell main() to stop.                                  *)
WaitInv ==
    /\ Pending({"join", "shutdown"}) => quit
    /\ Pending({"quit", "join", "shutdown"}) => reactor # "null"
    /\ quit => ros # "ok" \/ Pending({"join", "shutdown"})
    /\ server \in {"none", "get", "initialize", "reactor"} => reactor = "null"

(* What each thread has to wait for, read from the guards of its actions.  *)
MainMoves    == handler = <<>> /\ (main = "spin" => ros # "ok")
HandlerMoves ==
    \E t \in {"main"} \cup Others, step \in HandlerSteps :
       At(t, step) /\ (step = "join" => t = "server" \/ AnotherJoins(t) \/ server = "done")
ServerMoves  == ~Interrupted /\ server \notin {"none", "done"} /\ (server = "serve" => quit)

GoesOn ==
    process = "up" /\ (Pending(HandlerSteps) \/ quit) => MainMoves \/ HandlerMoves \/ ServerMoves

LEMMA WaitStep == Inv /\ WaitInv /\ [Next]_vars => WaitInv'
<1> SUFFICES ASSUME Inv, WaitInv, [Next]_vars PROVE WaitInv'
    OBVIOUS
<1>1. CallsType /\ ros \in {"ok", "shutdown", "killed"}
    BY InvTypes DEF Inv, TypeOK
<1> DEFINE joins == {"join", "shutdown"}
           after == {"quit", "join", "shutdown"}
           early == {"none", "get", "initialize", "reactor"}
<1>2. /\ Pending(joins) => quit
      /\ Pending(after) => reactor # "null"
      /\ quit => ros # "ok" \/ Pending(joins)
      /\ server \in early => reactor = "null"
    BY DEF WaitInv
<1>3. ASSUME /\ Pending(joins)' => quit'
             /\ Pending(after)' => reactor' # "null"
             /\ quit' => ros' # "ok" \/ Pending(joins)'
             /\ server' \in early => reactor' = "null"
      PROVE  WaitInv'
    BY <1>3 DEF WaitInv
<1> HIDE DEF joins, after, early
<1>4. ASSUME UNCHANGED calls, UNCHANGED quit, ros' = ros \/ ros' = "killed",
             reactor' # reactor => reactor' = "open" /\ server' \notin early,
             server' \in early => server \in early
      PROVE  WaitInv'
    <2>1. (Pending(joins)' <=> Pending(joins)) /\ (Pending(after)' <=> Pending(after))
        BY <1>4, CallsKept
    <2> QED BY <1>2, <1>3, <1>4, <2>1
<1>5. CASE Main
    <2>1. main \in {"observe", "create"} => server = "none"
        BY DEF Inv, MutexInv
    <2>2. UNCHANGED <<ros, calls, quit, reactor>> /\ (server' \in early => server \in early)
        BY <1>5, <2>1 DEF Main, CallObserver, NotInitialized, CreateServer, SetShmManager,
                          LeaveLoop, Exit, mainVars, early
    <2> QED BY <1>4, <2>2
<1>6. CASE Signal /\ UNCHANGED <<mainVars, serverVars, generator>>
    <2>1. UNCHANGED <<ros, quit, reactor, server>>
        BY <1>6 DEF Signal, serverVars
    <2>2. (Pending(joins)' <=> Pending(joins)) /\ (Pending(after)' <=> Pending(after))
        BY <1>1, <1>6, CallBegins DEF Signal, joins, after
    <2> QED BY <1>2, <1>3, <2>1, <2>2
<1>7. CASE Handler
    <2>1. server' = server
        BY <1>7 DEF Handler, serverVars
    <2>2. PICK t \in {"main"} \cup Others :
             CloseReactor(t) \/ SetQuit(t) \/ JoinServer(t) \/ ShutdownRos(t)
        BY <1>7 DEF Handler
    <2>3. CASE CloseReactor(t)
        <3>1. CASE UNCHANGED <<calls, reactor>>
            BY <1>4, <2>1, <2>3, <3>1 DEF CloseReactor
        <3>2. CASE reactor # "null" /\ reactor' = "closed" /\ GoesTo(t, "close", "quit")
            <4>1. At(t, "close") /\ UNCHANGED <<ros, quit>>
                BY <2>3 DEF CloseReactor
            <4>2. GoesOnFrom("close", "quit", joins)
                BY <1>1, <3>2, <4>1, CallMoves DEF HandlerSteps
            <4>3. Pending(joins)' <=> Pending(joins)
                BY <4>2 DEF GoesOnFrom, joins
            <4> QED BY <1>2, <1>3, <2>1, <3>2, <4>1, <4>3
        <3> QED BY <2>3, <3>1, <3>2 DEF CloseReactor
    <2>4. CASE SetQuit(t)
        <3>1. /\ At(t, "quit") /\ GoesTo(t, "quit", "join")
              /\ quit' = TRUE /\ UNCHANGED <<ros, reactor>>
            BY <2>4 DEF SetQuit
        <3>2. GoesOnFrom("quit", "join", joins) /\ GoesOnFrom("quit", "join", after)
            BY <1>1, <3>1, CallMoves DEF HandlerSteps
        <3>3. Pending(joins)' /\ Pending(after)
            BY <3>2 DEF GoesOnFrom, joins, after
        <3> QED BY <1>2, <1>3, <2>1, <3>1, <3>3
    <2>5. CASE JoinServer(t)
        <3>1. At(t, "join") /\ GoesTo(t, "join", "shutdown") /\ UNCHANGED <<ros, quit, reactor>>
            BY <2>5 DEF JoinServer
        <3>2. GoesOnFrom("join", "shutdown", joins) /\ GoesOnFrom("join", "shutdown", after)
            BY <1>1, <3>1, CallMoves DEF HandlerSteps
        <3>3. Pending(joins)' /\ Pending(joins) /\ Pending(after)
            BY <3>2 DEF GoesOnFrom, joins, after
        <3> QED BY <1>2, <1>3, <2>1, <3>1, <3>3
    <2>6. CASE ShutdownRos(t)
        <3>1. ros' # "ok" /\ UNCHANGED <<quit, reactor>>
            BY <1>1, <2>6 DEF ShutdownRos
        <3>2. (Pending(joins)' => Pending(joins)) /\ (Pending(after)' => Pending(after))
            BY <1>1, <2>6, CallReturns DEF ShutdownRos
        <3> QED BY <1>2, <1>3, <2>1, <3>1, <3>2
    <2> QED BY <2>2, <2>3, <2>4, <2>5, <2>6
<1>8. CASE ServerRuns
    <2>1. UNCHANGED <<ros, calls, quit>>
        BY <1>8 DEF ServerRuns
    <2>2. /\ reactor' # reactor => reactor' = "open" /\ server' \notin early
          /\ server' \in early => server \in early
        BY <1>8 DEF ServerRuns, GetShmManager, InitializeShm, MakeReactor, OpenAcceptor,
                    LeaveServe, FinalizeShm, DiesInExit, serverVars, early
    <2> QED BY <1>4, <2>1, <2>2
<1>9. CASE Accepts \/ Generators \/ RosKilled \/ UNCHANGED vars
    BY <1>4, <1>9 DEF Accepts, AcceptConnection, Generators, RosKilled, vars, serverVars
<1> QED BY <1>5, <1>6, <1>7, <1>8, <1>9 DEF Next

(* THEOREM: from the first signal that finds a reactor to the end of the   *)
(* process some thread of the program has a step to do: a handler that     *)
(* waits in pthread_join waits for a server thread that is not waiting     *)
(* itself, and the loop of main() does not go on after the handlers.       *)
THEOREM NobodyWaitsForEver == Spec => []GoesOn
<1>1. Init => WaitInv
    BY DEF Init, WaitInv, Pending
<1>2. Inv /\ WaitInv => GoesOn
    <2> SUFFICES ASSUME Inv, WaitInv, process = "up", Pending(HandlerSteps) \/ quit
                 PROVE  MainMoves \/ HandlerMoves \/ ServerMoves
        BY DEF GoesOn
    <2>1. CallsType /\ DOMAIN handler = 1..Len(handler) /\ Len(handler) \in Nat
        BY InvTypes DEF Counted
    (* A call that is at its pthread_join waits for the server thread.     *)
    <2>2. ASSUME NEW t \in {"main"} \cup Others, At(t, "join"), ~Interrupted
          PROVE  server = "done" \/ ServerMoves
        <3>1. Pending({"join", "shutdown"}) /\ Pending({"quit", "join", "shutdown"})
            <4>1. CASE t = "main"
                <5>1. 1 \in DOMAIN handler /\ handler[1] = "join"
                    BY <2>1, <2>2, <4>1 DEF At, CallsType
                <5> QED BY <5>1 DEF Pending
            <4>2. CASE t \in Others
                <5>1. others[t]["join"] > 0
                    BY <2>2, <4>2 DEF At, Others
                <5> QED BY <4>2, <5>1 DEF Pending, HandlerSteps
            <4> QED BY <4>1, <4>2
        <3> QED BY <2>2, <3>1 DEF WaitInv, ServerMoves
    <2>3. ASSUME NEW t \in {"main"} \cup Others, NEW step \in HandlerSteps, At(t, step)
          PROVE  HandlerMoves \/ ServerMoves
        <3>1. CASE Interrupted
            <4>1. PICK other \in HandlerSteps : others["server"][other] > 0
                BY <3>1 DEF Interrupted
            <4>2. At("server", other) /\ "server" \in {"main"} \cup Others
                BY <4>1 DEF At, Others
            <4> QED BY <4>2 DEF HandlerMoves
        <3>2. CASE step = "join" /\ ~Interrupted
            BY <2>2, <2>3, <3>2 DEF HandlerMoves
        <3>3. CASE step # "join"
            BY <2>3, <3>3 DEF HandlerMoves
        <3> QED BY <3>1, <3>2, <3>3
    <2>4. CASE Pending(HandlerSteps)
        <3>1. CASE handler # <<>>
            <4>1. At("main", Head(handler)) /\ Head(handler) \in HandlerSteps
                BY <2>1, <3>1 DEF At, CallsType
            <4> QED BY <2>3, <4>1
        <3>2. CASE handler = <<>>
            <4>1. PICK t \in Others, step \in HandlerSteps : others[t][step] > 0
                BY <2>4, <3>2 DEF Pending
            <4>2. At(t, step)
                BY <4>1 DEF At, Others
            <4> QED BY <2>3, <4>2
        <3> QED BY <3>1, <3>2
    <2>5. CASE ~Pending(HandlerSteps)
        <3>1. ~Pending({"join", "shutdown"})
            BY <2>5 DEF Pending, HandlerSteps
        <3>2. handler = <<>>
            <4>1. handler # <<>> => 1 \in DOMAIN handler /\ handler[1] \in HandlerSteps
                BY <2>1 DEF CallsType
            <4> QED BY <2>5, <4>1 DEF Pending
        <3> QED BY <2>5, <3>1, <3>2 DEF WaitInv, MainMoves
    <2> QED BY <2>4, <2>5
<1> QED BY <1>1, <1>2, WaitStep, Invariance, PTL DEF Spec

(* How many steps the three have left at most: a signal costs four of a    *)
(* handler.                                                                *)
OfHandler(step) ==
    CASE step = "close" -> 4 [] step = "quit" -> 3 [] step = "join" -> 2 [] step = "shutdown" -> 1
HandlerLeft == IF handler = <<>> THEN 0 ELSE 4 * (Len(handler) - 1) + OfHandler(Head(handler))
LeftIn(t) == 4 * others[t]["close"] + 3 * others[t]["quit"] + 2 * others[t]["join"]
             + others[t]["shutdown"]
OthersLeft == LeftIn("server") + LeftIn("other")
CallsLeft == HandlerLeft + OthersLeft

MainLeft ==
    CASE main = "observe" -> MaxTries - tryCount + 5
      [] main = "create" -> 4 [] main = "set" -> 3 [] main = "spin" -> 2 [] main = "destroy" -> 1

ServerLeft ==
    CASE server = "none" -> 2 * N_COUNT + 7
      [] server = "get" -> 2 * N_COUNT + 6
      [] server = "initialize" -> 2 * N_COUNT + 5 - next
      [] server = "reactor" -> N_COUNT + 4
      [] server = "open" -> N_COUNT + 3
      [] server = "serve" -> N_COUNT + 2
      [] server = "finalize" -> N_COUNT + 1 - next
      [] server = "done" -> 0

Left == 8 * (MaxSignals - Total) + CallsLeft + MainLeft + ServerLeft

(* A step of the program, or one of somebody else.                         *)
Nearer ==
    /\ Left \in Nat
    /\ process' = "up" =>
         (Left' < Left) \/ ((Accepts \/ Generators \/ RosKilled) /\ UNCHANGED Left)

LEMMA HandlerLeftType ==
    ASSUME handler \in Seq(HandlerSteps)
    PROVE  /\ HandlerLeft \in Nat /\ Len(handler) \in Nat
           /\ handler # <<>> =>
                /\ Head(handler) \in HandlerSteps /\ OfHandler(Head(handler)) \in 1..4
                /\ Len(handler) > 0
                /\ HandlerLeft = 4 * (Len(handler) - 1) + OfHandler(Head(handler))
           /\ handler = <<>> => HandlerLeft = 0 /\ Len(handler) = 0
<1>1. Len(handler) \in Nat
    OBVIOUS
<1>2. CASE handler = <<>>
    BY <1>1, <1>2 DEF HandlerLeft
<1>3. CASE handler # <<>>
    <2>1. Len(handler) > 0 /\ Head(handler) \in HandlerSteps
        BY <1>3
    <2>2. OfHandler(Head(handler)) \in 1..4
        BY <2>1 DEF OfHandler, HandlerSteps
    <2>3. HandlerLeft = 4 * (Len(handler) - 1) + OfHandler(Head(handler))
        BY <1>3 DEF HandlerLeft
    <2>4. HandlerLeft \in Nat
        BY <1>1, <2>1, <2>2, <2>3
    <2> QED BY <1>1, <1>3, <2>1, <2>2, <2>3, <2>4
<1> QED BY <1>2, <1>3

LEMMA HandlerLeftPrimed ==
    ASSUME handler' \in Seq(HandlerSteps)
    PROVE  /\ HandlerLeft' \in Nat /\ Len(handler') \in Nat
           /\ handler' # <<>> =>
                /\ OfHandler(Head(handler')) \in 1..4
                /\ HandlerLeft' = 4 * (Len(handler') - 1) + OfHandler(Head(handler'))
           /\ handler' = <<>> => HandlerLeft' = 0
<1>1. Len(handler') \in Nat
    OBVIOUS
<1>2. CASE handler' = <<>>
    BY <1>1, <1>2 DEF HandlerLeft
<1>3. CASE handler' # <<>>
    <2>1. Len(handler') > 0 /\ Head(handler') \in HandlerSteps
        BY <1>3
    <2>2. OfHandler(Head(handler')) \in 1..4
        BY <2>1 DEF OfHandler, HandlerSteps
    <2>3. HandlerLeft' = 4 * (Len(handler') - 1) + OfHandler(Head(handler'))
        BY <1>3 DEF HandlerLeft
    <2>4. HandlerLeft' \in Nat
        BY <1>1, <2>1, <2>2, <2>3
    <2> QED BY <1>1, <1>3, <2>2, <2>3, <2>4
<1> QED BY <1>2, <1>3

LEMMA OthersLeftType ==
    CallsType => /\ \A t \in Others : LeftIn(t) \in Nat
                 /\ LeftIn("server") \in Nat /\ LeftIn("other") \in Nat
                 /\ OthersLeft \in Nat
<1> SUFFICES ASSUME CallsType
             PROVE  /\ \A t \in Others : LeftIn(t) \in Nat
                    /\ LeftIn("server") \in Nat /\ LeftIn("other") \in Nat
                    /\ OthersLeft \in Nat
    OBVIOUS
<1>1. \A t \in Others, step \in HandlerSteps : others[t][step] \in Nat
    BY DEF CallsType
<1>2. \A a, b, c, d \in Nat : 4 * a + 3 * b + 2 * c + d \in Nat
    OBVIOUS
<1>3. \A t \in Others : LeftIn(t) \in Nat
    BY <1>1, <1>2 DEF LeftIn, HandlerSteps
<1>4. LeftIn("server") \in Nat /\ LeftIn("other") \in Nat
    BY <1>3 DEF Others
<1> QED BY <1>3, <1>4 DEF OthersLeft

OthersLeftTyped == OthersLeft \in Nat

LEMMA OthersLeftTypeNext == CallsType' => OthersLeft' \in Nat
<1>1. CallsType => OthersLeftTyped
    BY OthersLeftType DEF OthersLeftTyped
<1>2. CallsType' => OthersLeftTyped'
    BY <1>1, PTL
<1> QED BY <1>2 DEF OthersLeftTyped

LEMMA CallsLeftFalls ==
    ASSUME HandlerLeft \in Nat, HandlerLeft' \in Nat, OthersLeft \in Nat, OthersLeft' \in Nat,
           \/ HandlerLeft' < HandlerLeft /\ OthersLeft' = OthersLeft
           \/ HandlerLeft' = HandlerLeft /\ OthersLeft' < OthersLeft
    PROVE  CallsLeft' < CallsLeft
<1>1. \A a, b, c, d \in Nat : (b < a /\ d = c) \/ (b = a /\ d < c) => b + d < a + c
    OBVIOUS
<1>2. CallsLeft = HandlerLeft + OthersLeft /\ CallsLeft' = HandlerLeft' + OthersLeft'
    BY DEF CallsLeft
<1> QED BY <1>1, <1>2

(* One thread's calls change, the other's do not.                          *)
LEMMA OneThread ==
    ASSUME CallsType, CallsType', NEW t \in Others,
           \A u \in Others : u # t => others'[u] = others[u]
    PROVE  \A n \in Int : LeftIn(t)' = LeftIn(t) + n => OthersLeft' = OthersLeft + n
<1>1. LeftIn("server") \in Nat /\ LeftIn("other") \in Nat
    BY OthersLeftType
<1>2. t \in {"server", "other"} /\ "server" \in Others /\ "other" \in Others
    BY DEF Others
<1>3. ASSUME NEW u \in Others, u # t PROVE LeftIn(u)' = LeftIn(u)
    BY <1>3 DEF LeftIn
<1>4. ASSUME NEW n \in Int, LeftIn(t)' = LeftIn(t) + n PROVE OthersLeft' = OthersLeft + n
  <2>1. CASE t = "server"
    <3>1. LeftIn("server")' = LeftIn("server") + n /\ LeftIn("other")' = LeftIn("other")
        BY <1>2, <1>3, <1>4, <2>1
    <3>2. \A a, b \in Nat : (a + n) + b = (a + b) + n
        BY <1>4
    <3> QED BY <1>1, <3>1, <3>2 DEF OthersLeft
  <2>2. CASE t = "other"
    <3>1. LeftIn("server")' = LeftIn("server") /\ LeftIn("other")' = LeftIn("other") + n
        BY <1>2, <1>3, <1>4, <2>2
    <3>2. \A a, b \in Nat : a + (b + n) = (a + b) + n
        BY <1>4
    <3> QED BY <1>1, <3>1, <3>2 DEF OthersLeft
  <2> QED BY <1>2, <2>1, <2>2
<1> QED BY <1>4

(* A signal adds less than the eight that it is counted for.               *)
LEMMA SignalLeft ==
    ASSUME CallsType, Signal, CallsType'
    PROVE  CallsLeft' < CallsLeft + 8
<1>0. /\ HandlerLeft \in Nat /\ HandlerLeft' \in Nat /\ OthersLeft \in Nat /\ OthersLeft' \in Nat
      /\ handler \in Seq(HandlerSteps) /\ handler' \in Seq(HandlerSteps) /\ Len(handler) \in Nat
    BY HandlerLeftType, HandlerLeftPrimed, OthersLeftType, OthersLeftTypeNext DEF CallsType
<1>1. CASE handler' = <<"close">> \o handler /\ UNCHANGED others
  <2>1. Len(handler') = Len(handler) + 1 /\ handler' # <<>>
    <3>1. <<"close">> \in Seq(HandlerSteps) /\ Len(<<"close">>) = 1
        BY DEF HandlerSteps
    <3>2. Len(handler') = 1 + Len(handler)
        BY <1>0, <1>1, <3>1, ConcatProperties
    <3> QED BY <1>0, <3>2
  <2>2. HandlerLeft' <= 4 * Len(handler) + 4
      BY <1>0, <2>1, HandlerLeftPrimed
  <2>3. HandlerLeft > 4 * Len(handler) - 4
      BY <1>0, HandlerLeftType
  <2>4. OthersLeft' = OthersLeft
      BY <1>1 DEF OthersLeft, LeftIn
  <2>5. HandlerLeft' < HandlerLeft + 8
      BY ONLY <1>0, <2>2, <2>3
  <2>6. \A a, b, c \in Nat : a < b + 8 => a + c < (b + c) + 8
      OBVIOUS
  <2> QED BY ONLY <1>0, <2>4, <2>5, <2>6 DEF CallsLeft
<1>2. ASSUME UNCHANGED handler, NEW t \in Others,
             others' = [others EXCEPT ![t] = [others[t] EXCEPT !["close"] = @ + 1]]
      PROVE  CallsLeft' < CallsLeft + 8
  <2> DEFINE row == [others[t] EXCEPT !["close"] = @ + 1]
  <2>1. others \in [Others -> [HandlerSteps -> Nat]] /\ others[t] \in [HandlerSteps -> Nat]
      BY DEF CallsType
  <2>2. /\ row["close"] = others[t]["close"] + 1 /\ row["quit"] = others[t]["quit"]
        /\ row["join"] = others[t]["join"] /\ row["shutdown"] = others[t]["shutdown"]
      BY <2>1 DEF HandlerSteps
  <2>3. others' = [others EXCEPT ![t] = row]
      BY <1>2
  <2> HIDE DEF row
  <2>4. \A u \in Others : others'[u] = IF u = t THEN row ELSE others[u]
      BY <2>1, <2>3
  <2>5. LeftIn(t)' = LeftIn(t) + 4
    <3>1. /\ others[t]["close"] \in Nat /\ others[t]["quit"] \in Nat
          /\ others[t]["join"] \in Nat /\ others[t]["shutdown"] \in Nat
        BY <2>1 DEF HandlerSteps
    <3>2. /\ others'[t]["close"] = others[t]["close"] + 1
          /\ others'[t]["quit"] = others[t]["quit"] /\ others'[t]["join"] = others[t]["join"]
          /\ others'[t]["shutdown"] = others[t]["shutdown"]
        BY <2>2, <2>4
    <3>3. \A a, b, c, d \in Nat :
              4 * (a + 1) + 3 * b + 2 * c + d = (4 * a + 3 * b + 2 * c + d) + 4
        OBVIOUS
    <3>4. LeftIn(t)' = 4 * (others[t]["close"] + 1) + 3 * others[t]["quit"]
                       + 2 * others[t]["join"] + others[t]["shutdown"]
        BY ONLY <3>2 DEF LeftIn
    <3> QED BY ONLY <3>1, <3>3, <3>4 DEF LeftIn
  <2>6. OthersLeft' = OthersLeft + 4
      BY <1>2, <2>4, <2>5, OneThread
  <2>7. HandlerLeft' = HandlerLeft
      BY <1>2 DEF HandlerLeft
  <2>8. \A a, b \in Nat : a + (b + 4) < (a + b) + 8
      OBVIOUS
  <2> QED BY ONLY <1>0, <2>6, <2>7, <2>8 DEF CallsLeft
<1> QED BY <1>1, <1>2 DEF Signal

LEMMA HandlerNearer ==
    ASSUME handler \in Seq(HandlerSteps), handler # <<>>,
           \/ handler' = Tail(handler)
           \/ /\ handler' \in Seq(HandlerSteps) /\ Len(handler') = Len(handler) /\ handler' # <<>>
              /\ OfHandler(Head(handler')) < OfHandler(Head(handler))
    PROVE  HandlerLeft' < HandlerLeft
<1>1. /\ Len(handler) \in Nat /\ Len(handler) > 0 /\ HandlerLeft \in Nat
      /\ OfHandler(Head(handler)) \in 1..4
      /\ HandlerLeft = 4 * (Len(handler) - 1) + OfHandler(Head(handler))
    BY HandlerLeftType
<1>2. CASE handler' = Tail(handler)
    <2>1. handler' \in Seq(HandlerSteps) /\ Len(handler') = Len(handler) - 1
        BY <1>2
    <2>2. HandlerLeft' <= 4 * (Len(handler) - 1)
        BY <1>1, <2>1, HandlerLeftPrimed
    <2>3. HandlerLeft' \in Nat
        BY <2>1, HandlerLeftPrimed
    <2> QED BY <1>1, <2>2, <2>3
<1>3. CASE /\ handler' \in Seq(HandlerSteps) /\ Len(handler') = Len(handler) /\ handler' # <<>>
           /\ OfHandler(Head(handler')) < OfHandler(Head(handler))
    <2>1. /\ HandlerLeft' = 4 * (Len(handler) - 1) + OfHandler(Head(handler'))
          /\ OfHandler(Head(handler')) \in 1..4
        BY <1>3, HandlerLeftPrimed
    <2> QED BY <1>1, <1>3, <2>1
<1> QED BY <1>2, <1>3

LEMMA OtherNearer ==
    ASSUME CallsType, CallsType', NEW t \in Others, NEW n \in 1..3,
           \A u \in Others : u # t => others'[u] = others[u],
           LeftIn(t)' = LeftIn(t) - n
    PROVE  OthersLeft' < OthersLeft
<1>1. LeftIn(t) \in Nat /\ OthersLeft \in Nat
    BY OthersLeftType
<1>2. LeftIn(t)' = LeftIn(t) + (0 - n) /\ 0 - n \in Int
    BY ONLY <1>1, n \in 1..3, LeftIn(t)' = LeftIn(t) - n
<1>3. OthersLeft' = OthersLeft + (0 - n)
    BY <1>2, OneThread
<1> QED BY ONLY <1>1, <1>3, n \in 1..3

(* What a call of the handler does brings its end nearer.                  *)
LEMMA CallNearer ==
    ASSUME CallsType, CallsType', NEW t \in {"main"} \cup Others,
           \/ CloseReactor(t) /\ process' = "up"
           \/ SetQuit(t) \/ JoinServer(t) \/ ShutdownRos(t)
    PROVE  CallsLeft' < CallsLeft
<1>0. /\ HandlerLeft \in Nat /\ HandlerLeft' \in Nat /\ OthersLeft \in Nat /\ OthersLeft' \in Nat
      /\ handler \in Seq(HandlerSteps) /\ handler' \in Seq(HandlerSteps)
    BY HandlerLeftType, HandlerLeftPrimed, OthersLeftType, OthersLeftTypeNext DEF CallsType
<1> DEFINE Goes(from, to) == At(t, from) /\ GoesTo(t, from, to)
<1>1. \/ Goes("close", "quit") \/ Goes("quit", "join") \/ Goes("join", "shutdown")
      \/ ShutdownRos(t)
    BY DEF CloseReactor, SetQuit, JoinServer
<1>2. CASE t = "main"
  <2>1. UNCHANGED others /\ handler # <<>>
      BY <1>1, <1>2 DEF At, GoesTo, ShutdownRos
  <2>2. \/ handler' = Tail(handler)
        \/ /\ handler' \in Seq(HandlerSteps) /\ Len(handler') = Len(handler) /\ handler' # <<>>
           /\ OfHandler(Head(handler')) < OfHandler(Head(handler))
    <3>1. ASSUME NEW from \in HandlerSteps, NEW to \in HandlerSteps, Goes(from, to),
                 OfHandler(to) < OfHandler(from)
          PROVE  /\ handler' \in Seq(HandlerSteps) /\ Len(handler') = Len(handler)
                 /\ handler' # <<>> /\ OfHandler(Head(handler')) < OfHandler(Head(handler))
      <4>1. At("main", from) /\ handler' = <<to>> \o Tail(handler) /\ Head(handler) = from
          BY <1>2, <3>1 DEF GoesTo, At
      <4>2. /\ handler' \in Seq(HandlerSteps) /\ Len(handler') = Len(handler)
            /\ handler' # <<>> /\ Head(handler') = to
          BY <2>1, <4>1, StackMoved
      <4> QED BY <3>1, <4>1, <4>2
    <3>2. /\ OfHandler("close") = 4 /\ OfHandler("quit") = 3 /\ OfHandler("join") = 2
          /\ OfHandler("shutdown") = 1
        BY DEF OfHandler
    <3>3. CASE ShutdownRos(t)
        BY <1>2, <3>3 DEF ShutdownRos
    <3> HIDE DEF Goes
    <3> QED BY <1>1, <3>1, <3>2, <3>3 DEF HandlerSteps
  <2>3. HandlerLeft' < HandlerLeft
      BY <1>0, <2>1, <2>2, HandlerNearer
  <2>4. OthersLeft' = OthersLeft
      BY <2>1 DEF OthersLeft, LeftIn
  <2> QED BY <1>0, <2>3, <2>4, CallsLeftFalls
<1>3. CASE t # "main"
  <2>1. t \in Others /\ UNCHANGED handler
      BY <1>1, <1>3 DEF GoesTo, ShutdownRos
  <2>2. HandlerLeft' = HandlerLeft
      BY <2>1 DEF HandlerLeft
  <2>3. \A step \in HandlerSteps : others[t][step] \in Nat
      BY <2>1 DEF CallsType
  <2> DEFINE a == others[t]["close"]
             b == others[t]["quit"]
             c == others[t]["join"]
             d == others[t]["shutdown"]
  <2>4. a \in Nat /\ b \in Nat /\ c \in Nat /\ d \in Nat
      BY <2>3 DEF HandlerSteps
  <2>5. LeftIn(t) = 4 * a + 3 * b + 2 * c + d
      BY DEF LeftIn
  <2> HIDE DEF a, b, c, d
  <2>6. ASSUME NEW from \in HandlerSteps, NEW to \in HandlerSteps, from # to, Goes(from, to)
        PROVE  /\ \A u \in Others, step \in HandlerSteps :
                    others'[u][step] = IF u = t /\ step = to THEN others[u][step] + 1
                                       ELSE IF u = t /\ step = from THEN others[u][step] - 1
                                       ELSE others[u][step]
               /\ \A u \in Others : u # t => others'[u] = others[u]
    <3>1. /\ others[t][from] > 0
          /\ others' = [others EXCEPT ![t] = [others[t] EXCEPT ![from] = @ - 1, ![to] = @ + 1]]
        BY <1>3, <2>6 DEF At, GoesTo
    <3>2. others \in [Others -> [HandlerSteps -> Nat]]
        BY DEF CallsType
    <3> QED BY <2>1, <2>6, <3>1, <3>2, OtherMoved
  <2>7. CASE Goes("close", "quit")
    <3>1. "close" \in HandlerSteps /\ "quit" \in HandlerSteps
        BY DEF HandlerSteps
    <3>2. LeftIn(t)' = 4 * (a - 1) + 3 * (b + 1) + 2 * c + d
        BY <2>1, <2>6, <2>7 DEF LeftIn, HandlerSteps, a, b, c, d
    <3>3. LeftIn(t)' = LeftIn(t) - 1
        BY ONLY <2>4, <2>5, <3>2
    <3>4. OthersLeft' < OthersLeft
        BY <2>1, <2>6, <2>7, <3>1, <3>3, OtherNearer
    <3> QED BY <1>0, <2>2, <3>4, CallsLeftFalls
  <2>8. CASE Goes("quit", "join")
    <3>1. "quit" \in HandlerSteps /\ "join" \in HandlerSteps
        BY DEF HandlerSteps
    <3>2. LeftIn(t)' = 4 * a + 3 * (b - 1) + 2 * (c + 1) + d
        BY <2>1, <2>6, <2>8 DEF LeftIn, HandlerSteps, a, b, c, d
    <3>3. LeftIn(t)' = LeftIn(t) - 1
        BY ONLY <2>4, <2>5, <3>2
    <3>4. OthersLeft' < OthersLeft
        BY <2>1, <2>6, <2>8, <3>1, <3>3, OtherNearer
    <3> QED BY <1>0, <2>2, <3>4, CallsLeftFalls
  <2>9. CASE Goes("join", "shutdown")
    <3>1. "join" \in HandlerSteps /\ "shutdown" \in HandlerSteps
        BY DEF HandlerSteps
    <3>2. LeftIn(t)' = 4 * a + 3 * b + 2 * (c - 1) + (d + 1)
        BY <2>1, <2>6, <2>9 DEF LeftIn, HandlerSteps, a, b, c, d
    <3>3. LeftIn(t)' = LeftIn(t) - 1
        BY ONLY <2>4, <2>5, <3>2
    <3>4. OthersLeft' < OthersLeft
        BY <2>1, <2>6, <2>9, <3>1, <3>3, OtherNearer
    <3> QED BY <1>0, <2>2, <3>4, CallsLeftFalls
  <2>10. CASE ShutdownRos(t)
    <3> DEFINE row == [others[t] EXCEPT !["shutdown"] = @ - 1]
    <3>1. others \in [Others -> [HandlerSteps -> Nat]] /\ others[t] \in [HandlerSteps -> Nat]
        BY <2>1 DEF CallsType
    <3>2. others' = [others EXCEPT ![t] = row]
        BY <1>3, <2>10 DEF ShutdownRos
    <3>3. row["close"] = a /\ row["quit"] = b /\ row["join"] = c /\ row["shutdown"] = d - 1
        BY <3>1 DEF HandlerSteps, a, b, c, d
    <3> HIDE DEF row
    <3>4. \A u \in Others : others'[u] = IF u = t THEN row ELSE others[u]
        BY <3>1, <3>2
    <3>5. LeftIn(t)' = 4 * a + 3 * b + 2 * c + (d - 1)
        BY <2>1, <3>3, <3>4 DEF LeftIn
    <3>6. LeftIn(t)' = LeftIn(t) - 1
        BY ONLY <2>4, <2>5, <3>5
    <3>7. OthersLeft' < OthersLeft
        BY <2>1, <3>4, <3>6, OtherNearer
    <3> QED BY <1>0, <2>2, <3>7, CallsLeftFalls
  <2> QED BY <1>1, <2>7, <2>8, <2>9, <2>10
<1> QED BY <1>2, <1>3

LEMMA LeftType ==
    ASSUME TypeOK
    PROVE  /\ Total \in Nat /\ CallsType /\ CallsLeft \in Nat
           /\ MainLeft \in Nat /\ ServerLeft \in Nat
<1>1. /\ handler \in Seq(HandlerSteps) /\ MaxSignals \in Nat /\ MaxTries \in Nat /\ N_COUNT \in Nat
      /\ tryCount \in Nat /\ tryCount <= MaxTries /\ next \in Nat /\ next <= N_COUNT
      /\ signals.untimely \in Nat /\ signals.timely \in Nat
      /\ others \in [Others -> [HandlerSteps -> 0..MaxSignals]]
    BY CountsAssumption DEF TypeOK
<1>2. MainLeft \in Nat
    BY <1>1 DEF TypeOK, MainLeft
<1>3. ServerLeft \in Nat
    <2>1. server \in {"none", "get", "initialize", "reactor", "open", "serve", "finalize", "done"}
        BY DEF TypeOK
    <2>2. /\ 2 * N_COUNT + 7 \in Nat /\ 2 * N_COUNT + 6 \in Nat /\ N_COUNT + 4 \in Nat
          /\ N_COUNT + 3 \in Nat /\ N_COUNT + 2 \in Nat
          /\ N_COUNT + 1 - next \in Nat /\ 2 * N_COUNT + 5 - next \in Nat
        BY ONLY <1>1
    <2> QED BY ONLY <2>1, <2>2 DEF ServerLeft
<1>4. CallsType
    <2>1. \A u \in Others : others[u] \in [HandlerSteps -> Nat]
        BY <1>1
    <2> QED BY <1>1, <2>1 DEF CallsType
<1>5. CallsLeft \in Nat
    <2>1. HandlerLeft \in Nat /\ OthersLeft \in Nat
        BY <1>1, <1>4, HandlerLeftType, OthersLeftType
    <2> QED BY <2>1 DEF CallsLeft
<1> QED BY <1>1, <1>2, <1>3, <1>4, <1>5 DEF Total

LEMMA SumFalls ==
    \A m, n, s \in Nat : n < m => n + s < m + s
OBVIOUS

(* What lowers Left: k is MaxSignals, and each letter comes with its next  *)
(* value.                                                                  *)
LEMMA LeftFalls ==
    \A k, t, u, h, i, m, n, s, r \in Nat :
        \/ u = t /\ i = h /\ n + r < m + s
        \/ u = t /\ i = h /\ n = m /\ r < s
        \/ u = t /\ i < h /\ n = m /\ r = s
        \/ u = t + 1 /\ i < h + 8 /\ n = m /\ r = s
        => 8 * (k - u) + i + n + r < 8 * (k - t) + h + m + s
OBVIOUS

LEMMA MainNearer ==
    ASSUME Inv, Main, process' = "up"
    PROVE  MainLeft' + ServerLeft' < MainLeft + ServerLeft
<1>1. /\ MaxTries \in Nat /\ N_COUNT \in Nat
      /\ tryCount \in Nat /\ tryCount <= MaxTries /\ next \in Nat /\ next <= N_COUNT
      /\ ServerLeft \in Nat
    BY CountsAssumption, LeftType DEF Inv, TypeOK
<1>2. next' = next
    BY DEF Main
<1>3. CASE server' = server
    <2>1. ServerLeft' = ServerLeft
        BY <1>2, <1>3 DEF ServerLeft
    <2>2. MainLeft' \in Nat /\ MainLeft \in Nat /\ MainLeft' < MainLeft
        BY <1>1, <1>3 DEF Main, CallObserver, NotInitialized, CreateServer, SetShmManager,
                          LeaveLoop, Exit, mainVars, MainLeft, Inv, TypeOK, MutexInv
    <2> QED BY <1>1, <2>1, <2>2, SumFalls
<1>4. CASE CreateServer /\ server' # server
    <2>1. server = "none" /\ server' = "get" /\ main = "create" /\ main' = "set"
        BY <1>4 DEF CreateServer, Inv, MutexInv
    <2>2. /\ ServerLeft = 2 * N_COUNT + 7 /\ ServerLeft' = 2 * N_COUNT + 6
          /\ MainLeft = 4 /\ MainLeft' = 3
        BY ONLY <2>1 DEF ServerLeft, MainLeft
    <2> QED BY ONLY <1>1, <2>2
<1> QED BY <1>3, <1>4 DEF Main, CallObserver, NotInitialized, CreateServer, SetShmManager,
                          LeaveLoop, Exit

LEMMA ServerNearer ==
    ASSUME Inv, ServerRuns, process' = "up"
    PROVE  ServerLeft' < ServerLeft
<1>1. N_COUNT \in Nat /\ next \in Nat /\ next <= N_COUNT
    BY CountsAssumption DEF Inv, TypeOK
<1>2. server \in {"get", "reactor", "open", "serve"} => next = 0
    BY DEF Inv, MutexInv
<1> USE <1>1, <1>2 DEF ServerLeft, serverVars
<1>3. CASE GetShmManager
    BY <1>3 DEF GetShmManager
<1>4. CASE InitializeShm
    BY <1>4 DEF InitializeShm
<1>5. CASE MakeReactor
    BY <1>5 DEF MakeReactor
<1>6. CASE OpenAcceptor
    BY <1>6 DEF OpenAcceptor
<1>7. CASE LeaveServe
    BY <1>7 DEF LeaveServe
<1>8. CASE FinalizeShm
    BY <1>8 DEF FinalizeShm
<1>9. CASE DiesInExit
    BY <1>9 DEF DiesInExit
<1> QED BY <1>3, <1>4, <1>5, <1>6, <1>7, <1>8, <1>9 DEF ServerRuns

(* THEOREM: each step of main(), of a call of the signal handler and of    *)
(* the server thread, and each signal, leaves fewer of them to come, or    *)
(* the process ends; and the clients, who may connect and leave for ever,  *)
(* do not add to them.  With NobodyWaitsForEver, and threads that are      *)
(* scheduled, this is ShutdownCompletes.                                   *)
THEOREM ShutdownProgress == Spec => [][Nearer]_vars
<1> DEFINE Typed == /\ CallsType /\ Total \in Nat
                    /\ CallsLeft \in Nat /\ MainLeft \in Nat /\ ServerLeft \in Nat
<1>1. Inv => Typed
    BY LeftType DEF Inv
<1> HIDE DEF Typed
<1>2. ASSUME Inv, Typed, Typed', Next PROVE Nearer
    <2>1. /\ CallsType /\ CallsType'
          /\ CallsLeft \in Nat /\ MainLeft \in Nat /\ ServerLeft \in Nat
          /\ CallsLeft' \in Nat /\ MainLeft' \in Nat /\ ServerLeft' \in Nat
          /\ MaxSignals \in Nat /\ Total \in Nat /\ Total' \in Nat /\ Total <= MaxSignals
        BY <1>2, CountsAssumption DEF Typed, Inv, SignalInv
    <2>2. /\ Left = 8 * (MaxSignals - Total) + CallsLeft + MainLeft + ServerLeft
          /\ Left' = 8 * (MaxSignals - Total') + CallsLeft' + MainLeft' + ServerLeft'
        BY DEF Left
    <2>3. Left \in Nat
        BY ONLY <2>1 DEF Left
    <2>4. ASSUME Main, process' = "up" PROVE Left' < Left
        <3>1. MainLeft' + ServerLeft' < MainLeft + ServerLeft
            BY <1>2, <2>4, MainNearer
        <3>2. UNCHANGED <<CallsLeft, Total>>
            BY <2>4 DEF Main, calls, CallsLeft, HandlerLeft, OthersLeft, LeftIn, Total
        <3> QED BY <2>1, <2>2, <3>1, <3>2, LeftFalls
    <2>5. ASSUME ServerRuns, process' = "up" PROVE Left' < Left
        <3>1. ServerLeft' < ServerLeft
            BY <1>2, <2>5, ServerNearer
        <3>2. UNCHANGED <<CallsLeft, Total, MainLeft>>
            BY <2>5 DEF ServerRuns, mainVars, calls, CallsLeft, HandlerLeft, OthersLeft, LeftIn,
                        Total, MainLeft
        <3> QED BY <2>1, <2>2, <3>1, <3>2, LeftFalls
    <2>6. ASSUME Signal, UNCHANGED <<mainVars, serverVars, generator>> PROVE Left' < Left
        <3>1. CallsLeft' < CallsLeft + 8
            BY <2>1, <2>6, SignalLeft
        <3>2. UNCHANGED <<MainLeft, ServerLeft>>
            BY <2>6 DEF mainVars, serverVars, MainLeft, ServerLeft
        <3>3. Total' = Total + 1
            <4>1. /\ signals \in [untimely : 0..MaxSignals, timely : 0..MaxSignals]
                  /\ signals.untimely \in Nat /\ signals.timely \in Nat
                BY <1>2, InvTypes
            <4> QED BY <2>6, <4>1 DEF Signal, Total
        <3> QED BY <2>1, <2>2, <3>1, <3>2, <3>3, LeftFalls
    <2>7. ASSUME Handler, process' = "up" PROVE Left' < Left
        <3>1. UNCHANGED <<Total, MainLeft, ServerLeft>>
            BY <2>7 DEF Handler, CloseReactor, SetQuit, JoinServer, ShutdownRos,
                        mainVars, serverVars, Total, MainLeft, ServerLeft
        <3>2. CallsLeft' < CallsLeft
            <4>1. PICK t \in {"main"} \cup Others :
                     CloseReactor(t) \/ SetQuit(t) \/ JoinServer(t) \/ ShutdownRos(t)
                BY <2>7 DEF Handler
            <4> QED BY <2>1, <2>7, <4>1, CallNearer
        <3> QED BY <2>1, <2>2, <3>1, <3>2, LeftFalls
    <2>8. ASSUME Accepts \/ Generators \/ RosKilled PROVE UNCHANGED Left
        <3>1. UNCHANGED <<CallsLeft, Total, MainLeft, ServerLeft>>
            BY <2>8 DEF Accepts, AcceptConnection, Generators, RosKilled, mainVars, serverVars,
                        calls, CallsLeft, HandlerLeft, OthersLeft, LeftIn, Total, MainLeft,
                        ServerLeft
        <3> QED BY <3>1 DEF Left
    <2> QED BY <1>2, <2>3, <2>4, <2>5, <2>6, <2>7, <2>8 DEF Next, Nearer
<1>3. Inv /\ Typed /\ Typed' /\ [Next]_vars => [Nearer]_vars
    BY <1>2
<1> QED BY <1>1, <1>3, Invariance, PTL DEF Spec

=============================================================================
