---------------------------- MODULE NapoleonProofs ----------------------------
(***************************************************************************)
(* Proofs about lab08/napoleon for any number of adjutants, any map, any   *)
(* stack and any register.                                                 *)
(*                                                                         *)
(* A report that was pushed is in one place (ReportInv): on the stack,     *)
(* with one adjutant, or handled; hence the numbers agree (CountInv).  The *)
(* register is only written under its mutex (RegisterInv).  The map is     *)
(* not: while one adjutant moves a division, it stands at most in one      *)
(* place, beyond the rows that were searched (MapInv).                     *)
(***************************************************************************)
EXTENDS Napoleon, TLAPS, FiniteSetTheorems, SequenceTheorems, WellFoundedInduction

Holding(a)  == pc[a] \in {"register", "search", "place"}
Moves(a, i) == pc[a] \in {"search", "place"} /\ idx[a] = i

RegisterInv ==
    /\ \A i, j \in 1..Len(names) : names[i] = names[j] => i = j
    /\ Len(div) = Len(names)
    /\ \A i \in 1..Len(names) : div[i] \in pushed /\ div[i].name = names[i]

\* Every report is in one place.
ReportInv ==
    /\ \A m \in pushed : m.no <= arrived
    /\ handled \subseteq pushed
    /\ \A m \in pushed : \/ m \in handled
                         \/ \E a \in Adjutants : Holding(a) /\ msg[a] = m
                         \/ \E i \in 1..Len(stack) : stack[i] = m
    /\ \A a \in Adjutants : Holding(a) =>
          /\ msg[a] \in pushed \ handled
          /\ \A b \in Adjutants : Holding(b) /\ msg[b] = msg[a] => b = a
    /\ \A i \in 1..Len(stack) :
          /\ stack[i] \in pushed \ handled
          /\ \A a \in Adjutants : Holding(a) => msg[a] # stack[i]
          /\ \A j \in 1..Len(stack) : stack[j] = stack[i] => j = i

CountInv ==
    /\ IsFiniteSet(pushed)
    /\ Cardinality(pushed) = Len(stack) + Cardinality(Held) + Cardinality(handled)

\* Adjutants end when nothing is left to do, and main after them.
EndInv ==
    /\ \A a \in Adjutants : pc[a] = "ended" => ~do_work /\ stack = <<>>
    /\ main = "ended" => \A a \in Adjutants : pc[a] = "ended"

\* What is moved is entered, and stands where it was not searched for yet.
MapInv ==
    /\ \A a \in Adjutants : pc[a] \in {"search", "place"} =>
          msg[a] \in Reports /\ idx[a] \in 1..Len(names)
    /\ \A s \in Rows \X Columns : map[s] # 0 => map[s] \in 1..Len(names)
    /\ \A i \in (1..Len(names)) \ crossed :
          /\ \A a, b \in Adjutants : Moves(a, i) /\ Moves(b, i) => a = b
          /\ \A s, t \in Rows \X Columns : map[s] = i /\ map[t] = i => s = t
          /\ \A a \in Adjutants, s \in Rows \X Columns :
                Moves(a, i) /\ map[s] = i => pc[a] = "search" /\ row[a] <= s[1]

Inv == TypeOK /\ RegisterInv /\ ReportInv /\ CountInv /\ EndInv /\ MapInv
-----------------------------------------------------------------------------
(* Steps. *)

\* The stack when the report on top is taken.
LEMMA FrontFacts ==
    ASSUME NEW S, NEW s \in Seq(S), s # <<>>
    PROVE  /\ Front(s) \in Seq(S) /\ Len(Front(s)) = Len(s) - 1
           /\ \A i \in 1..(Len(s) - 1) : Front(s)[i] = s[i]
           /\ Last(s) = s[Len(s)] /\ Last(s) \in S /\ Len(s) \in 1..Len(s)
<1>1. Len(s) \in Nat \ {0}  OBVIOUS
<1>2. Front(s) = SubSeq(s, 1, Len(s) - 1) /\ Last(s) = s[Len(s)]  BY DEF Front, Last
<1>3. Front(s) \in Seq(S) /\ Len(Front(s)) = Len(s) - 1
  <2>1. \A i \in 1..(Len(s) - 1) : s[i] \in S  BY <1>1
  <2>2. /\ SubSeq(s, 1, Len(s) - 1) \in Seq(S)
        /\ Len(SubSeq(s, 1, Len(s) - 1)) = IF 1 <= Len(s) - 1 THEN Len(s) - 1 - 1 + 1 ELSE 0
    BY <1>1, <2>1, SubSeqProperties
  <2>3. PICK n \in Nat : n = Len(s) /\ n # 0  BY <1>1
  <2>4. (IF 1 <= n - 1 THEN n - 1 - 1 + 1 ELSE 0) = n - 1  BY <2>3
  <2>5. Len(SubSeq(s, 1, Len(s) - 1)) = Len(s) - 1  BY <2>2, <2>3, <2>4
  <2> QED  BY <1>2, <2>2, <2>5
<1>4. \A i \in 1..(Len(s) - 1) : Front(s)[i] = s[i]  BY <1>1, <1>2
<1> QED  BY <1>1, <1>2, <1>3, <1>4

\* What a report says is on the map.
LEMMA ReportFacts ==
    /\ \A r \in Reports : r.no \in 1..MaxReports /\ r.name \in Divisions /\ r.x \in Rows /\ r.y \in Columns
    /\ \A r \in Illegible : r.no \in 1..MaxReports
BY NapoleonAssumption DEF Reports, Illegible, Rows, Columns

\* The signal wakes up one who sleeps, if any does.
Wakes == /\ pc' \in [Adjutants -> {"pop", "asleep", "register", "search", "place", "ended"}]
         /\ \A a \in Adjutants : pc'[a] = pc[a] \/ (pc[a] = "asleep" /\ pc'[a] = "pop")

\* A report that arrives is pushed if there is room.
PushIt(m) == /\ m \notin pushed /\ m.no = arrived + 1 /\ Len(stack) < STACK_SIZE
             /\ stack' = Append(stack, m) /\ pushed' = pushed \union {m}

\* recvfrom in main: the report that arrives is pushed, or is dropped.
LEMMA ReceiveCases ==
    ASSUME TypeOK, ReportInv, Receive
    PROVE  /\ do_work /\ arrived < MaxReports /\ arrived' = arrived + 1 /\ Wakes
           /\ UNCHANGED <<do_work, names, div, map, main, msg, idx, row, napoleon, handled, crossed>>
           /\ UNCHANGED <<stack, pushed>> \/ \E m \in Reports \union Illegible : PushIt(m)
<1>1. pc \in [Adjutants -> {"pop", "asleep", "register", "search", "place", "ended"}]
  BY DEF TypeOK
<1>2. Signal => Wakes  BY <1>1 DEF Signal, Asleep, Wakes
<1>3. UNCHANGED pc => Wakes  BY <1>1 DEF Wakes
<1>4. \A m \in pushed : m.no # arrived + 1
  <2>1. \A m \in pushed : m.no <= arrived /\ m.no \in Int /\ arrived \in Int
    BY ReportFacts DEF TypeOK, ReportInv
  <2> QED  BY <2>1
<1>5. PICK m \in Reports \union Illegible :
         /\ m.no = arrived + 1
         /\ IF Len(stack) < STACK_SIZE
            THEN stack' = Append(stack, m) /\ pushed' = pushed \union {m} /\ Signal
            ELSE UNCHANGED <<stack, pushed, pc>>
  BY DEF Receive
<1>6. UNCHANGED <<stack, pushed>> \/ PushIt(m)  BY <1>4, <1>5 DEF PushIt
<1> QED  BY <1>2, <1>3, <1>5, <1>6 DEF Receive

\* What an adjutant does on its own.
LEMMA PopCases ==
    ASSUME TypeOK, NEW a \in Adjutants, Pop(a)
    PROVE  /\ pc[a] = "pop"
           /\ UNCHANGED <<do_work, arrived, names, div, map, main, idx, row,
                          napoleon, pushed, handled, crossed>>
           /\ \/ /\ stack = <<>> /\ UNCHANGED <<stack, msg>>
                 /\ pc' = [pc EXCEPT ![a] = IF do_work THEN "asleep" ELSE "ended"]
              \/ /\ Len(stack) \in 1..Len(stack)
                 /\ stack' \in Seq(Reports \union Illegible) /\ Len(stack') = Len(stack) - 1
                 /\ \A i \in 1..(Len(stack) - 1) : stack'[i] = stack[i]
                 /\ stack[Len(stack)] \in Reports \union Illegible
                 /\ msg' = [msg EXCEPT ![a] = stack[Len(stack)]]
                 /\ pc' = [pc EXCEPT ![a] = "register"]
<1>1. CASE stack = <<>>  BY <1>1 DEF Pop
<1>2. CASE stack # <<>>
  <2>1. /\ stack' = Front(stack) /\ msg' = [msg EXCEPT ![a] = Last(stack)]
        /\ pc' = [pc EXCEPT ![a] = "register"]
    BY <1>2 DEF Pop
  <2>2. stack \in Seq(Reports \union Illegible)  BY DEF TypeOK
  <2> QED  BY <1>2, <2>1, <2>2, FrontFacts DEF Pop
<1> QED  BY <1>1, <1>2

\* What becomes of a report: it is discarded, entered under a new index, or under an old one.
DiscardIt(a) ==
    /\ pc' = [pc EXCEPT ![a] = "pop"] /\ handled' = handled \union {msg[a]}
    /\ UNCHANGED <<names, div, idx, row, crossed>>
EnterNew(a) ==
    /\ msg[a] \notin Illegible /\ Len(names) # DIVISION_NAMES_SIZE
    /\ \A i \in 1..Len(names) : names[i] # msg[a].name
    /\ names' = Append(names, msg[a].name) /\ div' = Append(div, msg[a]) /\ Enter(a, Len(names) + 1)
EnterOld(a, i) ==
    /\ msg[a] \notin Illegible
    /\ names[i] = msg[a].name
    /\ names' = names /\ div' = [div EXCEPT ![i] = msg[a]] /\ Enter(a, i)

\* An adjutant at the register: the report is discarded, or entered as
\* that of a division that is new or of one that is known.
LEMMA RegisterCases ==
    ASSUME NEW a \in Adjutants, Register(a)
    PROVE  /\ pc[a] = "register"
           /\ UNCHANGED <<do_work, stack, arrived, map, main, msg, napoleon, pushed>>
           /\ DiscardIt(a) \/ EnterNew(a) \/ \E i \in 1..Len(names) : EnterOld(a, i)
<1>1. /\ pc[a] = "register"
      /\ UNCHANGED <<do_work, stack, arrived, map, main, msg, napoleon, pushed>>
  BY DEF Register
<1>2. CASE msg[a] \in Illegible \/ (Find(msg[a].name) = {} /\ Len(names) = DIVISION_NAMES_SIZE)
  <2>1. Discard(a)  BY <1>2 DEF Register
  <2> QED  BY <1>1, <2>1 DEF Discard, Done, DiscardIt
<1>3. CASE msg[a] \notin Illegible /\ Find(msg[a].name) = {} /\ Len(names) # DIVISION_NAMES_SIZE
  <2>1. names' = Append(names, msg[a].name) /\ div' = Append(div, msg[a]) /\ Enter(a, Len(names) + 1)
    BY <1>3 DEF Register
  <2> QED  BY <1>1, <1>3, <2>1 DEF EnterNew, Find
<1>4. CASE msg[a] \notin Illegible /\ Find(msg[a].name) # {}
  <2>1. PICK i \in Find(msg[a].name) : div' = [div EXCEPT ![i] = msg[a]] /\ Enter(a, i) /\ names' = names
    BY <1>4 DEF Register
  <2>2. i \in 1..Len(names) /\ names[i] = msg[a].name  BY DEF Find
  <2> QED  BY <1>1, <1>4, <2>1, <2>2 DEF EnterOld
<1> QED  BY <1>2, <1>3, <1>4

\* An adjutant that enters a division, under index i.
LEMMA EnterFacts ==
    ASSUME TypeOK, NEW a \in Adjutants, NEW i \in Indices, pc[a] = "register", Enter(a, i)
    PROVE  /\ \A b \in Adjutants : idx'[b] = IF b = a THEN i ELSE idx[b]
           /\ \A b \in Adjutants : row'[b] = IF b = a THEN 1 ELSE row[b]
           /\ \A b \in Adjutants : pc'[b] = IF b = a THEN "search" ELSE pc[b]
           /\ handled' = handled /\ crossed \subseteq crossed'
           /\ i \notin crossed' => \A b \in Adjutants : ~Moves(b, i)
BY DEF Enter, TypeOK, Moving, Moves

\* A new entry is appended.
LEMMA NewFacts ==
    ASSUME TypeOK, RegisterInv, ReportInv, NEW a \in Adjutants, pc[a] = "register", EnterNew(a),
           NEW n, n = Len(names)
    PROVE  /\ n \in Nat /\ n + 1 \in Indices /\ msg[a] \in Reports /\ msg[a] \in pushed
           /\ Len(names') = n + 1 /\ Len(div') = n + 1
           /\ \A i \in 1..n : names'[i] = names[i] /\ div'[i] = div[i] /\ names[i] # msg[a].name
           /\ names'[n + 1] = msg[a].name /\ div'[n + 1] = msg[a]
           /\ Enter(a, n + 1)
<1>1. names \in Seq(Divisions) /\ div \in Seq(Reports) /\ Len(div) = n /\ n <= DIVISION_NAMES_SIZE
  BY DEF TypeOK, RegisterInv
<1>2. msg[a] \in pushed /\ msg[a] \in Reports \union Illegible  BY DEF ReportInv, TypeOK, Holding
<1>3. msg[a] \in Reports /\ msg[a].name \in Divisions  BY <1>2, ReportFacts DEF EnterNew
<1>4. n \in Nat /\ n + 1 \in Indices  BY <1>1, NapoleonAssumption DEF EnterNew, Indices
<1>5. names' = Append(names, msg[a].name) /\ div' = Append(div, msg[a])  BY DEF EnterNew
<1>6. /\ Len(names') = n + 1 /\ names'[n + 1] = msg[a].name
      /\ \A i \in 1..n : names'[i] = names[i]
  BY <1>1, <1>3, <1>5, AppendProperties
<1>7. /\ Len(div') = n + 1 /\ div'[n + 1] = msg[a]
      /\ \A i \in 1..n : div'[i] = div[i]
  BY <1>1, <1>3, <1>5, AppendProperties
<1> QED  BY <1>2, <1>3, <1>4, <1>6, <1>7 DEF EnterNew

\* An old entry is replaced.
LEMMA OldFacts ==
    ASSUME TypeOK, RegisterInv, ReportInv, NEW a \in Adjutants, pc[a] = "register",
           NEW i \in 1..Len(names), EnterOld(a, i)
    PROVE  /\ i \in Indices /\ msg[a] \in Reports /\ msg[a] \in pushed
           /\ names' = names /\ names[i] = msg[a].name /\ Len(div') = Len(names)
           /\ \A j \in 1..Len(names) : div'[j] = IF j = i THEN msg[a] ELSE div[j]
           /\ Enter(a, i)
<1>1. names \in Seq(Divisions) /\ div \in Seq(Reports) /\ Len(div) = Len(names)
      /\ Len(names) <= DIVISION_NAMES_SIZE
  BY DEF TypeOK, RegisterInv
<1>2. msg[a] \in pushed /\ msg[a] \in Reports \union Illegible  BY DEF ReportInv, TypeOK, Holding
<1>3. msg[a] \in Reports  BY <1>2 DEF EnterOld
<1>4. i \in Indices  BY <1>1, NapoleonAssumption DEF Indices
<1>5. div' = [div EXCEPT ![i] = msg[a]]  BY DEF EnterOld
<1>6. Len(div') = Len(names) /\ \A j \in 1..Len(names) : div'[j] = IF j = i THEN msg[a] ELSE div[j]
  BY <1>1, <1>3, <1>5, ExceptSeq
<1> QED  BY <1>2, <1>3, <1>4, <1>6 DEF EnterOld

\* Every step is one of these.
LEMMA StepCases ==
    ASSUME [Next]_vars
    PROVE  \/ Receive \/ Sigint \/ Stop \/ Join \/ Leave
           \/ \E a \in Adjutants : Pop(a) \/ Register(a) \/ Search(a) \/ Place(a) \/ WakeUp(a)
           \/ UNCHANGED vars
BY DEF Next, Main, Adjutant, Over

\* Every step keeps the types.
LEMMA TypeStep ==
    ASSUME TypeOK, RegisterInv, ReportInv, MapInv, [Next]_vars
    PROVE  TypeOK'
<1>1. CASE Receive
  <2>1. /\ arrived' \in 0..MaxReports /\ Wakes
        /\ UNCHANGED <<do_work, names, div, map, main, msg, idx, row, napoleon, handled, crossed>>
    BY <1>1, ReceiveCases, NapoleonAssumption DEF TypeOK
  <2>2. /\ stack' \in Seq(Reports \union Illegible) /\ Len(stack') <= STACK_SIZE
        /\ pushed' \subseteq Reports \union Illegible
    <3>1. CASE UNCHANGED <<stack, pushed>>  BY <3>1 DEF TypeOK
    <3>2. ASSUME NEW m \in Reports \union Illegible, PushIt(m)
          PROVE  /\ stack' \in Seq(Reports \union Illegible) /\ Len(stack') <= STACK_SIZE
                 /\ pushed' \subseteq Reports \union Illegible
      <4>1. stack \in Seq(Reports \union Illegible) /\ pushed \subseteq Reports \union Illegible
        BY DEF TypeOK
      <4>2. stack' \in Seq(Reports \union Illegible) /\ Len(stack') = Len(stack) + 1
        BY <3>2, <4>1 DEF PushIt
      <4>3. Len(stack) \in Nat /\ Len(stack) < STACK_SIZE  BY <3>2, <4>1 DEF PushIt
      <4> QED  BY <3>2, <4>1, <4>2, <4>3, NapoleonAssumption DEF PushIt
    <3> QED  BY <1>1, <3>1, <3>2, ReceiveCases
  <2> QED  BY <2>1, <2>2 DEF TypeOK, Wakes
<1>2. CASE Sigint  BY <1>2 DEF Sigint, TypeOK
<1>3. CASE Stop  BY <1>3 DEF Stop, Broadcast, Asleep, TypeOK
<1>4. CASE Join  BY <1>4 DEF Join, TypeOK
<1>5. CASE Leave  BY <1>5 DEF Leave, TypeOK
<1>6. ASSUME NEW a \in Adjutants, Pop(a) PROVE TypeOK'
  <2>1. /\ stack' \in Seq(Reports \union Illegible) /\ Len(stack') <= STACK_SIZE
        /\ msg' \in [Adjutants -> Reports \union Illegible \union {NoReport}]
        /\ pc' \in [Adjutants -> {"pop", "asleep", "register", "search", "place", "ended"}]
    <3>1. /\ stack \in Seq(Reports \union Illegible) /\ Len(stack) <= STACK_SIZE /\ STACK_SIZE \in Nat
          /\ msg \in [Adjutants -> Reports \union Illegible \union {NoReport}]
          /\ pc \in [Adjutants -> {"pop", "asleep", "register", "search", "place", "ended"}]
      BY NapoleonAssumption DEF TypeOK
    <3> QED  BY <1>6, <3>1, PopCases
  <2> QED  BY <1>6, <2>1, PopCases DEF TypeOK
<1>7. ASSUME NEW a \in Adjutants, Register(a) PROVE TypeOK'
  <2>a. /\ msg[a] \in Reports \union Illegible /\ a \in DOMAIN pc
        /\ idx \in [Adjutants -> {0} \union Indices] /\ row \in [Adjutants -> Rows]
        /\ pc \in [Adjutants -> {"pop", "asleep", "register", "search", "place", "ended"}]
        /\ UNCHANGED <<do_work, stack, arrived, map, main, msg, napoleon, pushed>>
    BY <1>7, RegisterCases DEF TypeOK, ReportInv, Holding
  <2>b. 1 \in Rows /\ \A i \in 1..Len(names) : i \in Indices
    BY NapoleonAssumption DEF TypeOK, Rows, Indices
  <2>1. CASE DiscardIt(a)  BY <2>a, <2>1 DEF DiscardIt, TypeOK
  <2>2. ASSUME NEW i \in Indices, Enter(a, i)
        PROVE  /\ idx' \in [Adjutants -> {0} \union Indices] /\ row' \in [Adjutants -> Rows]
               /\ pc' \in [Adjutants -> {"pop", "asleep", "register", "search", "place", "ended"}]
               /\ crossed' \subseteq Indices /\ handled' = handled
    BY <2>2, <2>a, <2>b DEF Enter, TypeOK
  <2>3. CASE EnterNew(a)
    <3>1. msg[a] \in Reports /\ msg[a].name \in Divisions  BY <2>a, <2>3, ReportFacts DEF EnterNew
    <3>2. /\ names' \in Seq(Divisions) /\ Len(names') = Len(names) + 1
          /\ div' \in Seq(Reports) /\ Len(names) \in Nat
      BY <2>3, <3>1 DEF EnterNew, TypeOK
    <3>3. Len(names) + 1 \in Indices /\ Len(names') <= DIVISION_NAMES_SIZE
      BY <2>3, <3>2, NapoleonAssumption DEF EnterNew, TypeOK, Indices
    <3>4. Enter(a, Len(names) + 1)  BY <2>3 DEF EnterNew
    <3> QED  BY <2>a, <2>2, <3>2, <3>3, <3>4 DEF TypeOK
  <2>4. ASSUME NEW i \in 1..Len(names), EnterOld(a, i) PROVE TypeOK'
    <3>1. msg[a] \in Reports  BY <2>a, <2>4 DEF EnterOld
    <3>2. /\ names' = names /\ div' \in Seq(Reports)
      BY <2>4, <3>1, ExceptSeq DEF EnterOld, TypeOK, RegisterInv
    <3>4. Enter(a, i)  BY <2>4 DEF EnterOld
    <3> QED  BY <2>a, <2>b, <2>2, <3>2, <3>4 DEF TypeOK
  <2> QED  BY <1>7, RegisterCases, <2>1, <2>3, <2>4
<1>8. ASSUME NEW a \in Adjutants, Search(a) PROVE TypeOK'
  <2>a. /\ map \in [Rows \X Columns -> {0} \union Indices] /\ row \in [Adjutants -> Rows]
        /\ pc \in [Adjutants -> {"pop", "asleep", "register", "search", "place", "ended"}]
    BY DEF TypeOK
  <2>1. /\ UNCHANGED <<do_work, stack, arrived, names, div, main, msg, idx,
                       napoleon, pushed, handled, crossed>>
        /\ map' \in [Rows \X Columns -> {0} \union Indices]
    BY <1>8, <2>a DEF Search
  <2>2. row' \in [Adjutants -> Rows]
    <3>1. row[a] = Height \/ row[a] + 1 \in Rows  BY <2>a, NapoleonAssumption DEF Rows
    <3> QED  BY <1>8, <2>a, <3>1 DEF Search
  <2>3. pc' \in [Adjutants -> {"pop", "asleep", "register", "search", "place", "ended"}]
    BY <1>8, <2>a DEF Search
  <2> QED  BY <2>1, <2>2, <2>3 DEF TypeOK
<1>9. ASSUME NEW a \in Adjutants, Place(a) PROVE TypeOK'
  <2>a. msg[a] \in Reports /\ idx[a] \in {0} \union Indices /\ <<msg[a].x, msg[a].y>> \in Rows \X Columns
    BY <1>9, ReportFacts DEF Place, MapInv, TypeOK
  <2>1. map' \in [Rows \X Columns -> {0} \union Indices]  BY <1>9, <2>a DEF Place, TypeOK
  <2> QED  BY <1>9, <2>a, <2>1 DEF Place, Done, TypeOK
<1>10. ASSUME NEW a \in Adjutants, WakeUp(a) PROVE TypeOK'
  BY <1>10 DEF WakeUp, TypeOK
<1>11. CASE UNCHANGED vars  BY <1>11 DEF vars, TypeOK
<1> QED
  BY <1>1, <1>2, <1>3, <1>4, <1>5, <1>6, <1>7, <1>8, <1>9, <1>10, <1>11, StepCases

\* Every step keeps the register.
LEMMA RegisterStep ==
    ASSUME TypeOK, RegisterInv, ReportInv, [Next]_vars
    PROVE  RegisterInv'
<1>1. CASE Receive
  BY <1>1, ReceiveCases DEF RegisterInv, PushIt
<1>2. CASE Sigint  BY <1>2 DEF Sigint, RegisterInv
<1>3. CASE Stop  BY <1>3 DEF Stop, Broadcast, Asleep, RegisterInv
<1>4. CASE Join  BY <1>4 DEF Join, RegisterInv
<1>5. CASE Leave  BY <1>5 DEF Leave, RegisterInv
<1>6. ASSUME NEW a \in Adjutants, Pop(a) PROVE RegisterInv'
  BY <1>6, PopCases DEF RegisterInv
<1>7. ASSUME NEW a \in Adjutants, Register(a) PROVE RegisterInv'
  <2>a. pc[a] = "register" /\ pushed' = pushed  BY <1>7, RegisterCases
  <2>1. CASE DiscardIt(a)  BY <2>a, <2>1 DEF DiscardIt, RegisterInv
  <2>2. CASE EnterNew(a)
    <3>1. PICK n : n = Len(names)  OBVIOUS
    <3>2. n \in Nat /\ \A i \in 1..(n + 1) : i \in 1..n \/ i = n + 1
      BY <2>a, <2>2, <3>1, NewFacts
    <3>3. /\ Len(names') = n + 1 /\ Len(div') = n + 1 /\ msg[a] \in pushed
          /\ \A i \in 1..n : names'[i] = names[i] /\ div'[i] = div[i] /\ names[i] # msg[a].name
          /\ names'[n + 1] = msg[a].name /\ div'[n + 1] = msg[a]
      BY <2>a, <2>2, <3>1, NewFacts
    <3>4. \A i, j \in 1..(n + 1) : names'[i] = names'[j] => i = j
      BY <3>1, <3>2, <3>3 DEF RegisterInv
    <3>5. \A i \in 1..(n + 1) : div'[i] \in pushed /\ div'[i].name = names'[i]
      BY <3>1, <3>2, <3>3 DEF RegisterInv
    <3> QED  BY <2>a, <3>3, <3>4, <3>5 DEF RegisterInv
  <2>3. ASSUME NEW i \in 1..Len(names), EnterOld(a, i) PROVE RegisterInv'
    BY <2>a, <2>3, OldFacts DEF RegisterInv
  <2> QED  BY <1>7, RegisterCases, <2>1, <2>2, <2>3
<1>8. ASSUME NEW a \in Adjutants, Search(a) PROVE RegisterInv'
  BY <1>8 DEF Search, RegisterInv
<1>9. ASSUME NEW a \in Adjutants, Place(a) PROVE RegisterInv'
  BY <1>9 DEF Place, Done, RegisterInv
<1>10. ASSUME NEW a \in Adjutants, WakeUp(a) PROVE RegisterInv'
  BY <1>10 DEF WakeUp, RegisterInv
<1>11. CASE UNCHANGED vars  BY <1>11 DEF vars, RegisterInv
<1> QED
  BY <1>1, <1>2, <1>3, <1>4, <1>5, <1>6, <1>7, <1>8, <1>9, <1>10, <1>11, StepCases

\* Every step keeps the order in which the threads end.
LEMMA EndStep ==
    ASSUME TypeOK, ReportInv, EndInv, [Next]_vars
    PROVE  EndInv'
<1>1. CASE Receive
  <2>a. /\ do_work /\ do_work' = do_work /\ Wakes /\ main' = main  BY <1>1, ReceiveCases
  <2>b. main # "ended" /\ \A a \in Adjutants : pc'[a] # "ended"
    BY <2>a, <1>1, NapoleonAssumption DEF EndInv, Wakes, Receive
  <2> QED  BY <2>a, <2>b DEF EndInv
<1>2. CASE Sigint  BY <1>2 DEF Sigint, EndInv, TypeOK
<1>3. CASE Stop  BY <1>3 DEF Stop, Broadcast, Asleep, EndInv, TypeOK
<1>4. CASE Join  BY <1>4 DEF Join, EndInv, TypeOK
<1>5. CASE Leave  BY <1>5 DEF Leave, EndInv, TypeOK
<1>6. ASSUME NEW a \in Adjutants, Pop(a) PROVE EndInv'
  <2>a. pc[a] = "pop" /\ do_work' = do_work /\ main' = main  BY <1>6, PopCases
  <2>b. main # "ended"  BY <2>a DEF EndInv
  <2>c. pc \in [Adjutants -> {"pop", "asleep", "register", "search", "place", "ended"}]
    BY DEF TypeOK
  <2>1. CASE stack = <<>>
    <3>1. /\ pc' = [pc EXCEPT ![a] = IF do_work THEN "asleep" ELSE "ended"] /\ stack' = stack
      BY <1>6, <2>1 DEF Pop
    <3> QED  BY <2>1, <2>a, <2>b, <2>c, <3>1 DEF EndInv
  <2>2. CASE stack # <<>>
    <3>1. \A b \in Adjutants : pc[b] # "ended"  BY <2>2 DEF EndInv
    <3>2. pc' = [pc EXCEPT ![a] = "register"]  BY <1>6, <2>2 DEF Pop
    <3>3. \A b \in Adjutants : pc'[b] # "ended"  BY <2>c, <3>1, <3>2
    <3> QED  BY <2>a, <2>b, <3>3 DEF EndInv
  <2> QED  BY <2>1, <2>2
<1>7. ASSUME NEW a \in Adjutants, Register(a) PROVE EndInv'
  <2>1. /\ pc[a] = "register" /\ UNCHANGED <<do_work, stack, main>>
        /\ \A b \in Adjutants : pc'[b] # "ended" \/ pc'[b] = pc[b]
    BY <1>7, RegisterCases DEF DiscardIt, EnterNew, EnterOld, Enter, TypeOK
  <2> QED  BY <2>1 DEF EndInv
<1>8. ASSUME NEW a \in Adjutants, Search(a) PROVE EndInv'
  BY <1>8 DEF Search, EndInv, TypeOK
<1>9. ASSUME NEW a \in Adjutants, Place(a) PROVE EndInv'
  BY <1>9 DEF Place, Done, EndInv, TypeOK
<1>10. ASSUME NEW a \in Adjutants, WakeUp(a) PROVE EndInv'
  BY <1>10 DEF WakeUp, EndInv, TypeOK
<1>11. CASE UNCHANGED vars  BY <1>11 DEF vars, EndInv, TypeOK
<1> QED
  BY <1>1, <1>2, <1>3, <1>4, <1>5, <1>6, <1>7, <1>8, <1>9, <1>10, <1>11, StepCases

-----------------------------------------------------------------------------
(* The reports. *)

\* For the reports a step is one of four: nothing happens to them, main pushes one, an adjutant
\* takes the one on top, or is done with the one it has.
Quiet == /\ \A b \in Adjutants : Holding(b)' <=> Holding(b)
         /\ UNCHANGED <<msg, stack, pushed, handled>> /\ arrived' \in {arrived, arrived + 1}
Push(m) == /\ PushIt(m) /\ arrived' = arrived + 1
           /\ \A b \in Adjutants : Holding(b)' <=> Holding(b)
           /\ UNCHANGED <<msg, handled>>
Take(a) == /\ ~Holding(a) /\ Holding(a)' /\ msg'[a] = stack[Len(stack)]
           /\ Len(stack) \in 1..Len(stack) /\ Len(stack') = Len(stack) - 1
           /\ \A i \in 1..(Len(stack) - 1) : stack'[i] = stack[i]
           /\ \A b \in Adjutants \ {a} : (Holding(b)' <=> Holding(b)) /\ msg'[b] = msg[b]
           /\ UNCHANGED <<arrived, pushed, handled>>
Finish(a) == /\ Holding(a) /\ ~(Holding(a)') /\ handled' = handled \union {msg[a]}
             /\ \A b \in Adjutants \ {a} : Holding(b)' <=> Holding(b)
             /\ UNCHANGED <<arrived, pushed, stack, msg>>

\* Every step is one of them.
LEMMA ReportCases ==
    ASSUME TypeOK, ReportInv, [Next]_vars
    PROVE  \/ Quiet
           \/ \E m \in Reports \union Illegible : Push(m)
           \/ \E a \in Adjutants : Take(a) \/ Finish(a)
<1>a. /\ pc \in [Adjutants -> {"pop", "asleep", "register", "search", "place", "ended"}]
      /\ msg \in [Adjutants -> Reports \union Illegible \union {NoReport}]
  BY DEF TypeOK
<1>1. CASE Receive
  <2>1. \A b \in Adjutants : Holding(b)' <=> Holding(b)  BY <1>1, ReceiveCases DEF Wakes, Holding
  <2> QED  BY <1>1, <2>1, ReceiveCases DEF Quiet, Push
<1>2. CASE Sigint \/ Join \/ Leave \/ UNCHANGED vars
  BY <1>2 DEF Sigint, Join, Leave, vars, Quiet, Holding
<1>3. CASE Stop
  <2>1. \A b \in Adjutants : Holding(b)' <=> Holding(b)
    BY <1>3, <1>a DEF Stop, Broadcast, Asleep, Holding
  <2> QED  BY <1>3, <2>1 DEF Stop, Quiet
<1>4. ASSUME NEW a \in Adjutants, Pop(a) PROVE Quiet \/ Take(a)
  <2>1. /\ pc[a] = "pop" /\ UNCHANGED <<arrived, pushed, handled>>  BY <1>4, PopCases
  <2>2. CASE stack = <<>>
    <3>1. /\ UNCHANGED <<stack, msg>>
          /\ pc' = [pc EXCEPT ![a] = IF do_work THEN "asleep" ELSE "ended"]
      BY <1>4, <2>2 DEF Pop
    <3>2. \A b \in Adjutants : Holding(b)' <=> Holding(b)  BY <1>a, <2>1, <3>1 DEF Holding
    <3> QED  BY <2>1, <3>1, <3>2 DEF Quiet
  <2>3. CASE stack # <<>>
    <3>1. /\ msg' = [msg EXCEPT ![a] = Last(stack)] /\ pc' = [pc EXCEPT ![a] = "register"]
          /\ stack' = Front(stack)
      BY <1>4, <2>3 DEF Pop
    <3>2. stack \in Seq(Reports \union Illegible)  BY DEF TypeOK
    <3>3. /\ ~Holding(a) /\ Holding(a)'
          /\ \A b \in Adjutants \ {a} : (Holding(b)' <=> Holding(b)) /\ msg'[b] = msg[b]
          /\ msg'[a] = Last(stack)
      BY <1>a, <2>1, <3>1 DEF Holding
    <3> QED  BY <2>1, <2>3, <3>1, <3>2, <3>3, FrontFacts DEF Take
  <2> QED  BY <2>2, <2>3
<1>5. ASSUME NEW a \in Adjutants, Holding(a),
             pc' = [pc EXCEPT ![a] = "pop"], handled' = handled \union {msg[a]},
             UNCHANGED <<arrived, pushed, stack, msg>>
      PROVE  Finish(a)
  BY <1>5, <1>a DEF Finish, Holding
<1>6. ASSUME NEW a \in Adjutants, Register(a) PROVE Quiet \/ Finish(a)
  <2>1. pc[a] = "register" /\ UNCHANGED <<arrived, stack, msg, pushed>>  BY <1>6, RegisterCases
  <2>2. CASE DiscardIt(a)  BY <1>5, <2>1, <2>2 DEF DiscardIt, Holding
  <2>3. ASSUME NEW i, Enter(a, i) PROVE Quiet
    <3>1. pc' = [pc EXCEPT ![a] = "search"] /\ handled' = handled  BY <2>3 DEF Enter
    <3>2. \A b \in Adjutants : Holding(b)' <=> Holding(b)  BY <1>a, <2>1, <3>1 DEF Holding
    <3> QED  BY <2>1, <3>1, <3>2 DEF Quiet
  <2> QED  BY <1>6, RegisterCases, <2>2, <2>3 DEF EnterNew, EnterOld
<1>7. ASSUME NEW a \in Adjutants, Search(a) PROVE Quiet
  <2>1. \A b \in Adjutants : Holding(b)' <=> Holding(b)  BY <1>7, <1>a DEF Search, Holding
  <2> QED  BY <1>7, <2>1 DEF Search, Quiet
<1>8. ASSUME NEW a \in Adjutants, Place(a) PROVE Finish(a)
  BY <1>8, <1>5 DEF Place, Done, Holding
<1>9. ASSUME NEW a \in Adjutants, WakeUp(a) PROVE Quiet
  <2>1. \A b \in Adjutants : Holding(b)' <=> Holding(b)  BY <1>9, <1>a DEF WakeUp, Holding
  <2> QED  BY <1>9, <2>1 DEF WakeUp, Quiet
<1> QED  BY <1>1, <1>2, <1>3, <1>4, <1>6, <1>7, <1>8, <1>9, StepCases

\* Every step leaves a report in one place.
LEMMA ReportStep == ASSUME TypeOK, ReportInv, [Next]_vars PROVE ReportInv'
<1>a. \A m \in pushed : m.no \in Int  BY ReportFacts DEF TypeOK
<1>b. arrived \in Int /\ Len(stack) \in Nat  BY DEF TypeOK
<1>1. CASE Quiet
  <2>1. \A m \in pushed : m.no <= arrived'  BY <1>1, <1>a, <1>b DEF Quiet, ReportInv
  <2> QED  BY <1>1, <2>1 DEF Quiet, ReportInv
<1>2. ASSUME NEW m \in Reports \union Illegible, Push(m) PROVE ReportInv'
  <2>1. PICK n \in Nat : n = Len(stack)  BY <1>b
  <2>2. /\ Len(stack') = n + 1 /\ stack'[n + 1] = m /\ m \notin pushed
        /\ \A i \in 1..n : stack'[i] = stack[i]
        /\ pushed' = pushed \union {m} /\ m.no = arrived + 1 /\ arrived' = arrived + 1
        /\ msg' = msg /\ handled' = handled
    BY <1>2, <2>1, AppendProperties DEF Push, PushIt, TypeOK
  <2>3. \A i \in 1..(n + 1) : i \in 1..n \/ i = n + 1  BY <2>1
  <2>4. \A b \in Adjutants : Holding(b)' <=> Holding(b)  BY <1>2 DEF Push
  <2>5. \A p \in pushed' : p.no <= arrived'  BY <2>2, <1>a, <1>b DEF ReportInv
  <2>6. handled \subseteq pushed'  BY <2>2 DEF ReportInv
  <2>7. ASSUME NEW p \in pushed'
        PROVE  \/ p \in handled
               \/ \E b \in Adjutants : Holding(b) /\ msg[b] = p
               \/ \E i \in 1..(n + 1) : stack'[i] = p
    <3>1. CASE p = m  BY <3>1, <2>1, <2>2
    <3>2. CASE p \in pushed
      <4>1. \A i \in 1..n : i \in 1..(n + 1)  BY <2>1
      <4> QED  BY <3>2, <4>1, <2>1, <2>2 DEF ReportInv
    <3> QED  BY <3>1, <3>2, <2>2
  <2>8. \A b \in Adjutants : Holding(b) =>
          /\ msg[b] \in pushed' \ handled
          /\ \A c \in Adjutants : Holding(c) /\ msg[c] = msg[b] => c = b
    BY <2>2 DEF ReportInv
  <2>9. ASSUME NEW i \in 1..(n + 1)
        PROVE  /\ stack'[i] \in pushed' \ handled
               /\ \A b \in Adjutants : Holding(b) => msg[b] # stack'[i]
               /\ \A j \in 1..(n + 1) : stack'[j] = stack'[i] => j = i
    <3>1. CASE i \in 1..n
      BY <2>1, <2>2, <2>3, <3>1 DEF ReportInv
    <3>2. CASE i = n + 1
      BY <2>1, <2>2, <2>3, <3>2 DEF ReportInv
    <3> QED  BY <2>3, <3>1, <3>2
  <2> QED  BY <2>2, <2>4, <2>5, <2>6, <2>7, <2>8, <2>9 DEF ReportInv
<1>3. ASSUME NEW a \in Adjutants, Take(a) PROVE ReportInv'
  <2>1. PICK n \in Nat : n = Len(stack) /\ n \in 1..n  BY <1>b, <1>3 DEF Take
  <2>2. /\ Len(stack') = n - 1 /\ \A i \in 1..(n - 1) : stack'[i] = stack[i] /\ i \in 1..n /\ i # n
        /\ ~Holding(a) /\ Holding(a)' /\ msg'[a] = stack[n]
        /\ \A b \in Adjutants \ {a} : (Holding(b)' <=> Holding(b)) /\ msg'[b] = msg[b]
        /\ arrived' = arrived /\ pushed' = pushed /\ handled' = handled
    BY <1>3, <2>1 DEF Take
  <2>3. \A i \in 1..n : i \in 1..(n - 1) \/ i = n  BY <2>1
  <2>4. ASSUME NEW p \in pushed
        PROVE  \/ p \in handled
               \/ \E b \in Adjutants : Holding(b)' /\ msg'[b] = p
               \/ \E i \in 1..(n - 1) : stack'[i] = p
    <3>1. CASE \E b \in Adjutants : Holding(b) /\ msg[b] = p  BY <2>2, <3>1
    <3>2. CASE \E i \in 1..n : stack[i] = p  BY <2>2, <2>3, <3>2
    <3> QED  BY <3>1, <3>2, <2>1 DEF ReportInv
  <2>5. ASSUME NEW b \in Adjutants, Holding(b)'
        PROVE  /\ msg'[b] \in pushed \ handled
               /\ \A c \in Adjutants : Holding(c)' /\ msg'[c] = msg'[b] => c = b
    <3>1. stack[n] \in pushed \ handled /\ \A c \in Adjutants : Holding(c) => msg[c] # stack[n]
      BY <2>1 DEF ReportInv
    <3>2. CASE b = a  BY <2>2, <3>1, <3>2
    <3>3. CASE b # a
      <4>1. Holding(b) /\ msg'[b] = msg[b]  BY <2>2, <2>5, <3>3
      <4>2. msg[b] \in pushed \ handled /\ \A c \in Adjutants : Holding(c) /\ msg[c] = msg[b] => c = b
        BY <4>1 DEF ReportInv
      <4> QED  BY <2>2, <3>1, <4>1, <4>2
    <3> QED  BY <3>2, <3>3
  <2>6. ASSUME NEW i \in 1..(n - 1)
        PROVE  /\ stack'[i] \in pushed \ handled
               /\ \A b \in Adjutants : Holding(b)' => msg'[b] # stack'[i]
               /\ \A j \in 1..(n - 1) : stack'[j] = stack'[i] => j = i
    <3>1. i \in 1..n /\ i # n /\ stack'[i] = stack[i]  BY <2>2
    <3>2. /\ stack[i] \in pushed \ handled
          /\ \A b \in Adjutants : Holding(b) => msg[b] # stack[i]
          /\ \A j \in 1..n : stack[j] = stack[i] => j = i
      BY <2>1, <3>1 DEF ReportInv
    <3>3. n \in 1..n /\ stack[n] # stack[i]  BY <2>1, <3>1, <3>2
    <3>4. \A j \in 1..(n - 1) : j \in 1..n /\ stack'[j] = stack[j]  BY <2>2
    <3>5. \A j \in 1..(n - 1) : stack'[j] = stack'[i] => j = i  BY <3>1, <3>2, <3>4
    <3>6. \A b \in Adjutants : Holding(b)' => msg'[b] # stack'[i]
      <4>1. msg'[a] # stack'[i]  BY <2>2, <3>1, <3>3
      <4> QED  BY <2>2, <3>1, <3>2, <4>1
    <3> QED  BY <3>1, <3>2, <3>5, <3>6
  <2>7. (\A m \in pushed : m.no <= arrived) /\ handled \subseteq pushed  BY DEF ReportInv
  <2> QED  BY <2>2, <2>4, <2>5, <2>6, <2>7 DEF ReportInv
<1>4. ASSUME NEW a \in Adjutants, Finish(a) PROVE ReportInv'
  BY <1>4 DEF Finish, ReportInv
<1> QED  BY <1>1, <1>2, <1>3, <1>4, ReportCases

\* Every step keeps the numbers.
LEMMA CountStep == ASSUME TypeOK, ReportInv, CountInv, [Next]_vars PROVE CountInv'
<1>a. /\ IsFiniteSet(pushed) /\ IsFiniteSet(Held) /\ IsFiniteSet(handled)
      /\ Cardinality(pushed) \in Nat /\ Cardinality(Held) \in Nat /\ Cardinality(handled) \in Nat
  BY FS_Subset, FS_CardinalityType, NapoleonAssumption DEF CountInv, Held, ReportInv
<1>b. Len(stack) \in Nat  BY DEF TypeOK
<1>c. /\ Held = {b \in Adjutants : Holding(b)}
      /\ Held' = {b \in Adjutants : Holding(b)'}
  BY DEF Held, Holding
<1>d. Cardinality(pushed) = Len(stack) + Cardinality(Held) + Cardinality(handled)  BY DEF CountInv
<1>1. CASE Quiet
  <2>1. Held' = Held  BY <1>1, <1>c DEF Quiet
  <2> QED  BY <1>1, <2>1 DEF Quiet, CountInv
<1>2. ASSUME NEW m \in Reports \union Illegible, Push(m) PROVE CountInv'
  <2>1. Held' = Held /\ handled' = handled  BY <1>2, <1>c DEF Push
  <2>2. Len(stack') = Len(stack) + 1  BY <1>2, AppendProperties DEF Push, PushIt, TypeOK
  <2>3. m \notin pushed /\ pushed' = pushed \union {m}  BY <1>2 DEF Push, PushIt
  <2>4. IsFiniteSet(pushed') /\ Cardinality(pushed') = Cardinality(pushed) + 1
    BY <1>a, <2>3, FS_AddElement
  <2>5. Cardinality(pushed') = Len(stack') + Cardinality(Held') + Cardinality(handled')
    BY <1>a, <1>b, <1>d, <2>1, <2>2, <2>4
  <2> QED  BY <2>4, <2>5 DEF CountInv
<1>3. ASSUME NEW a \in Adjutants, Take(a) PROVE CountInv'
  <2>1. Held' = Held \union {a} /\ a \notin Held  BY <1>3, <1>c DEF Take
  <2>2. Cardinality(Held') = Cardinality(Held) + 1  BY <1>a, <2>1, FS_AddElement
  <2>3. Len(stack') = Len(stack) - 1 /\ pushed' = pushed /\ handled' = handled  BY <1>3 DEF Take
  <2>4. Cardinality(pushed') = Len(stack') + Cardinality(Held') + Cardinality(handled')
    BY <1>a, <1>b, <1>d, <2>2, <2>3
  <2> QED  BY <1>a, <2>3, <2>4 DEF CountInv
<1>4. ASSUME NEW a \in Adjutants, Finish(a) PROVE CountInv'
  <2>1. Held' = Held \ {a} /\ a \in Held  BY <1>4, <1>c DEF Finish
  <2>2. Cardinality(Held') = Cardinality(Held) - 1  BY <1>a, <2>1, FS_RemoveElement
  <2>3. msg[a] \notin handled /\ handled' = handled \union {msg[a]}  BY <1>4 DEF Finish, ReportInv
  <2>4. Cardinality(handled') = Cardinality(handled) + 1  BY <1>a, <2>3, FS_AddElement
  <2>5. stack' = stack /\ pushed' = pushed  BY <1>4 DEF Finish
  <2>6. Cardinality(pushed') = Len(stack') + Cardinality(Held') + Cardinality(handled')
    BY <1>a, <1>b, <1>d, <2>2, <2>4, <2>5
  <2> QED  BY <1>a, <2>5, <2>6 DEF CountInv
<1> QED  BY <1>1, <1>2, <1>3, <1>4, ReportCases

-----------------------------------------------------------------------------
(* The map. *)

\* A step that leaves the map, the register and who moves what alone.
LEMMA MapKept ==
    ASSUME TypeOK, MapInv, UNCHANGED <<map, names, crossed, idx, row>>,
           \A b \in Adjutants : \/ pc'[b] = pc[b] /\ msg'[b] = msg[b]
                                \/ pc[b] \notin {"search", "place"} /\ pc'[b] \notin {"search", "place"}
    PROVE  MapInv'
BY DEF MapInv, Moves

\* The columns of a row where a division stands have a first one.
LEMMA Smallest ==
    ASSUME NEW S \in SUBSET Nat, S # {}
    PROVE  (CHOOSE y \in S : \A z \in S : y <= z) \in S
<1>1. IsWellFoundedOn(OpToRel(<, Nat), Nat)  BY NatLessThanWellFounded, Zenon
<1>2. PICK y \in S : \A z \in S : ~(<<z, y>> \in OpToRel(<, Nat))  BY <1>1, WFMin, Zenon
<1>3. \A z \in S : ~(z < y)  BY <1>2 DEF OpToRel
<1>4. \A z \in S : y <= z  BY <1>3
<1> QED  BY <1>4

\* A search takes the division off one place of the row, or goes on to the next one, if any.
LEMMA SearchFacts ==
    ASSUME TypeOK, NEW a \in Adjutants, Search(a)
    PROVE  /\ pc[a] = "search" /\ UNCHANGED <<names, msg, idx, crossed>>
           /\ \A b \in Adjutants \ {a} : pc'[b] = pc[b] /\ row'[b] = row[b]
           /\ \/ /\ \A y \in Columns : map[<<row[a], y>>] # idx[a]
                 /\ map' = map
                 /\ \/ row[a] = Height /\ pc'[a] = "place"
                    \/ row[a] + 1 \in Rows /\ row'[a] = row[a] + 1 /\ pc'[a] = "search"
              \/ /\ pc'[a] = "place"
                 /\ \E c \in Rows \X Columns : map[c] = idx[a] /\ map' = [map EXCEPT ![c] = 0]
<1> DEFINE here == {y \in Columns : map[<<row[a], y>>] = idx[a]}
           first == CHOOSE y \in here : \A z \in here : y <= z
<1>a. /\ pc \in [Adjutants -> {"pop", "asleep", "register", "search", "place", "ended"}]
      /\ row \in [Adjutants -> Rows]
  BY DEF TypeOK
<1>1. /\ pc[a] = "search" /\ UNCHANGED <<names, msg, idx, crossed>>
      /\ map' = IF here = {} THEN map ELSE [map EXCEPT ![<<row[a], first>>] = 0]
      /\ IF here # {} \/ row[a] = Height
         THEN pc' = [pc EXCEPT ![a] = "place"] /\ UNCHANGED row
         ELSE row' = [row EXCEPT ![a] = @ + 1] /\ UNCHANGED pc
  BY DEF Search
<1>2. \A b \in Adjutants \ {a} : pc'[b] = pc[b] /\ row'[b] = row[b]  BY <1>1, <1>a
<1>3. CASE here = {}
  <2>1. row[a] = Height \/ row[a] + 1 \in Rows  BY <1>a, NapoleonAssumption DEF Rows
  <2>2. \A y \in Columns : map[<<row[a], y>>] # idx[a]  BY <1>3
  <2> HIDE DEF here
  <2> QED  BY <1>1, <1>2, <1>3, <1>a, <2>1, <2>2
<1>4. CASE here # {}
  <2>1. here \in SUBSET Nat  BY NapoleonAssumption DEF Columns
  <2>2. first \in here  BY <1>4, <2>1, Smallest
  <2>3. \A y \in here : y \in Columns /\ map[<<row[a], y>>] = idx[a]  OBVIOUS
  <2> HIDE DEF here, first
  <2>4. first \in Columns /\ map[<<row[a], first>>] = idx[a]  BY <2>2, <2>3
  <2>5. <<row[a], first>> \in Rows \X Columns  BY <1>a, <2>4
  <2> QED  BY <1>1, <1>2, <1>4, <1>a, <2>4, <2>5
<1> QED  BY <1>3, <1>4

\* Every step keeps the map right, where no two adjutants have moved a division at a time.
LEMMA MapStep == ASSUME TypeOK, RegisterInv, ReportInv, MapInv, [Next]_vars PROVE MapInv'
<1>a. /\ pc \in [Adjutants -> {"pop", "asleep", "register", "search", "place", "ended"}]
      /\ map \in [Rows \X Columns -> {0} \union Indices]
      /\ \A b \in Adjutants : row[b] \in Rows
  BY DEF TypeOK
<1>b. Rows \subseteq Int /\ \A r \in Rows : 1 <= r /\ r <= Height
  BY NapoleonAssumption DEF Rows
<1>c. 0 \notin 1..Len(names) /\ Len(names) \in Nat  BY DEF TypeOK
<1>1. CASE Receive  BY <1>1, ReceiveCases, MapKept DEF Wakes
<1>2. CASE Sigint \/ Join \/ Leave \/ UNCHANGED vars
  BY <1>2, MapKept DEF Sigint, Join, Leave, vars
<1>3. CASE Stop
  <2>1. \A b \in Adjutants : \/ pc'[b] = pc[b]
                             \/ pc[b] \notin {"search", "place"} /\ pc'[b] \notin {"search", "place"}
    BY <1>3, <1>a DEF Stop, Broadcast, Asleep
  <2> QED  BY <1>3, <2>1, MapKept DEF Stop
<1>4. ASSUME NEW a \in Adjutants, Pop(a) \/ WakeUp(a) PROVE MapInv'
  <2>1. /\ UNCHANGED <<map, names, crossed, idx, row>>
        /\ \A b \in Adjutants : \/ pc'[b] = pc[b] /\ msg'[b] = msg[b]
                                \/ pc[b] \notin {"search", "place"} /\ pc'[b] \notin {"search", "place"}
    BY <1>4, <1>a, PopCases DEF WakeUp, TypeOK
  <2> QED  BY <2>1, MapKept
<1>5. ASSUME NEW a \in Adjutants, Register(a) PROVE MapInv'
  <2>a. pc[a] = "register" /\ UNCHANGED <<map, msg>>  BY <1>5, RegisterCases
  <2>1. CASE DiscardIt(a)
    <3>1. pc' = [pc EXCEPT ![a] = "pop"] /\ UNCHANGED <<map, msg, names, idx, row, crossed>>
      BY <2>a, <2>1 DEF DiscardIt
    <3> QED  BY <1>a, <2>a, <3>1, MapKept
  <2>2. ASSUME NEW n \in Nat, NEW k \in Indices, msg[a] \in Reports, Len(names') = n, k \in 1..n,
               Enter(a, k),
               1..Len(names) \subseteq 1..n,
               \A j \in 1..n : j # k => j \in 1..Len(names),
               k \in 1..Len(names) \/ \A s \in Rows \X Columns : map[s] # k
        PROVE  MapInv'
    <3>1. /\ \A b \in Adjutants : idx'[b] = IF b = a THEN k ELSE idx[b]
          /\ \A b \in Adjutants : row'[b] = IF b = a THEN 1 ELSE row[b]
          /\ \A b \in Adjutants : pc'[b] = IF b = a THEN "search" ELSE pc[b]
          /\ crossed \subseteq crossed'
          /\ k \notin crossed' => \A b \in Adjutants : ~Moves(b, k)
      BY <2>a, <2>2, EnterFacts
    <3>2. \A b \in Adjutants : pc'[b] \in {"search", "place"} => msg'[b] \in Reports /\ idx'[b] \in 1..n
      BY <2>a, <2>2, <3>1 DEF MapInv
    <3>3. \A s \in Rows \X Columns : map'[s] # 0 => map'[s] \in 1..n  BY <2>a, <2>2 DEF MapInv
    <3>4. \A b \in Adjutants, j \in 1..n : Moves(b, j)' <=> (b = a /\ j = k) \/ (b # a /\ Moves(b, j))
      BY <3>1 DEF Moves
    <3>5. ASSUME NEW j \in (1..n) \ crossed'
          PROVE  /\ \A b, c \in Adjutants : Moves(b, j)' /\ Moves(c, j)' => b = c
                 /\ \A s, t \in Rows \X Columns : map[s] = j /\ map[t] = j => s = t
                 /\ \A b \in Adjutants, s \in Rows \X Columns :
                       Moves(b, j)' /\ map[s] = j => pc'[b] = "search" /\ row'[b] <= s[1]
      <4>1. CASE j # k
        <5>1. j \in (1..Len(names)) \ crossed  BY <2>2, <3>1, <4>1
        <5>2. \A b \in Adjutants : Moves(b, j)' => Moves(b, j) /\ b # a  BY <3>4, <4>1
        <5> QED  BY <3>1, <5>1, <5>2 DEF MapInv
      <4>2. CASE j = k
        <5>1. \A b \in Adjutants : Moves(b, j)' => b = a  BY <3>1, <3>4, <4>2
        <5>2. \A s, t \in Rows \X Columns : map[s] = j /\ map[t] = j => s = t
          BY <2>2, <3>1, <4>2 DEF MapInv
        <5>3. \A s \in Rows \X Columns : 1 <= s[1]  BY <1>b
        <5> QED  BY <3>1, <5>1, <5>2, <5>3
      <4> QED  BY <4>1, <4>2
    <3> QED  BY <2>a, <2>2, <3>2, <3>3, <3>5 DEF MapInv
  <2>3. CASE EnterNew(a)
    <3>1. PICK n : n = Len(names)  OBVIOUS
    <3>2. n \in Nat /\ n + 1 \in Indices /\ msg[a] \in Reports /\ Len(names') = n + 1 /\ Enter(a, n + 1)
      BY <2>a, <2>3, <3>1, NewFacts
    <3>3. /\ n + 1 \in 1..(n + 1) /\ 1..n \subseteq 1..(n + 1) /\ n + 1 \in Nat
          /\ \A j \in 1..(n + 1) : j # n + 1 => j \in 1..n
      BY <3>2
    <3>4. n + 1 \notin 1..n /\ n + 1 # 0  BY <3>2
    <3>5. \A s \in Rows \X Columns : map[s] # n + 1  BY <3>1, <3>4 DEF MapInv
    <3> QED  BY <2>2, <3>1, <3>2, <3>3, <3>5
  <2>4. ASSUME NEW i \in 1..Len(names), EnterOld(a, i) PROVE MapInv'
    <3>1. i \in Indices /\ msg[a] \in Reports /\ names' = names /\ Enter(a, i)
      BY <2>a, <2>4, OldFacts
    <3> QED  BY <1>c, <2>2, <3>1
  <2> QED  BY <1>5, RegisterCases, <2>1, <2>3, <2>4
<1>6. ASSUME NEW a \in Adjutants, Search(a) PROVE MapInv'
  <2>1. /\ pc[a] = "search" /\ UNCHANGED <<names, msg, idx, crossed>>
        /\ \A b \in Adjutants \ {a} : pc'[b] = pc[b] /\ row'[b] = row[b]
        /\ pc'[a] \in {"search", "place"}
        /\ \A s \in Rows \X Columns : map'[s] = map[s] \/ map'[s] = 0
    BY <1>6, <1>a, SearchFacts
  <2>2. \A b \in Adjutants, j \in 1..Len(names) : Moves(b, j)' <=> Moves(b, j)  BY <2>1 DEF Moves
  <2>3. ASSUME NEW j \in (1..Len(names)) \ crossed, NEW s \in Rows \X Columns, map'[s] = j
        PROVE  /\ map[s] = j
               /\ \A b \in Adjutants : Moves(b, j) => pc'[b] = "search" /\ row'[b] <= s[1]
    <3>1. map[s] = j  BY <1>c, <2>1, <2>3
    <3>2. CASE j # idx[a]  BY <2>1, <3>1, <3>2 DEF MapInv, Moves
    <3>3. CASE j = idx[a]
      <4>1. Moves(a, j)  BY <2>1, <3>3 DEF Moves
      <4>2. row[a] <= s[1] /\ \A b \in Adjutants : Moves(b, j) => b = a  BY <3>1, <4>1 DEF MapInv
      <4>3. s[1] \in Rows /\ s[2] \in Columns /\ s = <<s[1], s[2]>>  OBVIOUS
      <4>4. CASE /\ \A y \in Columns : map[<<row[a], y>>] # idx[a]
                 /\ \/ row[a] = Height /\ pc'[a] = "place"
                    \/ row[a] + 1 \in Rows /\ row'[a] = row[a] + 1 /\ pc'[a] = "search"
        <5>1. s[1] # row[a]  BY <3>1, <3>3, <4>3, <4>4
        <5>2. row[a] \in Int /\ s[1] \in Int /\ s[1] <= Height  BY <1>a, <1>b, <4>3
        <5>3. Height \in Int  BY NapoleonAssumption
        <5>4. PICK r \in Int, x \in Int : r = row[a] /\ x = s[1] /\ r <= x /\ r # x /\ x <= Height
          BY <4>2, <5>1, <5>2
        <5>5. r # Height /\ r + 1 <= x  BY <5>3, <5>4
        <5> QED  BY <3>1, <4>2, <4>4, <5>4, <5>5
      <4>5. ASSUME NEW c \in Rows \X Columns, map[c] = idx[a], map' = [map EXCEPT ![c] = 0] PROVE FALSE
        <5>1. c = s  BY <3>1, <3>3, <4>5 DEF MapInv
        <5>2. map'[s] = 0  BY <1>a, <4>5, <5>1
        <5> QED  BY <1>c, <2>3, <5>2
      <4> QED  BY <1>6, <4>4, <4>5, SearchFacts
    <3> QED  BY <3>2, <3>3
  <2>4. \A b \in Adjutants : pc'[b] \in {"search", "place"} =>
          msg'[b] \in Reports /\ idx'[b] \in 1..Len(names')
    BY <2>1 DEF MapInv
  <2>5. \A s \in Rows \X Columns : map'[s] # 0 => map'[s] \in 1..Len(names')  BY <2>1 DEF MapInv
  <2> QED  BY <2>1, <2>2, <2>3, <2>4, <2>5 DEF MapInv
<1>7. ASSUME NEW a \in Adjutants, Place(a) PROVE MapInv'
  <2> DEFINE c == <<msg[a].x, msg[a].y>>
  <2>1. /\ pc[a] = "place" /\ UNCHANGED <<names, msg, idx, row, crossed>>
        /\ \A b \in Adjutants : pc'[b] = IF b = a THEN "pop" ELSE pc[b]
        /\ map' = [map EXCEPT ![c] = idx[a]]
    BY <1>7, <1>a DEF Place, Done
  <2>2. idx[a] \in 1..Len(names) /\ c \in Rows \X Columns  BY <2>1, ReportFacts DEF MapInv
  <2>3. \A s \in Rows \X Columns : map'[s] = IF s = c THEN idx[a] ELSE map[s]  BY <1>a, <2>1, <2>2
  <2> HIDE DEF c
  <2>4. \A b \in Adjutants, j \in 1..Len(names) : Moves(b, j)' <=> b # a /\ Moves(b, j)
    BY <2>1 DEF Moves
  <2>5. \A b \in Adjutants : pc'[b] \in {"search", "place"} =>
          msg'[b] \in Reports /\ idx'[b] \in 1..Len(names')
    BY <2>1 DEF MapInv
  <2>6. \A s \in Rows \X Columns : map'[s] # 0 => map'[s] \in 1..Len(names')
    BY <2>1, <2>2, <2>3 DEF MapInv
  <2>7. ASSUME NEW j \in (1..Len(names)) \ crossed
        PROVE  /\ \A b, d \in Adjutants : Moves(b, j)' /\ Moves(d, j)' => b = d
               /\ \A s, t \in Rows \X Columns : map'[s] = j /\ map'[t] = j => s = t
               /\ \A b \in Adjutants, s \in Rows \X Columns :
                     Moves(b, j)' /\ map'[s] = j => pc'[b] = "search" /\ row'[b] <= s[1]
    <3>1. CASE j # idx[a]
      <4>1. \A s \in Rows \X Columns : map'[s] = j => map[s] = j  BY <2>3, <3>1
      <4> QED  BY <2>1, <2>4, <4>1 DEF MapInv
    <3>2. CASE j = idx[a]
      <4>1. Moves(a, j)  BY <2>1, <3>2 DEF Moves
      <4>2. \A s \in Rows \X Columns : map[s] # j  BY <2>1, <4>1 DEF MapInv
      <4>3. \A b \in Adjutants : ~(Moves(b, j)')  BY <2>4, <4>1 DEF MapInv
      <4> QED  BY <2>3, <4>2, <4>3
    <3> QED  BY <3>1, <3>2
  <2> QED  BY <2>1, <2>5, <2>6, <2>7 DEF MapInv
<1> QED  BY <1>1, <1>2, <1>3, <1>4, <1>5, <1>6, <1>7, StepCases

-----------------------------------------------------------------------------
(* The program. *)

\* The invariant holds when the staff starts.
LEMMA InitInv == ASSUME Init PROVE Inv
<1>1. TypeOK
  <2>1. <<>> \in Seq(Reports \union Illegible) /\ <<>> \in Seq(Divisions) /\ <<>> \in Seq(Reports)  OBVIOUS
  <2>2. Len(<<>>) = 0 /\ 1 \in Rows  BY NapoleonAssumption DEF Rows
  <2> QED  BY <2>1, <2>2, NapoleonAssumption DEF Init, TypeOK
<1>2. RegisterInv /\ ReportInv /\ EndInv  BY DEF Init, RegisterInv, ReportInv, EndInv, Holding
<1>3. CountInv
  <2>1. Held = {}  BY DEF Init, Held
  <2> QED  BY <2>1, FS_EmptySet DEF Init, CountInv
<1>4. MapInv  BY DEF Init, MapInv, Moves
<1> QED  BY <1>1, <1>2, <1>3, <1>4 DEF Inv

\* The invariant is inductive.
LEMMA InvStep == ASSUME Inv, [Next]_vars PROVE Inv'
BY TypeStep, RegisterStep, ReportStep, CountStep, EndStep, MapStep DEF Inv

\* The inductive invariant of lab08/napoleon.
THEOREM Invariant == Spec => []Inv
<1>1. Init => Inv  BY InitInv
<1>2. Inv /\ [Next]_vars => Inv'  BY InvStep
<1> QED  BY <1>1, <1>2, PTL DEF Spec

\* Type correctness: neither the stack nor the register runs over, and what moves on the map
\* stays on it.
THEOREM TypeCorrect == Spec => []TypeOK
<1>1. Inv => TypeOK  BY DEF Inv
<1> QED  BY <1>1, Invariant, PTL

\* div_mutex: no division is entered twice, and its address and side are its own.
THEOREM RegisterRight == Spec => []OneIndexPerName
<1>1. Inv => OneIndexPerName  BY DEF Inv, RegisterInv, OneIndexPerName
<1> QED  BY <1>1, Invariant, PTL

\* The row locks: a division that no two adjutants have moved at a time stands in one place at
\* most, and in none when it is to be placed, though no adjutant ever locks the whole map.
THEOREM MapRight == Spec => []OnePlace
<1> DEFINE Places(i) == {s \in DOMAIN map : map[s] = i}
<1>1. ASSUME Inv, NEW i \in (1..Len(names)) \ crossed PROVE Cardinality(Places(i)) <= 1
  <2>1. DOMAIN map = Rows \X Columns  BY <1>1 DEF Inv, TypeOK
  <2>2. \A s, t \in Places(i) : s = t  BY <1>1, <2>1 DEF Inv, MapInv
  <2> HIDE DEF Places
  <2>3. CASE Places(i) = {}  BY <2>3, FS_EmptySet
  <2>4. ASSUME NEW s \in Places(i) PROVE Cardinality(Places(i)) <= 1
    <3>1. Places(i) = {s}  BY <2>2, <2>4
    <3>2. Cardinality({s}) = 1  BY FS_Singleton
    <3> QED  BY <3>1, <3>2
  <2> QED  BY <2>3, <2>4
<1>2. ASSUME Inv, NEW a \in Adjutants, pc[a] = "place", idx[a] \notin crossed PROVE Places(idx[a]) = {}
  <2>1. DOMAIN map = Rows \X Columns  BY <1>2 DEF Inv, TypeOK
  <2>2. idx[a] \in (1..Len(names)) \ crossed /\ Moves(a, idx[a])  BY <1>2 DEF Inv, MapInv, Moves
  <2>3. \A s \in Rows \X Columns : map[s] # idx[a]  BY <1>2, <2>2 DEF Inv, MapInv
  <2> QED  BY <2>1, <2>3
<1>3. Inv => OnePlace  BY <1>1, <1>2 DEF OnePlace
<1> QED  BY <1>3, Invariant, PTL

\* A report that was pushed is handled by one adjutant, once, also when SIGINT comes first.
THEOREM ReportsHandled == Spec => []EveryReportOnce
<1>1. ASSUME Inv PROVE pushed = ToSet(stack) \union {msg[a] : a \in Held} \union handled
  <2>1. ToSet(stack) = {stack[i] : i \in 1..Len(stack)}  BY <1>1 DEF ToSet, Inv, TypeOK
  <2>2. Held = {a \in Adjutants : Holding(a)}  BY DEF Held, Holding
  <2>3. pushed \subseteq ToSet(stack) \union {msg[a] : a \in Held} \union handled
    BY <1>1, <2>1, <2>2 DEF Inv, ReportInv
  <2>4. ToSet(stack) \subseteq pushed /\ {msg[a] : a \in Held} \subseteq pushed /\ handled \subseteq pushed
    BY <1>1, <2>1, <2>2 DEF Inv, ReportInv
  <2> QED  BY <2>3, <2>4
<1>2. ASSUME Inv, main = "ended" PROVE pushed = handled
  <2>1. PICK a \in Adjutants : TRUE  BY NapoleonAssumption
  <2>2. \A b \in Adjutants : pc[b] = "ended"  BY <1>2 DEF Inv, EndInv
  <2>3. stack = <<>> /\ Held = {}  BY <1>2, <2>1, <2>2 DEF Inv, EndInv, Held
  <2>4. ToSet(stack) = {}  BY <2>3 DEF ToSet
  <2> QED  BY <1>1, <1>2, <2>3, <2>4
<1>3. Inv => EveryReportOnce  BY <1>1, <1>2 DEF EveryReportOnce, Inv, CountInv
<1> QED  BY <1>3, Invariant, PTL
=============================================================================
