------------------------------ MODULE UdpProofs ------------------------------
(***************************************************************************)
(* Proofs about lab08/lab for every set of clients, every file length,     *)
(* every number of slots and of attempts, and any loss, delay and          *)
(* reordering of datagrams: what is printed is in order, and what a client *)
(* takes for confirmed was printed.                                        *)
(*                                                                         *)
(* The inductive invariant relates a busy slot to the printed text of its  *)
(* client (SlotInv): the text ends with the slot's chunk number, or, when  *)
(* the slot is new, is empty or ends with the last chunk.  Echoes and      *)
(* receive buffers only name printed chunks (EchoInv).                     *)
(***************************************************************************)
EXTENDS UdpTransfer, TLAPS, SequenceTheorems

Printed(c, k) == \E n \in 1..Len(printed[c]) : printed[c][n] = k

\* The printed text of c is empty or complete.
AtEnd(c) == printed[c] = <<>> \/ printed[c][Len(printed[c])] = Last[c]

SlotInv ==
    /\ \A c \in Clients : Mine(c) = {} => AtEnd(c)
    /\ \A c \in Clients : \A i \in Mine(c) :
          /\ con[i].chunkNo = 0 => AtEnd(c)
          /\ con[i].chunkNo # 0 => /\ printed[c] # <<>>
                                   /\ printed[c][Len(printed[c])] = con[i].chunkNo
          /\ \A k \in 1..con[i].chunkNo : Printed(c, k)

EchoInv ==
    /\ \A c \in Clients : \A k \in Chunks(c) : ack[c][k] > 0 => Printed(c, k)
    /\ \A c \in Clients : recvbuf[c] # 0 => Printed(c, recvbuf[c])

\* A client sends only while it has attempts left.
AttemptsLeft == \A c \in Clients : pc[c] = "send" => counter[c] <= Retries

Inv == TypeOK /\ AttemptsLeft /\ OneSlotEach /\ InOrder /\ SlotInv /\ EchoInv /\ ConfirmedIsPrinted

Slot == [free : BOOLEAN, chunkNo : Nat, addr : Clients \union {NoAddr}]

-----------------------------------------------------------------------------
(* The pieces of one step of the server. *)

\* What findIndex leaves: a busy slot of c, and no other, that agrees with what is printed.
Claimed(c, i, t) ==
    /\ i \in Slots /\ t \in [Slots -> Slot]
    /\ ~t[i].free /\ t[i].addr = c
    /\ \A j \in Slots \ {i} : t[j] = con[j] /\ j \notin Mine(c)
    /\ con[i].free \/ con[i].addr = c
    /\ t[i].chunkNo = 0 => AtEnd(c)
    /\ t[i].chunkNo # 0 => /\ printed[c] # <<>>
                           /\ printed[c][Len(printed[c])] = t[i].chunkNo
    /\ \A k \in 1..t[i].chunkNo : Printed(c, k)

\* findIndex finds the slot of c or claims one for a client whose text is complete.
LEMMA FindIndexClaims ==
    ASSUME TypeOK, OneSlotEach, SlotInv, NEW c \in Clients, NEW i \in FindIndex(c)
    PROVE  Claimed(c, i, Table(c, i))
<1>0. con \in [Slots -> Slot]
  BY DEF TypeOK, Slot
<1>1. CASE Mine(c) # {}
  <2>1. i \in Mine(c) /\ i \in Slots /\ ~con[i].free /\ con[i].addr = c
    BY <1>1 DEF FindIndex, Mine
  <2>2. Table(c, i) = con
    BY <2>1 DEF Table
  <2>3. \A j \in Slots \ {i} : j \notin Mine(c)
    BY <2>1 DEF OneSlotEach
  <2> QED
    BY <1>0, <2>1, <2>2, <2>3 DEF Claimed, SlotInv
<1>2. CASE Mine(c) = {}
  <2>1. i \in Slots /\ con[i].free
    BY <1>2 DEF FindIndex, Free
  <2> DEFINE new == [free |-> FALSE, chunkNo |-> 0, addr |-> c]
  <2>2. Table(c, i) = [con EXCEPT ![i] = new]
    BY <2>1 DEF Table
  <2>3. new \in Slot
    BY DEF Slot
  <2>4. AtEnd(c)
    BY <1>2 DEF SlotInv
  <2>5. /\ Table(c, i) \in [Slots -> Slot]
        /\ Table(c, i)[i] = new
        /\ \A j \in Slots \ {i} : Table(c, i)[j] = con[j]
    BY <1>0, <2>1, <2>2, <2>3
  <2> QED
    BY <1>2, <2>1, <2>4, <2>5 DEF Claimed
<1> QED
  BY <1>1, <1>2

\* A change of one slot that c has or takes concerns no other client.
LEMMA OthersKeep ==
    ASSUME con \in [Slots -> Slot], con' \in [Slots -> Slot],
           NEW c \in Clients, NEW i \in Slots,
           \A j \in Slots \ {i} : con'[j] = con[j] /\ j \notin Mine(c),
           con[i].free \/ con[i].addr = c,
           con'[i].free \/ con'[i].addr = c
    PROVE  /\ Mine(c)' = IF con'[i].free THEN {} ELSE {i}
           /\ \A d \in Clients \ {c} :
                 Mine(d)' = Mine(d) /\ \A j \in Mine(d) : con'[j] = con[j]
<1>1. ASSUME NEW j \in Slots PROVE j \in Mine(c)' <=> j = i /\ ~con'[i].free
  <2>1. CASE j = i
    BY <2>1 DEF Mine
  <2>2. CASE j # i
    BY <2>2 DEF Mine
  <2> QED
    BY <2>1, <2>2
<1>2. ASSUME NEW d \in Clients \ {c} PROVE i \notin Mine(d) /\ i \notin Mine(d)'
  BY DEF Mine
<1>3. ASSUME NEW d \in Clients \ {c}, NEW j \in Slots
      PROVE  j \in Mine(d)' <=> j \in Mine(d)
  BY <1>2 DEF Mine
<1>4. \A d \in Clients \ {c} : Mine(d)' = Mine(d)
  BY <1>3 DEF Mine
<1>5. Mine(c)' = IF con'[i].free THEN {} ELSE {i}
  BY <1>1 DEF Mine
<1> QED
  BY <1>2, <1>4, <1>5 DEF Mine

\* Printing appends: what was printed stays printed.
LEMMA PrintAppends ==
    ASSUME printed \in [Clients -> Seq(Nat)], NEW c \in Clients, NEW k \in Nat,
           printed' = [printed EXCEPT ![c] = Append(@, k)]
    PROVE  /\ printed' \in [Clients -> Seq(Nat)]
           /\ printed'[c] = Append(printed[c], k)
           /\ \A d \in Clients \ {c} : printed'[d] = printed[d]
           /\ printed'[c] # <<>> /\ printed'[c][Len(printed'[c])] = k
           /\ Printed(c, k)'
           /\ \A d \in Clients, m \in Nat : Printed(d, m) => Printed(d, m)'
<1>1. /\ printed' \in [Clients -> Seq(Nat)]
      /\ printed'[c] = Append(printed[c], k)
      /\ \A d \in Clients \ {c} : printed'[d] = printed[d]
  OBVIOUS
<1>2. /\ Len(printed'[c]) = Len(printed[c]) + 1
      /\ printed'[c][Len(printed[c]) + 1] = k
      /\ \A n \in 1..Len(printed[c]) : printed'[c][n] = printed[c][n]
      /\ Len(printed[c]) \in Nat
  BY <1>1
<1>3. printed'[c] # <<>>
  BY <1>1, <1>2
<1>4. Printed(c, k)'
  BY <1>2 DEF Printed
<1>5. ASSUME NEW d \in Clients, NEW m \in Nat, Printed(d, m) PROVE Printed(d, m)'
  <2>1. PICK n \in 1..Len(printed[d]) : printed[d][n] = m
    BY <1>5 DEF Printed
  <2>2. n \in 1..Len(printed'[d]) /\ printed'[d][n] = m
    BY <1>1, <1>2, <2>1
  <2> QED
    BY <2>2 DEF Printed
<1> QED
  BY <1>1, <1>2, <1>3, <1>4, <1>5
-----------------------------------------------------------------------------
(* The invariant is inductive. *)

\* The invariant holds before anything is sent.
LEMMA InitInv == Init => Inv
<1> SUFFICES ASSUME Init PROVE Inv
  OBVIOUS
<1>a. /\ Last \in [Clients -> Nat \ {0}] /\ MAXADDR \in Nat \ {0} /\ Retries \in Nat
      /\ NoAddr \notin Clients
  BY UdpAssumption
<1> USE <1>a
<1>1. \A c \in Clients : Mine(c) = {} /\ printed[c] = <<>>
  BY DEF Init, Mine
<1>2. TypeOK /\ AttemptsLeft
  BY DEF Init, TypeOK, AttemptsLeft, Chunks
<1>3. OneSlotEach /\ InOrder
  BY <1>1 DEF OneSlotEach, InOrder
<1>4. SlotInv
  BY <1>1 DEF SlotInv, AtEnd
<1>5. EchoInv
  BY DEF Init, EchoInv
<1>6. ConfirmedIsPrinted
  BY DEF Init, ConfirmedIsPrinted, Chunks
<1> QED
  BY <1>2, <1>3, <1>4, <1>5, <1>6 DEF Inv

\* What the table and the printed text say survives a step that leaves both alone.
LEMMA ServerRests ==
    ASSUME OneSlotEach, InOrder, SlotInv, UNCHANGED <<con, printed>>
    PROVE  OneSlotEach' /\ InOrder' /\ SlotInv'
           /\ \A c \in Clients, k \in Nat : Printed(c, k) => Printed(c, k)'
<1>1. \A c \in Clients : Mine(c)' = Mine(c) /\ (AtEnd(c) <=> AtEnd(c)')
  BY DEF Mine, AtEnd
<1>2. \A c \in Clients : \A k : Printed(c, k) <=> Printed(c, k)'
  BY DEF Printed
<1>3. OneSlotEach'
  BY <1>1 DEF OneSlotEach
<1>4. InOrder'
  BY DEF InOrder
<1>5. SlotInv'
  BY <1>1, <1>2 DEF SlotInv
<1> QED
  BY <1>2, <1>3, <1>4, <1>5

\* A client that comes back from recv with r in its buffer goes on only when the chunk it
\* sent is r, which was printed.
LEMMA ReturnedStep ==
    ASSUME Inv, NEW c \in Clients, NEW r \in Nat, r # 0 => Printed(c, r), Returned(c, r),
           DOMAIN ack' = Clients, \A d \in Clients : ack'[d] \in [Chunks(d) -> Nat],
           \A d \in Clients : \A k \in Chunks(d) : ack'[d][k] <= ack[d][k]
    PROVE  Inv'
<1>a. /\ Last \in [Clients -> Nat \ {0}] /\ MAXADDR \in Nat \ {0} /\ Retries \in Nat
      /\ NoAddr \notin Clients
  BY UdpAssumption
<1> USE <1>a
<1>0. TypeOK /\ AttemptsLeft /\ OneSlotEach /\ InOrder /\ SlotInv /\ EchoInv /\ ConfirmedIsPrinted
  BY DEF Inv
<1>1. UNCHANGED <<con, printed>>
  BY DEF Returned
<1>2. /\ OneSlotEach' /\ InOrder' /\ SlotInv'
      /\ \A d \in Clients, k \in Nat : Printed(d, k) => Printed(d, k)'
  BY <1>0, <1>1, ServerRests
<1>t. /\ pc \in [Clients -> {"send", "recv", "no_alarm", "sent", "gave_up"}]
      /\ chunkNo \in [Clients -> Nat] /\ \A d \in Clients : chunkNo[d] \in 1..Last[d]
      /\ counter \in [Clients -> 0..(Retries + 1)]
      /\ recvbuf \in [Clients -> Nat]
  BY <1>0 DEF TypeOK, Chunks
<1>k. \/ /\ r = chunkNo[c] /\ chunkNo[c] < Last[c]
         /\ pc' = [pc EXCEPT ![c] = "send"]
         /\ chunkNo' = [chunkNo EXCEPT ![c] = @ + 1]
         /\ counter' = [counter EXCEPT ![c] = 0]
         /\ recvbuf' = [recvbuf EXCEPT ![c] = 0]
      \/ /\ r = chunkNo[c] /\ chunkNo[c] = Last[c]
         /\ pc' = [pc EXCEPT ![c] = "sent"]
         /\ chunkNo' = chunkNo /\ counter' = counter /\ recvbuf' = recvbuf
      \/ /\ r # chunkNo[c]
         /\ \/ pc' = [pc EXCEPT ![c] = "send"] /\ counter[c] <= Retries
            \/ pc' = [pc EXCEPT ![c] = "gave_up"]
         /\ recvbuf' = [recvbuf EXCEPT ![c] = r]
         /\ chunkNo' = chunkNo /\ counter' = counter
  BY DEF Returned, Confirmed, MayRetry
<1>3. TypeOK'
  <2>1. pc' \in [Clients -> {"send", "recv", "no_alarm", "sent", "gave_up"}]
    BY <1>t, <1>k
  <2>2. chunkNo' \in [Clients -> Nat] /\ counter' \in [Clients -> 0..(Retries + 1)]
    BY <1>t, <1>k
  <2>3. recvbuf' \in [Clients -> Nat]
    BY <1>t, <1>k
  <2>4. \A d \in Clients : chunkNo'[d] \in 1..Last[d]
    BY <1>t, <1>k
  <2>5. \A d \in Clients : req'[d] \in [Chunks(d) -> Nat]
    BY <1>0 DEF TypeOK, Returned
  <2>6. DOMAIN req' = Clients
    BY <1>0 DEF TypeOK, Returned
  <2> QED
    BY <1>0, <1>1, <2>1, <2>2, <2>3, <2>4, <2>5, <2>6 DEF TypeOK, Chunks
<1>6. AttemptsLeft'
  BY <1>0, <1>t, <1>k DEF AttemptsLeft
<1>4. EchoInv'
  <2>1. \A d \in Clients : \A k \in Chunks(d) : ack'[d][k] > 0 => Printed(d, k)'
    <3> SUFFICES ASSUME NEW d \in Clients, NEW k \in Chunks(d), ack'[d][k] > 0
                 PROVE  Printed(d, k)'
      OBVIOUS
    <3>1. ack[d] \in [Chunks(d) -> Nat] /\ ack'[d] \in [Chunks(d) -> Nat]
      BY <1>0 DEF TypeOK
    <3>3. ack[d][k] \in Nat /\ ack'[d][k] \in Nat /\ k \in Nat
      BY <3>1 DEF Chunks
    <3>2. Printed(d, k)
      BY <1>0, <3>3 DEF EchoInv
    <3> QED
      BY <1>2, <3>2, <3>3
  <2>2. \A d \in Clients : recvbuf'[d] # 0 => Printed(d, recvbuf'[d])
    BY <1>0, <1>t, <1>k DEF EchoInv
  <2>3. \A d \in Clients : recvbuf'[d] \in Nat
    BY <1>3 DEF TypeOK
  <2> QED
    BY <1>2, <2>1, <2>2, <2>3 DEF EchoInv
<1>5. ConfirmedIsPrinted'
  <2> SUFFICES ASSUME NEW d \in Clients, NEW k \in Chunks(d),
                      k < chunkNo'[d] \/ pc'[d] = "sent"
               PROVE  Printed(d, k)'
    BY DEF ConfirmedIsPrinted, Printed
  <2>1. k \in Nat /\ chunkNo[d] \in Nat /\ k \in 1..Last[d]
    BY <1>t DEF Chunks
  <2>2. \/ k < chunkNo[d] \/ pc[d] = "sent"
        \/ d = c /\ Confirmed(c, r) /\ k = chunkNo[c]
    <3>1. CASE d = c /\ Confirmed(c, r)
      <4>1. r = chunkNo[c]
        BY <3>1 DEF Confirmed
      <4>2. k <= chunkNo[c]
        BY <1>t, <1>k, <2>1, <3>1, <4>1
      <4>3. d = c
        BY <3>1
      <4>4. k < chunkNo[d] \/ k = chunkNo[c]
        BY <2>1, <4>2, <4>3
      <4> QED
        BY <3>1, <4>4
    <3>2. CASE ~(d = c /\ Confirmed(c, r))
      <4>1. d # c \/ r # chunkNo[c]
        BY <3>2 DEF Confirmed
      <4>2. chunkNo'[d] = chunkNo[d]
        BY <1>t, <1>k, <4>1
      <4>3. pc'[d] = "sent" => pc[d] = "sent"
        BY <1>t, <1>k, <4>1
      <4> QED
        BY <4>2, <4>3
    <3> QED
      BY <3>1, <3>2
  <2>3. CASE k < chunkNo[d] \/ pc[d] = "sent"
    BY <1>0, <1>2, <2>1, <2>3 DEF ConfirmedIsPrinted, Printed
  <2>4. CASE d = c /\ Confirmed(c, r) /\ k = chunkNo[c]
    <3>1. r = k /\ r # 0
      BY <2>1, <2>4 DEF Confirmed
    <3> QED
      BY <1>2, <2>1, <2>4, <3>1
  <2> QED
    BY <2>2, <2>3, <2>4
<1> QED
  BY <1>2, <1>3, <1>4, <1>5, <1>6 DEF Inv

\* A client that sends, or misses its alarm.
LEMMA SendStep ==
    ASSUME Inv, NEW c \in Clients, Send(c) \/ AlarmMissed(c)
    PROVE  Inv'
<1>a. Retries \in Nat
  BY UdpAssumption
<1>0. TypeOK /\ AttemptsLeft /\ OneSlotEach /\ InOrder /\ SlotInv /\ EchoInv /\ ConfirmedIsPrinted
  BY DEF Inv
<1>1. UNCHANGED <<chunkNo, recvbuf, ack, con, printed>>
  BY DEF Send, AlarmMissed
<1>2. /\ OneSlotEach' /\ InOrder' /\ SlotInv'
      /\ \A d \in Clients, k \in Nat : Printed(d, k) => Printed(d, k)'
  BY <1>0, <1>1, ServerRests
<1>3. /\ pc \in [Clients -> {"send", "recv", "no_alarm", "sent", "gave_up"}]
      /\ counter \in [Clients -> 0..(Retries + 1)]
      /\ \A d \in Clients : req[d] \in [Chunks(d) -> Nat] /\ chunkNo[d] \in Chunks(d)
  BY <1>0 DEF TypeOK
<1>4. /\ pc' \in [Clients -> {"send", "recv", "no_alarm", "sent", "gave_up"}]
      /\ \A d \in Clients : pc'[d] \in {"send", "sent"} => pc'[d] = pc[d] /\ counter'[d] = counter[d]
  BY <1>3 DEF Send, AlarmMissed
<1>5. counter' \in [Clients -> 0..(Retries + 1)]
  BY <1>a, <1>0, <1>3 DEF Send, AlarmMissed, AttemptsLeft
<1>6. \A d \in Clients : req'[d] \in [Chunks(d) -> Nat]
  <2>1. CASE UNCHANGED req
    BY <1>3, <2>1
  <2>2. CASE req' = [req EXCEPT ![c][chunkNo[c]] = @ + 1]
    <3> SUFFICES ASSUME NEW d \in Clients PROVE req'[d] \in [Chunks(d) -> Nat]
      OBVIOUS
    <3>2. CASE d # c
      BY <1>3, <2>2, <3>2, <1>0 DEF TypeOK
    <3>3. CASE d = c
      BY <1>3, <2>2, <3>3 DEF TypeOK
    <3> QED
      BY <3>2, <3>3
  <2> QED
    BY <2>1, <2>2 DEF Send, AlarmMissed
<1>7. TypeOK'
  <2>1. DOMAIN req' = Clients
    BY <1>0 DEF TypeOK, Send, AlarmMissed
  <2> QED
    BY <1>0, <1>1, <1>4, <1>5, <1>6, <2>1 DEF TypeOK
<1>8. AttemptsLeft'
  BY <1>0, <1>4 DEF AttemptsLeft
<1>9. EchoInv'
  BY <1>0, <1>1, <1>2 DEF EchoInv, TypeOK, Chunks
<1>10. ConfirmedIsPrinted'
  BY <1>0, <1>1, <1>2, <1>4 DEF ConfirmedIsPrinted, Printed
<1> QED
  BY <1>2, <1>7, <1>8, <1>9, <1>10 DEF Inv

\* The server's step keeps the invariant when it drops the datagram: no slot, or a chunk ahead.
LEMMA DroppedStep ==
    ASSUME Inv, UNCHANGED <<clientVars, ack, con, printed>>,
           DOMAIN req' = Clients, \A d \in Clients : req'[d] \in [Chunks(d) -> Nat]
    PROVE  Inv'
<1>0. TypeOK /\ AttemptsLeft /\ OneSlotEach /\ InOrder /\ SlotInv /\ EchoInv /\ ConfirmedIsPrinted
  BY DEF Inv
<1>1. /\ OneSlotEach' /\ InOrder' /\ SlotInv'
      /\ \A d \in Clients, k \in Nat : Printed(d, k) => Printed(d, k)'
  BY <1>0, ServerRests
<1>2. TypeOK' /\ AttemptsLeft'
  BY <1>0 DEF TypeOK, AttemptsLeft, clientVars
<1>3. EchoInv' /\ ConfirmedIsPrinted'
  BY <1>0, <1>1 DEF EchoInv, ConfirmedIsPrinted, Printed, clientVars
<1> QED
  BY <1>1, <1>2, <1>3 DEF Inv

\* The table and the text after the server has taken chunk k of c in slot i.
LEMMA TakeChunkStep ==
    ASSUME Inv, NEW c \in Clients, NEW k \in Chunks(c), NEW i, NEW t, Claimed(c, i, t),
           TakeChunk(c, k, i, t)
    PROVE  /\ con' \in [Slots -> Slot] /\ printed' \in [Clients -> Seq(Nat)]
           /\ OneSlotEach' /\ InOrder' /\ SlotInv'
           /\ \A d \in Clients, m \in Nat : Printed(d, m) => Printed(d, m)'
           /\ ack' = ack \/ (Echo(c, k) /\ Printed(c, k)')
<1>a. Last \in [Clients -> Nat \ {0}]
  BY UdpAssumption
<1>0. TypeOK /\ OneSlotEach /\ InOrder /\ SlotInv
  BY DEF Inv
<1>1. /\ con \in [Slots -> Slot] /\ printed \in [Clients -> Seq(Nat)]
      /\ k \in Nat /\ k # 0 /\ Last[c] \in Nat /\ Last[c] # 0
  BY <1>a, <1>0 DEF TypeOK, Slot, Chunks
<1>2. /\ i \in Slots /\ t \in [Slots -> Slot] /\ ~t[i].free /\ t[i].addr = c
      /\ \A j \in Slots \ {i} : t[j] = con[j] /\ j \notin Mine(c)
      /\ con[i].free \/ con[i].addr = c
      /\ t[i].chunkNo = 0 => AtEnd(c)
      /\ t[i].chunkNo # 0 => printed[c] # <<>> /\ printed[c][Len(printed[c])] = t[i].chunkNo
      /\ \A m \in 1..t[i].chunkNo : Printed(c, m)
      /\ t[i].chunkNo \in Nat
  BY DEF Claimed, Slot

\* The other clients, in either case.
<1>3. ASSUME con' \in [Slots -> Slot], \A j \in Slots \ {i} : con'[j] = con[j],
             con'[i].free \/ con'[i].addr = c,
             \A d \in Clients \ {c} : printed'[d] = printed[d]
      PROVE  /\ Mine(c)' = IF con'[i].free THEN {} ELSE {i}
             /\ \A d \in Clients \ {c} :
                   Mine(d)' = Mine(d) /\ \A j \in Mine(d) : con'[j] = con[j]
             /\ \A d \in Clients \ {c} : AtEnd(d) <=> AtEnd(d)'
             /\ \A d \in Clients \ {c} : \A m : Printed(d, m) <=> Printed(d, m)'
             /\ OneSlotEach'
  <2>1. /\ Mine(c)' = IF con'[i].free THEN {} ELSE {i}
        /\ \A d \in Clients \ {c} :
              Mine(d)' = Mine(d) /\ \A j \in Mine(d) : con'[j] = con[j]
    <3>1. \A j \in Slots \ {i} : con'[j] = con[j] /\ j \notin Mine(c)
      BY <1>2, <1>3
    <3> QED
      BY <1>1, <1>2, <1>3, <3>1, OthersKeep
  <2>2. OneSlotEach'
    BY <1>0, <2>1 DEF OneSlotEach
  <2>3. \A d \in Clients \ {c} : AtEnd(d) <=> AtEnd(d)'
    BY <1>3 DEF AtEnd
  <2>4. \A d \in Clients \ {c} : \A m : Printed(d, m) <=> Printed(d, m)'
    BY <1>3 DEF Printed
  <2> QED
    BY <2>1, <2>2, <2>3, <2>4
<1>4. CASE k = t[i].chunkNo + 1
  <2> DEFINE new == [free |-> (k = Last[c]), chunkNo |-> k, addr |-> c]
  <2>1. /\ con' = [t EXCEPT ![i] = new]
        /\ printed' = [printed EXCEPT ![c] = Append(@, k)]
        /\ Echo(c, k)
    <3>1. ~(k > t[i].chunkNo + 1) /\ ~(k <= t[i].chunkNo)
      BY <1>1, <1>2, <1>4
    <3>2. /\ k = t[i].chunkNo + 1
          /\ con' = [t EXCEPT ![i] = new]
          /\ printed' = [printed EXCEPT ![c] = Append(printed[c], k)]
          /\ Echo(c, k)
      BY <3>1, Zenon DEF TakeChunk
    <3> QED
      BY <3>2, Zenon
  <2>2. new \in Slot /\ new.free = (k = Last[c]) /\ new.chunkNo = k /\ new.addr = c
    BY <1>1 DEF Slot
  <2> HIDE DEF new
  <2>3. /\ con' \in [Slots -> Slot] /\ con'[i] = new
        /\ \A j \in Slots \ {i} : con'[j] = con[j]
    BY <1>2, <2>1, <2>2
  <2>4. /\ printed' \in [Clients -> Seq(Nat)]
        /\ printed'[c] = Append(printed[c], k)
        /\ \A d \in Clients \ {c} : printed'[d] = printed[d]
        /\ printed'[c] # <<>> /\ printed'[c][Len(printed'[c])] = k
        /\ Printed(c, k)'
        /\ \A d \in Clients, m \in Nat : Printed(d, m) => Printed(d, m)'
    BY <1>1, <2>1, PrintAppends
  <2>5. /\ Mine(c)' = IF con'[i].free THEN {} ELSE {i}
        /\ \A d \in Clients \ {c} :
              Mine(d)' = Mine(d) /\ \A j \in Mine(d) : con'[j] = con[j]
        /\ \A d \in Clients \ {c} : AtEnd(d) <=> AtEnd(d)'
        /\ \A d \in Clients \ {c} : \A m : Printed(d, m) <=> Printed(d, m)'
        /\ OneSlotEach'
    BY <1>3, <2>2, <2>3, <2>4
  <2>6. InOrder'
    <3>1. ASSUME NEW n \in 1..Len(printed'[c])
          PROVE  IF n = 1 THEN printed'[c][n] = 1
                 ELSE \/ printed'[c][n] = printed'[c][n - 1] + 1
                      \/ printed'[c][n] = 1 /\ printed'[c][n - 1] = Last[c]
      <4> DEFINE s == printed[c]
      <4>1. /\ s \in Seq(Nat) /\ printed'[c] = Append(s, k) /\ Len(s) \in Nat
            /\ Len(printed'[c]) = Len(s) + 1
            /\ \A m \in 1..Len(s) : printed'[c][m] = s[m]
            /\ printed'[c][Len(s) + 1] = k
        BY <1>1, <2>4
      <4>2. CASE n <= Len(s)
        <5>1. IF n = 1 THEN s[n] = 1
              ELSE s[n] = s[n - 1] + 1 \/ (s[n] = 1 /\ s[n - 1] = Last[c])
          <6>1. n \in 1..Len(printed[c])
            BY <4>1, <4>2
          <6> QED
            BY <1>0, <6>1 DEF InOrder
        <5>2. printed'[c][n] = s[n] /\ (n # 1 => printed'[c][n - 1] = s[n - 1])
          BY <4>1, <4>2
        <5> QED
          BY <5>1, <5>2
      <4>3. CASE n = Len(s) + 1
        <5>1. s = <<>> => n = 1
          BY <4>1, <4>3
        <5>2. s # <<>> => n # 1
          BY <4>1, <4>3
        <5>3. printed'[c][n] = k
          BY <4>1, <4>3
        <5>4. s # <<>> => printed'[c][n - 1] = s[Len(s)]
          BY <4>1, <4>3
        <5>5. CASE t[i].chunkNo = 0
          BY <1>2, <1>4, <5>1, <5>2, <5>3, <5>4, <5>5 DEF AtEnd
        <5>6. CASE t[i].chunkNo # 0
          BY <1>1, <1>2, <1>4, <5>1, <5>2, <5>3, <5>4, <5>6
        <5> QED
          BY <5>5, <5>6
      <4> QED
        BY <4>1, <4>2, <4>3
    <3>2. ASSUME NEW d \in Clients \ {c}, NEW n \in 1..Len(printed'[d])
          PROVE  IF n = 1 THEN printed'[d][n] = 1
                 ELSE \/ printed'[d][n] = printed'[d][n - 1] + 1
                      \/ printed'[d][n] = 1 /\ printed'[d][n - 1] = Last[d]
      <4>1. printed'[d] = printed[d]
        BY <2>4
      <4> QED
        BY <1>0, <4>1 DEF InOrder
    <3> QED
      BY <3>1, <3>2 DEF InOrder
  <2>7. SlotInv'
    <3>1. con'[i].free => AtEnd(c)'
      BY <2>2, <2>3, <2>4 DEF AtEnd
    <3>2. ASSUME NEW m \in 1..k PROVE Printed(c, m)'
      <4>1. m \in Nat /\ (m = k \/ m \in 1..t[i].chunkNo)
        BY <1>1, <1>2, <1>4
      <4>2. CASE m = k
        BY <2>4, <4>2
      <4>3. CASE m \in 1..t[i].chunkNo
        <5>1. Printed(c, m)
          BY <1>2, <4>3
        <5> QED
          BY <2>4, <4>1, <5>1
      <4> QED
        BY <4>1, <4>2, <4>3
    <3>3. con'[i].chunkNo = k
      BY <2>2, <2>3
    <3>4. ASSUME NEW d \in Clients, Mine(d)' = {} PROVE AtEnd(d)'
      <4>1. CASE d = c
        BY <2>5, <3>1, <3>4, <4>1
      <4>2. CASE d # c
        BY <1>0, <2>5, <3>4, <4>2 DEF SlotInv
      <4> QED
        BY <4>1, <4>2
    <3>5. ASSUME NEW d \in Clients, NEW j \in Mine(d)'
          PROVE  /\ con'[j].chunkNo = 0 => AtEnd(d)'
                 /\ con'[j].chunkNo # 0 => /\ printed'[d] # <<>>
                                           /\ printed'[d][Len(printed'[d])] = con'[j].chunkNo
                 /\ \A m \in 1..con'[j].chunkNo : Printed(d, m)'
      <4>1. CASE d = c
        <5>1. j = i
          BY <2>5, <4>1
        <5> QED
          BY <1>1, <2>4, <3>2, <3>3, <4>1, <5>1
      <4>2. CASE d # c
        <5>1. j \in Mine(d) /\ con'[j] = con[j] /\ printed'[d] = printed[d]
          BY <2>4, <2>5, <4>2
        <5> QED
          BY <1>0, <2>5, <4>2, <5>1 DEF SlotInv
      <4> QED
        BY <4>1, <4>2
    <3> QED
      BY <3>4, <3>5 DEF SlotInv
  <2> QED
    BY <2>1, <2>3, <2>4, <2>5, <2>6, <2>7
<1>5. CASE k # t[i].chunkNo + 1
  <2>1. con' = t /\ printed' = printed
    BY <1>1, <1>2, <1>5 DEF TakeChunk
  <2>2. /\ Mine(c)' = {i}
        /\ \A d \in Clients \ {c} :
              Mine(d)' = Mine(d) /\ \A j \in Mine(d) : con'[j] = con[j]
        /\ \A d \in Clients \ {c} : AtEnd(d) <=> AtEnd(d)'
        /\ \A d \in Clients \ {c} : \A m : Printed(d, m) <=> Printed(d, m)'
        /\ OneSlotEach'
    BY <1>2, <1>3, <2>1
  <2>3. /\ \A d \in Clients, m \in Nat : Printed(d, m) => Printed(d, m)'
        /\ \A m : Printed(c, m) <=> Printed(c, m)'
        /\ AtEnd(c) <=> AtEnd(c)'
        /\ InOrder'
    BY <1>0, <2>1 DEF Printed, AtEnd, InOrder
  <2>4. SlotInv'
    BY <1>0, <1>2, <2>1, <2>2, <2>3 DEF SlotInv
  <2>5. ack' = ack \/ (Echo(c, k) /\ Printed(c, k)')
    BY <1>1, <1>2, <1>5, <2>3 DEF TakeChunk
  <2> QED
    BY <1>1, <1>2, <2>1, <2>2, <2>3, <2>4, <2>5
<1> QED
  BY <1>4, <1>5

\* The server's step: whatever the table says of the sender, the invariant holds after it.
LEMMA ServeStep ==
    ASSUME Inv, NEW c \in Clients, NEW k \in Chunks(c), Serve(c, k)
    PROVE  Inv'
<1>0. TypeOK /\ AttemptsLeft /\ OneSlotEach /\ InOrder /\ SlotInv /\ EchoInv /\ ConfirmedIsPrinted
  BY DEF Inv
<1>1. /\ req[c][k] > 0 /\ req' = [req EXCEPT ![c][k] = @ - 1] /\ UNCHANGED clientVars
      /\ \/ \E i \in FindIndex(c) : TakeChunk(c, k, i, Table(c, i))
         \/ UNCHANGED <<con, ack, printed>>
  BY DEF Serve
<1>2. DOMAIN req' = Clients /\ \A d \in Clients : req'[d] \in [Chunks(d) -> Nat]
  <2>1. DOMAIN req = Clients /\ \A d \in Clients : req[d] \in [Chunks(d) -> Nat]
    BY <1>0 DEF TypeOK
  <2>2. req[c][k] - 1 \in Nat
    BY <1>1, <2>1
  <2>3. req' = [req EXCEPT ![c] = [req[c] EXCEPT ![k] = req[c][k] - 1]]
    BY <1>1
  <2>4. [req[c] EXCEPT ![k] = req[c][k] - 1] \in [Chunks(c) -> Nat]
    BY <2>1, <2>2
  <2> QED
    BY <2>1, <2>3, <2>4
<1>3. CASE UNCHANGED <<con, ack, printed>>
  BY <1>1, <1>2, <1>3, DroppedStep
<1>4. CASE \E i \in FindIndex(c) : TakeChunk(c, k, i, Table(c, i))
  <2>1. PICK i \in FindIndex(c) : TakeChunk(c, k, i, Table(c, i))
    BY <1>4
  <2>2. Claimed(c, i, Table(c, i))
    BY <1>0, FindIndexClaims
  <2>3. /\ con' \in [Slots -> Slot] /\ printed' \in [Clients -> Seq(Nat)]
        /\ OneSlotEach' /\ InOrder' /\ SlotInv'
        /\ \A d \in Clients, m \in Nat : Printed(d, m) => Printed(d, m)'
        /\ ack' = ack \/ (Echo(c, k) /\ Printed(c, k)')
    BY <2>1, <2>2, TakeChunkStep
  <2>4. DOMAIN ack = Clients /\ \A d \in Clients : ack[d] \in [Chunks(d) -> Nat]
    BY <1>0 DEF TypeOK
  <2>5. ack' = ack \/ (ack' = [ack EXCEPT ![c] = [ack[c] EXCEPT ![k] = ack[c][k] + 1]] /\ Printed(c, k)')
    BY <2>3 DEF Echo
  <2>6. [ack[c] EXCEPT ![k] = ack[c][k] + 1] \in [Chunks(c) -> Nat]
    BY <2>4
  <2>7. DOMAIN ack' = Clients /\ \A d \in Clients : ack'[d] \in [Chunks(d) -> Nat]
    BY <2>4, <2>5, <2>6
  <2>8. TypeOK' /\ AttemptsLeft'
    BY <1>0, <1>1, <1>2, <2>3, <2>7 DEF TypeOK, AttemptsLeft, clientVars, Slot
  <2>9. ASSUME NEW d \in Clients, NEW m \in Chunks(d), ack'[d][m] > 0 PROVE Printed(d, m)'
    <3>1. m \in Nat
      BY DEF Chunks
    <3>2. CASE ack'[d][m] = ack[d][m]
      BY <1>0, <2>3, <2>9, <3>1, <3>2 DEF EchoInv
    <3>3. CASE ack'[d][m] # ack[d][m]
      <4>1. d = c /\ m = k /\ Printed(c, k)'
        BY <2>4, <2>5, <3>3
      <4> QED
        BY <4>1
    <3> QED
      BY <3>2, <3>3
  <2>10. EchoInv'
    <3>1. \A d \in Clients : recvbuf'[d] = recvbuf[d] /\ recvbuf[d] \in Nat
      BY <1>0, <1>1 DEF TypeOK, clientVars
    <3>2. \A d \in Clients : recvbuf'[d] # 0 => Printed(d, recvbuf'[d])
      BY <1>0, <3>1 DEF EchoInv
    <3> QED
      BY <2>3, <2>9, <3>1, <3>2 DEF EchoInv
  <2>11. ConfirmedIsPrinted'
    <3> SUFFICES ASSUME NEW d \in Clients, NEW m \in Chunks(d),
                        m < chunkNo'[d] \/ pc'[d] = "sent"
                 PROVE  Printed(d, m)'
      BY DEF ConfirmedIsPrinted, Printed
    <3>1. m \in Nat
      BY DEF Chunks
    <3>2. Printed(d, m)
      BY <1>0, <1>1 DEF ConfirmedIsPrinted, Printed, clientVars
    <3> QED
      BY <2>3, <3>1, <3>2
  <2> QED
    BY <2>3, <2>8, <2>10, <2>11 DEF Inv
<1> QED
  BY <1>1, <1>3, <1>4

\* A client that closes its socket takes no datagram to another, and makes none up.
LEMMA DeliveredLess ==
    ASSUME NEW c \in Clients, NEW a, DOMAIN a = Clients,
           \A d \in Clients : a[d] \in [Chunks(d) -> Nat], ack' = Delivered(c, a)
    PROVE  /\ DOMAIN ack' = Clients /\ \A d \in Clients : ack'[d] \in [Chunks(d) -> Nat]
           /\ \A d \in Clients : \A m \in Chunks(d) : ack'[d][m] <= a[d][m]
<1> DEFINE none == [m \in Chunks(c) |-> 0]
<1>1. ack' = a \/ ack' = [a EXCEPT ![c] = none]
  BY DEF Delivered
<1>2. none \in [Chunks(c) -> Nat] /\ \A m \in Chunks(c) : none[m] = 0
  OBVIOUS
<1> HIDE DEF none
<1>3. ASSUME NEW d \in Clients PROVE ack'[d] = a[d] \/ (d = c /\ ack'[d] = none)
  BY <1>1
<1>4. ASSUME NEW d \in Clients, NEW m \in Chunks(d) PROVE ack'[d][m] <= a[d][m]
  <2>1. a[d][m] \in Nat
    OBVIOUS
  <2> QED
    BY <1>2, <1>3, <2>1
<1> QED
  BY <1>1, <1>2, <1>3, <1>4

\* Every step of the clients, the network and the server keeps the invariant.
LEMMA NextInv == Inv /\ [Next]_vars => Inv'
<1> SUFFICES ASSUME Inv, [Next]_vars PROVE Inv'
  OBVIOUS
<1>0. TypeOK /\ EchoInv /\ OneSlotEach /\ InOrder /\ SlotInv
  BY DEF Inv
<1>1. ASSUME NEW c \in Clients, Send(c) \/ AlarmMissed(c) PROVE Inv'
  BY <1>1, SendStep
<1>2. ASSUME NEW c \in Clients, NEW k \in Chunks(c), Receive(c, k) PROVE Inv'
  <2>1. DOMAIN ack = Clients /\ \A d \in Clients : ack[d] \in [Chunks(d) -> Nat]
    BY <1>0 DEF TypeOK
  <2>2. /\ ack[c][k] > 0 /\ Returned(c, k)
        /\ ack' = Delivered(c, [ack EXCEPT ![c] = [ack[c] EXCEPT ![k] = ack[c][k] - 1]])
    BY <1>2 DEF Receive
  <2>3. Printed(c, k) /\ k \in Nat
    BY <1>0, <2>2 DEF EchoInv, Chunks
  <2>4. ack[c][k] - 1 \in Nat
    BY <2>1, <2>2
  <2>5. [ack[c] EXCEPT ![k] = ack[c][k] - 1] \in [Chunks(c) -> Nat]
    BY <2>1, <2>4
  <2> DEFINE a == [ack EXCEPT ![c] = [ack[c] EXCEPT ![k] = ack[c][k] - 1]]
  <2>6. DOMAIN a = Clients /\ \A d \in Clients : a[d] \in [Chunks(d) -> Nat]
    BY <2>1, <2>5
  <2>7. ASSUME NEW d \in Clients, NEW m \in Chunks(d) PROVE a[d][m] <= ack[d][m]
    BY <2>1, <2>4
  <2>8. ack' = Delivered(c, a)
    BY <2>2
  <2> HIDE DEF a
  <2>9. /\ DOMAIN ack' = Clients /\ \A d \in Clients : ack'[d] \in [Chunks(d) -> Nat]
        /\ \A d \in Clients : \A m \in Chunks(d) : ack'[d][m] <= a[d][m]
    BY <2>6, <2>8, DeliveredLess
  <2>10. ASSUME NEW d \in Clients, NEW m \in Chunks(d) PROVE ack'[d][m] <= ack[d][m]
    <3>1. ack[d][m] \in Nat /\ a[d][m] \in Nat /\ ack'[d][m] \in Nat
      BY <2>1, <2>6, <2>9
    <3> QED
      BY <2>7, <2>9, <3>1
  <2> QED
    BY <2>2, <2>3, <2>9, <2>10, ReturnedStep
<1>3. ASSUME NEW c \in Clients, Timeout(c) PROVE Inv'
  <2>1. ack' = Delivered(c, ack) /\ Returned(c, recvbuf[c])
    BY <1>3 DEF Timeout
  <2>2. recvbuf[c] \in Nat /\ (recvbuf[c] # 0 => Printed(c, recvbuf[c]))
    BY <1>0 DEF TypeOK, EchoInv
  <2>3. /\ DOMAIN ack' = Clients /\ \A d \in Clients : ack'[d] \in [Chunks(d) -> Nat]
        /\ \A d \in Clients : \A m \in Chunks(d) : ack'[d][m] <= ack[d][m]
    BY <1>0, <2>1, DeliveredLess DEF TypeOK
  <2> DEFINE r == recvbuf[c]
  <2>4. r \in Nat /\ (r # 0 => Printed(c, r)) /\ Returned(c, r)
    BY <2>1, <2>2
  <2> HIDE DEF r
  <2> QED
    BY <2>3, <2>4, ReturnedStep
<1>4. ASSUME NEW c \in Clients, NEW k \in Chunks(c), Serve(c, k) PROVE Inv'
  BY <1>4, ServeStep
<1>5. CASE UNCHANGED vars
  BY <1>5, <1>0, DroppedStep DEF vars, TypeOK
<1> QED
  BY <1>1, <1>2, <1>3, <1>4, <1>5 DEF Next, Client, Idle

\* Whatever is lost, delayed or reordered, the invariant holds in every reachable state.
THEOREM Invariance == Spec => []Inv
<1>1. Init => Inv
  BY InitInv
<1>2. Inv /\ [Next]_vars => Inv'
  BY NextInv
<1> QED
  BY <1>1, <1>2, PTL DEF Spec

\* The buffers, counters, datagrams and slots of doClient and doServer keep their ranges.
THEOREM TypeCorrect == Spec => []TypeOK
<1>1. Inv => TypeOK
  BY DEF Inv
<1> QED
  BY <1>1, Invariance, PTL

\* findIndex never gives one address two slots.
THEOREM SlotUniqueness == Spec => []OneSlotEach
<1>1. Inv => OneSlotEach
  BY DEF Inv
<1> QED
  BY <1>1, Invariance, PTL

\* doServer prints the chunks of a client in order, without a gap or a repetition, and starts
\* again only after the last one.
THEOREM PrintedInOrder == Spec => []InOrder
<1>1. Inv => InOrder
  BY DEF Inv
<1> QED
  BY <1>1, Invariance, PTL

\* What doClient takes for confirmed, doServer has printed.
THEOREM Confirmation == Spec => []ConfirmedIsPrinted
<1>1. Inv => ConfirmedIsPrinted
  BY DEF Inv
<1> QED
  BY <1>1, Invariance, PTL
=============================================================================
