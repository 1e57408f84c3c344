-------------------------- MODULE WriteQueueProofs --------------------------
(***************************************************************************)
(* Proofs that the write queue gives its slot to one connection at a time, *)
(* that SQLite's writer lock stays under the slot, and that a transaction  *)
(* which joined before it read is never outdated by this process, for any  *)
(* number of connections and any mix of work.                              *)
(***************************************************************************)
EXTENDS WriteQueue, SequenceTheorems, TLAPS

-----------------------------------------------------------------------------
(* What the three queue edits do to a line. *)

LEMMA RemoveAtLine ==
  ASSUME NEW S, NEW s \in Seq(S), NEW i \in 1 .. Len(s)
  PROVE  /\ RemoveAt(s, i) \in Seq(S)
         /\ Len(RemoveAt(s, i)) = Len(s) - 1
         /\ \A j \in 1 .. Len(s) - 1 :
               RemoveAt(s, i)[j] = IF j < i THEN s[j] ELSE s[j + 1]
<1> DEFINE front == SubSeq(s, 1, i - 1)
           back  == SubSeq(s, i + 1, Len(s))
<1>1. /\ front \in Seq(S) /\ Len(front) = i - 1
      /\ \A j \in 1 .. i - 1 : front[j] = s[j]
  BY SubSeqProperties
<1>2. /\ back \in Seq(S) /\ Len(back) = Len(s) - i
      /\ \A j \in 1 .. Len(s) - i : back[j] = s[i + j]
  BY SubSeqProperties
<1>3. RemoveAt(s, i) = front \o back
  BY DEF RemoveAt
<1> HIDE DEF front, back
<1>4. /\ front \o back \in Seq(S)
      /\ Len(front \o back) = Len(front) + Len(back)
      /\ \A j \in 1 .. Len(front) + Len(back) :
            (front \o back)[j] = IF j <= Len(front) THEN front[j] ELSE back[j - Len(front)]
  BY <1>1, <1>2, ConcatProperties
<1>5. ASSUME NEW j \in 1 .. Len(s) - 1
      PROVE  (front \o back)[j] = IF j < i THEN s[j] ELSE s[j + 1]
  <2>1. CASE j < i
    BY <1>1, <1>2, <1>4, <2>1
  <2>2. CASE j >= i
    <3>1. (front \o back)[j] = back[j - (i - 1)]
      BY <1>1, <1>2, <1>4, <2>2
    <3>2. back[j - (i - 1)] = s[i + (j - (i - 1))]
      BY <1>2, <2>2
    <3> QED
      BY <2>2, <3>1, <3>2
  <2>3. i \in Int /\ j \in Int /\ (j < i \/ j >= i)
    OBVIOUS
  <2> QED
    BY <2>1, <2>2, <2>3
<1> QED
  BY <1>1, <1>2, <1>3, <1>4, <1>5

LEMMA AppendLine ==
  ASSUME NEW S, NEW s \in Seq(S), NEW e \in S
  PROVE  /\ Append(s, e) \in Seq(S)
         /\ Len(Append(s, e)) = Len(s) + 1
         /\ \A j \in 1 .. Len(s) + 1 :
               Append(s, e)[j] = IF j <= Len(s) THEN s[j] ELSE e
  OBVIOUS

LEMMA TailLine ==
  ASSUME NEW S, NEW s \in Seq(S), s # <<>>
  PROVE  /\ Tail(s) \in Seq(S)
         /\ Len(Tail(s)) = Len(s) - 1
         /\ Head(s) = s[1] /\ Head(s) \in S /\ 1 \in 1 .. Len(s)
         /\ \A j \in 1 .. Len(s) - 1 : Tail(s)[j] = s[j + 1]
  OBVIOUS



-----------------------------------------------------------------------------
(* The inductive invariant.  OneOwner alone is not inductive: a hand-off     *)
(* keeps it only because nobody is in line twice and nobody in line already  *)
(* owns the slot, and passing a missed turn on keeps it only because whoever *)
(* is neither in line nor out of the select has a closed turn channel.       *)

LineOK ==
    /\ \A i, j \in 1 .. Len(waiters) : waiters[i] = waiters[j] => i = j
    /\ \A i \in 1 .. Len(waiters) :
          pc[waiters[i]] \in {"line", "gaveUp"} /\ waiters[i] \notin turn
    /\ \A c \in Conns : pc[c] \in {"line", "gaveUp"} => c \in turn \/ InLine(c)
    /\ waiters # <<>> => held

TurnOK == \A c \in turn : pc[c] \in {"line", "gaveUp", "pass"}

HoldOK ==
    \A c \in Conns :
        /\ holding[c] => /\ mode[c] # "auto"
                         /\ pc[c] \in {"admitted", "open", "busy", "failed", "ending"}
        /\ pc[c] = "admitted" => holding[c] \/ mode[c] = "auto"
        /\ mode[c] = "auto" => ~inTx[c] /\ pc[c] \notin {"open", "busy", "failed"}
        /\ pc[c] = "idle" => ~inTx[c]
        /\ pc[c] \in {"open", "busy"} => inTx[c]
        /\ ~inTx[c] /\ pc[c] # "idle" => mode[c] \in {"queued", "manual", "auto"}
        /\ inTx[c] /\ ~holding[c] => mode[c] \in {"optimistic", "reader"}
        /\ inTx[c] /\ mode[c] = "optimistic" /\ pc[c] # "ending" => tries[c] < Attempts

DirtyOK == \A c \in dirty : holding[c] /\ pc[c] \in {"open", "busy", "failed"}

SnapOK == \A c \in Conns : ~inTx[c] \/ pc[c] = "ending" => snap[c] = "none"

IInv ==
    /\ TypeOK
    /\ LineOK
    /\ TurnOK
    /\ HoldOK
    /\ OneOwner
    /\ DirtyOK
    /\ SnapOK
    /\ QueuedReadsStayCurrent

-----------------------------------------------------------------------------

THEOREM InitIInv == Init => IInv
<1> SUFFICES ASSUME Init PROVE IInv
  OBVIOUS
<1> USE DEF Init
<1>1. TypeOK
  <2>1. waiters \in Seq(Conns) /\ dirty \subseteq Conns /\ turn \subseteq Conns
    OBVIOUS
  <2>2. tries \in [Conns -> 0 .. Attempts]
    BY AttemptsAssumption
  <2> QED
    BY <2>1, <2>2 DEF TypeOK, PCs, AllModes, Snaps
<1>2. LineOK /\ TurnOK /\ HoldOK /\ DirtyOK /\ SnapOK /\ QueuedReadsStayCurrent
  BY DEF LineOK, TurnOK, HoldOK, DirtyOK, SnapOK, QueuedReadsStayCurrent
<1>3. OneOwner
  BY DEF OneOwner, Owner
<1> QED
  BY <1>1, <1>2, <1>3 DEF IInv

-----------------------------------------------------------------------------
(* Acquiring and releasing the slot keep the line and its one owner, whoever *)
(* calls them.                                                               *)

LEMMA AcquireKeepsLine ==
  ASSUME IInv, NEW c \in Conns, NEW m \in AllModes,
         pc[c] \in {"idle", "open"}, ~holding[c],
         Acquire(c, m), mode' = [mode EXCEPT ![c] = m]
  PROVE  /\ waiters' \in Seq(Conns) /\ held' \in BOOLEAN /\ turn' \subseteq Conns
         /\ LineOK' /\ TurnOK' /\ OneOwner'
<1> USE DEF IInv
<1>0. Len(waiters) \in Nat /\ \A i \in 1 .. Len(waiters) : waiters[i] \in Conns
  BY ElementOfSeq, LenProperties DEF TypeOK
<1>1. ~Owner(c) /\ c \notin turn
  BY DEF TypeOK, TurnOK, HoldOK, Owner
<1>2. CASE held
  <2>1. /\ waiters' = Append(waiters, c) /\ turn' = turn /\ held' = held
        /\ pc' = [pc EXCEPT ![c] = "line"] /\ holding' = holding
    BY <1>2 DEF Acquire
  <2>2. /\ waiters' \in Seq(Conns) /\ Len(waiters') = Len(waiters) + 1
        /\ \A j \in 1 .. Len(waiters) + 1 :
              waiters'[j] = IF j <= Len(waiters) THEN waiters[j] ELSE c
    BY <2>1, AppendLine DEF TypeOK
  <2>3. \A i \in 1 .. Len(waiters) : waiters[i] # c /\ waiters[i] \in Conns
    BY <1>0 DEF LineOK, TypeOK
  <2>4. LineOK'
    <3>1. \A i, j \in 1 .. Len(waiters') : waiters'[i] = waiters'[j] => i = j
      BY <1>0, <2>2, <2>3 DEF LineOK
    <3>2. \A i \in 1 .. Len(waiters') :
             pc'[waiters'[i]] \in {"line", "gaveUp"} /\ waiters'[i] \notin turn'
      BY <1>1, <2>1, <2>2, <2>3 DEF LineOK, TypeOK
    <3>3. \A d \in Conns : pc'[d] \in {"line", "gaveUp"} => d \in turn' \/ InLine(d)'
      <4> SUFFICES ASSUME NEW d \in Conns, pc'[d] \in {"line", "gaveUp"}, d \notin turn'
                   PROVE  InLine(d)'
        OBVIOUS
      <4>1. CASE d = c
        <5>1. Len(waiters) + 1 \in 1 .. Len(waiters') /\ waiters'[Len(waiters) + 1] = c
          BY <1>0, <2>2
        <5> QED
          BY <4>1, <5>1 DEF InLine
      <4>2. CASE d # c
        BY <2>1, <2>2, <4>2 DEF InLine, LineOK, TypeOK
      <4> QED
        BY <4>1, <4>2
    <3> QED
      BY <1>2, <2>1, <3>1, <3>2, <3>3 DEF LineOK
  <2>5. TurnOK' /\ OneOwner'
    BY <1>1, <1>2, <2>1 DEF TurnOK, OneOwner, Owner, TypeOK, HoldOK
  <2> QED
    BY <1>2, <2>1, <2>2, <2>4, <2>5 DEF TypeOK
<1>3. CASE ~held
  <2>1. /\ waiters' = waiters /\ turn' = turn /\ held' = TRUE
        /\ pc' = [pc EXCEPT ![c] = "admitted"]
        /\ holding' = [holding EXCEPT ![c] = m # "auto"]
    BY <1>3 DEF Acquire
  <2>2. LineOK'
    BY <1>3, <2>1 DEF LineOK, InLine, TypeOK
  <2>3. TurnOK' /\ OneOwner'
    BY <1>1, <1>3, <2>1 DEF TurnOK, OneOwner, Owner, TypeOK
  <2> QED
    BY <2>1, <2>2, <2>3 DEF TypeOK
<1> QED
  BY <1>2, <1>3 DEF TypeOK

LEMMA ReleaseKeepsLine ==
  ASSUME IInv, NEW c \in Conns, NEW p \in {"idle", "failed"},
         Owner(c), pc[c] \notin {"line", "gaveUp"},
         Release(turn \ {c}), mode' = mode, pc' = [pc EXCEPT ![c] = p],
         holding' = [holding EXCEPT ![c] = FALSE]
  PROVE  /\ waiters' \in Seq(Conns) /\ held' \in BOOLEAN /\ turn' \subseteq Conns
         /\ LineOK' /\ TurnOK' /\ OneOwner'
<1> USE DEF IInv
<1>0. Len(waiters) \in Nat /\ \A i \in 1 .. Len(waiters) : waiters[i] \in Conns
  BY ElementOfSeq, LenProperties DEF TypeOK
<1>1. \A d \in Conns : d # c => ~Owner(d) /\ d \notin turn
  BY DEF OneOwner, Owner
<1>2. \A i \in 1 .. Len(waiters) : waiters[i] # c /\ waiters[i] \in Conns
  BY <1>0 DEF LineOK, TypeOK
<1>3. CASE waiters = <<>>
  <2>1. held' = FALSE /\ turn' = turn \ {c} /\ waiters' = waiters
    BY <1>3 DEF Release
  <2>2. LineOK'
    BY <1>1, <1>3, <2>1 DEF LineOK, InLine, TypeOK
  <2>3. TurnOK' /\ OneOwner'
    BY <1>1, <2>1 DEF TurnOK, OneOwner, Owner, TypeOK
  <2> QED
    BY <1>3, <2>1, <2>2, <2>3 DEF TypeOK
<1>4. CASE waiters # <<>>
  <2> DEFINE h == Head(waiters)
  <2>1. /\ held' = held /\ held /\ waiters' = Tail(waiters)
        /\ turn' = (turn \ {c}) \cup {h}
    BY <1>4 DEF Release, LineOK
  <2>2. /\ waiters' \in Seq(Conns) /\ Len(waiters') = Len(waiters) - 1
        /\ h = waiters[1] /\ h \in Conns /\ 1 \in 1 .. Len(waiters)
        /\ \A j \in 1 .. Len(waiters) - 1 : waiters'[j] = waiters[j + 1]
    BY <1>4, <2>1, TailLine DEF TypeOK
  <2> HIDE DEF h
  <2>3. h # c /\ pc[h] \in {"line", "gaveUp"}
    BY <1>2, <2>2 DEF LineOK, TypeOK
  <2>4. LineOK'
    <3>1. \A i \in 1 .. Len(waiters') : /\ i + 1 \in 1 .. Len(waiters)
                                     /\ waiters'[i] = waiters[i + 1]
                                     /\ i + 1 # 1
      BY <1>0, <2>2
    <3>2. \A i, j \in 1 .. Len(waiters') : waiters'[i] = waiters'[j] => i = j
      BY <1>0, <2>2, <3>1 DEF LineOK
    <3>3. \A i \in 1 .. Len(waiters') : waiters'[i] # h
      BY <1>0, <2>2, <3>1 DEF LineOK
    <3>4. \A i \in 1 .. Len(waiters') :
             pc'[waiters'[i]] \in {"line", "gaveUp"} /\ waiters'[i] \notin turn'
      BY <1>2, <2>1, <3>1, <3>3 DEF LineOK, TypeOK
    <3>5. \A d \in Conns : pc'[d] \in {"line", "gaveUp"} => d \in turn' \/ InLine(d)'
      <4> SUFFICES ASSUME NEW d \in Conns, pc'[d] \in {"line", "gaveUp"}, d # h
                   PROVE  InLine(d)'
        BY <2>1
      <4>1. d # c /\ pc[d] \in {"line", "gaveUp"}
        BY DEF TypeOK
      <4>2. PICK i \in 1 .. Len(waiters) : waiters[i] = d
        BY <1>1, <4>1 DEF LineOK, InLine
      <4>3. i # 1 /\ i - 1 \in 1 .. Len(waiters') /\ waiters'[i - 1] = d
        BY <1>0, <2>2, <2>3, <4>2
      <4> QED
        BY <4>3 DEF InLine
    <3> QED
      BY <2>1, <3>2, <3>4, <3>5 DEF LineOK
  <2>5. TurnOK' /\ OneOwner'
    BY <1>1, <2>1, <2>2, <2>3 DEF TurnOK, OneOwner, Owner, TypeOK, HoldOK
  <2> QED
    BY <2>1, <2>2, <2>4, <2>5 DEF TypeOK
<1> QED
  BY <1>3, <1>4

-----------------------------------------------------------------------------
(* One step per action.  The steps that edit the line cite the lemmas above; *)
(* in the others the line stands still and only the connection's own state   *)
(* matters.                                                                  *)

LEMMA StepIInv == IInv /\ [Next]_vars => IInv'
<1> SUFFICES ASSUME IInv, [Next]_vars PROVE IInv'
  OBVIOUS
<1> USE AttemptsAssumption DEF IInv
<1>1. ASSUME NEW c \in Conns, NEW m \in AllModes, BeginQueued(c, m) PROVE IInv'
  <2>1. pc[c] = "idle" /\ ~holding[c] /\ Acquire(c, m) /\ ~inTx[c]
    BY <1>1 DEF BeginQueued, TypeOK, TurnOK, HoldOK, Owner, AllModes, qvars, svars
  <2>2. /\ waiters' \in Seq(Conns) /\ held' \in BOOLEAN /\ turn' \subseteq Conns
        /\ LineOK' /\ TurnOK' /\ OneOwner'
    BY <1>1, <2>1, AcquireKeepsLine DEF BeginQueued, TypeOK
  <2>3. TypeOK'
    BY <1>1, <2>1, <2>2 DEF BeginQueued, Acquire, TypeOK, PCs, AllModes, Snaps, svars
  <2>4. HoldOK'
    BY <1>1, <2>1, <2>2 DEF BeginQueued, Acquire, TypeOK, HoldOK, svars
  <2>5. DirtyOK'
    BY <1>1, <2>1, <2>2 DEF BeginQueued, Acquire, TypeOK, HoldOK, DirtyOK, svars
  <2>6. SnapOK'
    BY <1>1, <2>1, <2>2 DEF BeginQueued, Acquire, TypeOK, HoldOK, SnapOK, svars
  <2>7. QueuedReadsStayCurrent'
    BY <1>1, <2>1, <2>2 DEF BeginQueued, Acquire, TypeOK, HoldOK, DirtyOK, SnapOK, OneOwner, Owner, QueuedReadsStayCurrent, svars
  <2> QED
    BY <2>2, <2>3, <2>4, <2>5, <2>6, <2>7
<1>2. ASSUME NEW c \in Conns, JoinToWrite(c) PROVE IInv'
  <2>1. /\ pc[c] = "open" /\ ~holding[c] /\ inTx[c] /\ c \notin dirty
        /\ "optimistic" \in AllModes /\ mode' = [mode EXCEPT ![c] = "optimistic"]
        /\ Acquire(c, "optimistic")
    BY <1>2 DEF JoinToWrite, DirtyOK, TypeOK, TurnOK, HoldOK, Owner, AllModes, qvars, svars
  <2>2. /\ waiters' \in Seq(Conns) /\ held' \in BOOLEAN /\ turn' \subseteq Conns
        /\ LineOK' /\ TurnOK' /\ OneOwner'
    BY <1>2, <2>1, AcquireKeepsLine DEF JoinToWrite, TypeOK
  <2>3. TypeOK'
    BY <1>2, <2>1, <2>2 DEF JoinToWrite, DirtyOK, Acquire, TypeOK, PCs, AllModes, Snaps, svars
  <2>4. HoldOK'
    BY <1>2, <2>1, <2>2 DEF JoinToWrite, DirtyOK, Acquire, TypeOK, HoldOK, svars
  <2>5. DirtyOK'
    BY <1>2, <2>1, <2>2 DEF JoinToWrite, DirtyOK, Acquire, TypeOK, DirtyOK, svars
  <2>6. SnapOK'
    BY <1>2, <2>1, <2>2 DEF JoinToWrite, DirtyOK, Acquire, TypeOK, HoldOK, SnapOK, svars
  <2>7. QueuedReadsStayCurrent'
    BY <1>2, <2>1, <2>2 DEF JoinToWrite, DirtyOK, Acquire, TypeOK, HoldOK, DirtyOK, SnapOK, OneOwner, Owner, QueuedReadsStayCurrent, svars
  <2> QED
    BY <2>2, <2>3, <2>4, <2>5, <2>6, <2>7
<1>3. ASSUME NEW c \in Conns, PassOn(c) PROVE IInv'
  <2>1. /\ Owner(c) /\ pc[c] \notin {"line", "gaveUp"} /\ Release(turn \ {c})
        /\ \E p \in {"idle", "failed"} :
              pc' = [pc EXCEPT ![c] = p] /\ p = IF inTx[c] THEN "failed" ELSE "idle"
        /\ holding' = [holding EXCEPT ![c] = FALSE] /\ mode' = mode
    BY <1>3 DEF PassOn, AbandonWait, TypeOK, TurnOK, HoldOK, Owner, AllModes, qvars, svars
  <2>2. /\ waiters' \in Seq(Conns) /\ held' \in BOOLEAN /\ turn' \subseteq Conns
        /\ LineOK' /\ TurnOK' /\ OneOwner'
    BY <1>3, <2>1, ReleaseKeepsLine DEF PassOn, TypeOK
  <2>3. TypeOK'
    BY <1>3, <2>1, <2>2 DEF PassOn, AbandonWait, TypeOK, PCs, AllModes, Snaps, svars
  <2>4. HoldOK'
    BY <1>3, <2>1, <2>2 DEF PassOn, AbandonWait, TypeOK, HoldOK, svars
  <2>5. DirtyOK'
    BY <1>3, <2>1, <2>2 DEF PassOn, AbandonWait, TypeOK, HoldOK, DirtyOK, svars
  <2>6. SnapOK'
    BY <1>3, <2>1, <2>2 DEF PassOn, AbandonWait, TypeOK, HoldOK, SnapOK, svars
  <2>7. QueuedReadsStayCurrent'
    BY <1>3, <2>1, <2>2 DEF PassOn, AbandonWait, TypeOK, HoldOK, DirtyOK, SnapOK, OneOwner, Owner, QueuedReadsStayCurrent, svars
  <2> QED
    BY <2>2, <2>3, <2>4, <2>5, <2>6, <2>7
<1>4. ASSUME NEW c \in Conns, BeginFailed(c) PROVE IInv'
  <2>1. /\ Owner(c) /\ pc[c] = "admitted" /\ Release(turn \ {c}) /\ c \notin dirty
        /\ "idle" \in {"idle", "failed"} /\ pc' = [pc EXCEPT ![c] = "idle"]
        /\ holding' = [holding EXCEPT ![c] = FALSE] /\ mode' = mode
    BY <1>4 DEF BeginFailed, DirtyOK, TypeOK, TurnOK, HoldOK, Owner, AllModes, qvars, svars
  <2>2. /\ waiters' \in Seq(Conns) /\ held' \in BOOLEAN /\ turn' \subseteq Conns
        /\ LineOK' /\ TurnOK' /\ OneOwner'
    BY <1>4, <2>1, ReleaseKeepsLine DEF BeginFailed, TypeOK
  <2>3. TypeOK'
    BY <1>4, <2>1, <2>2 DEF BeginFailed, HoldOK, TypeOK, PCs, AllModes, Snaps, svars
  <2>4. HoldOK'
    BY <1>4, <2>1, <2>2 DEF BeginFailed, HoldOK, TypeOK, HoldOK, svars
  <2>5. DirtyOK'
    BY <1>4, <2>1, <2>2 DEF BeginFailed, HoldOK, TypeOK, HoldOK, DirtyOK, svars
  <2>6. SnapOK'
    BY <1>4, <2>1, <2>2 DEF BeginFailed, HoldOK, TypeOK, HoldOK, SnapOK, svars
  <2>7. QueuedReadsStayCurrent'
    BY <1>4, <2>1, <2>2 DEF BeginFailed, HoldOK, TypeOK, HoldOK, DirtyOK, SnapOK, OneOwner, Owner, QueuedReadsStayCurrent, svars
  <2> QED
    BY <2>2, <2>3, <2>4, <2>5, <2>6, <2>7
<1>5. ASSUME NEW c \in Conns, EndTx(c), holding[c] \/ mode[c] = "auto" PROVE IInv'
  <2>1. /\ Owner(c) /\ pc[c] = "ending" /\ Release(turn \ {c}) /\ c \notin dirty
        /\ "idle" \in {"idle", "failed"} /\ pc' = [pc EXCEPT ![c] = "idle"]
        /\ holding' = [holding EXCEPT ![c] = FALSE] /\ mode' = mode
    BY <1>5 DEF EndTx, DirtyOK, TypeOK, TurnOK, HoldOK, Owner, AllModes, qvars, svars
  <2>2. /\ waiters' \in Seq(Conns) /\ held' \in BOOLEAN /\ turn' \subseteq Conns
        /\ LineOK' /\ TurnOK' /\ OneOwner'
    BY <1>5, <2>1, ReleaseKeepsLine DEF EndTx, TypeOK
  <2>3. TypeOK'
    BY <1>5, <2>1, <2>2 DEF EndTx, HoldOK, TypeOK, PCs, AllModes, Snaps, svars
  <2>4. HoldOK'
    BY <1>5, <2>1, <2>2 DEF EndTx, HoldOK, TypeOK, HoldOK, svars
  <2>5. DirtyOK'
    BY <1>5, <2>1, <2>2 DEF EndTx, HoldOK, TypeOK, HoldOK, DirtyOK, svars
  <2>6. SnapOK'
    BY <1>5, <2>1, <2>2 DEF EndTx, HoldOK, TypeOK, HoldOK, SnapOK, svars
  <2>7. QueuedReadsStayCurrent'
    BY <1>5, <2>1, <2>2 DEF EndTx, HoldOK, TypeOK, HoldOK, DirtyOK, SnapOK, OneOwner, Owner, QueuedReadsStayCurrent, svars
  <2> QED
    BY <2>2, <2>3, <2>4, <2>5, <2>6, <2>7
<1>6. ASSUME NEW c \in Conns, LeaveLine(c) PROVE IInv'
  <2>1. PICK i \in 1 .. Len(waiters) : waiters[i] = c /\ waiters' = RemoveAt(waiters, i)
    BY <1>6 DEF LeaveLine
  <2>2. /\ waiters' \in Seq(Conns) /\ Len(waiters') = Len(waiters) - 1
        /\ \A j \in 1 .. Len(waiters) - 1 :
              waiters'[j] = IF j < i THEN waiters[j] ELSE waiters[j + 1]
    BY <2>1, RemoveAtLine DEF TypeOK
  <2>3. Len(waiters) \in Nat /\ \A j \in 1 .. Len(waiters) : waiters[j] \in Conns
    BY ElementOfSeq, LenProperties DEF TypeOK
  <2>4. c \notin turn /\ ~Owner(c) /\ held /\ waiters # <<>>
    <3>1. c \notin turn
      BY <2>1 DEF LineOK
    <3>2. waiters # <<>> /\ held
      BY <2>1, <2>3 DEF LineOK
    <3> QED
      BY <1>6, <3>1, <3>2 DEF LeaveLine, TypeOK, HoldOK, Owner
  <2>5. LineOK'
    <3>1. \A j \in 1 .. Len(waiters') :
             \E k \in 1 .. Len(waiters) : /\ waiters'[j] = waiters[k] /\ k # i
                                          /\ k = IF j < i THEN j ELSE j + 1
      BY <2>2, <2>3
    <3>2. \A j \in 1 .. Len(waiters') : waiters'[j] # c
      BY <2>1, <3>1 DEF LineOK
    <3>3. \A j, k \in 1 .. Len(waiters') : waiters'[j] = waiters'[k] => j = k
      BY <2>3, <3>1 DEF LineOK
    <3>4. \A j \in 1 .. Len(waiters') :
             pc'[waiters'[j]] \in {"line", "gaveUp"} /\ waiters'[j] \notin turn'
      BY <1>6, <2>3, <3>1, <3>2 DEF LeaveLine, AbandonWait, LineOK, TypeOK
    <3>5. \A d \in Conns : pc'[d] \in {"line", "gaveUp"} => d \in turn' \/ InLine(d)'
      <4> SUFFICES ASSUME NEW d \in Conns, pc'[d] \in {"line", "gaveUp"}, d \notin turn
                   PROVE  InLine(d)'
        BY <1>6 DEF LeaveLine
      <4>1. d # c /\ pc[d] \in {"line", "gaveUp"}
        BY <1>6 DEF LeaveLine, AbandonWait, TypeOK
      <4>2. PICK k \in 1 .. Len(waiters) : waiters[k] = d
        BY <4>1 DEF LineOK, InLine
      <4>3. k # i /\ (k < i \/ k > i)
        BY <2>1, <4>1, <4>2
      <4>4. \E j \in 1 .. Len(waiters') : waiters'[j] = d
        <5>1. CASE k < i
          BY <2>2, <2>3, <4>2, <5>1
        <5>2. CASE k > i
          <6>1. k - 1 \in 1 .. Len(waiters') /\ waiters'[k - 1] = waiters[k]
            BY <2>2, <2>3, <5>2
          <6> QED
            BY <4>2, <6>1
        <5> QED
          BY <4>3, <5>1, <5>2
      <4> QED
        BY <4>4 DEF InLine
    <3> QED
      BY <1>6, <2>4, <3>3, <3>4, <3>5 DEF LeaveLine, LineOK
  <2>6. TurnOK' /\ OneOwner'
    BY <1>6, <2>4 DEF LeaveLine, AbandonWait, TypeOK, TurnOK, HoldOK, OneOwner, Owner
  <2>7. TypeOK' /\ HoldOK' /\ DirtyOK' /\ SnapOK' /\ QueuedReadsStayCurrent'
    BY <1>6, <2>2, AttemptsAssumption
    DEF LeaveLine, AbandonWait, TypeOK, HoldOK, DirtyOK, SnapOK,
        QueuedReadsStayCurrent, PCs, svars
  <2> QED
    BY <2>5, <2>6, <2>7
<1>7. ASSUME NEW c \in Conns, EndTx(c), ~holding[c], mode[c] # "auto" PROVE IInv'
  <2>1. TypeOK'
    BY <1>7 DEF EndTx, TypeOK, PCs, AllModes, Snaps, qvars, cvars, svars
  <2>2. LineOK'
    BY <1>7 DEF EndTx, TypeOK, LineOK, InLine, qvars, cvars, svars
  <2>3. TurnOK'
    BY <1>7 DEF EndTx, TypeOK, LineOK, TurnOK, qvars, cvars, svars
  <2>4. HoldOK'
    BY <1>7 DEF EndTx, TypeOK, HoldOK, qvars, cvars, svars
  <2>5. OneOwner'
    BY <1>7 DEF EndTx, TypeOK, LineOK, InLine, TurnOK, HoldOK, OneOwner, Owner, qvars, cvars, svars
  <2>6. DirtyOK'
    BY <1>7 DEF EndTx, TypeOK, HoldOK, DirtyOK, qvars, cvars, svars
  <2>7. SnapOK'
    BY <1>7 DEF EndTx, TypeOK, HoldOK, SnapOK, qvars, cvars, svars
  <2>8. QueuedReadsStayCurrent'
    BY <1>7 DEF EndTx, TypeOK, HoldOK, DirtyOK, SnapOK, OneOwner, Owner, QueuedReadsStayCurrent, qvars, cvars, svars
  <2> QED
    BY <2>1, <2>2, <2>3, <2>4, <2>5, <2>6, <2>7, <2>8
<1>8. ASSUME NEW c \in Conns, NEW m \in AllModes, tries[c] < Attempts, BeginUnqueued(c, m) PROVE IInv'
  <2>1. TypeOK'
    BY <1>8 DEF BeginUnqueued, TypeOK, PCs, AllModes, Snaps, qvars, cvars, svars
  <2>2. LineOK'
    BY <1>8 DEF BeginUnqueued, TypeOK, LineOK, InLine, qvars, cvars, svars
  <2>3. TurnOK'
    BY <1>8 DEF BeginUnqueued, TypeOK, LineOK, TurnOK, qvars, cvars, svars
  <2>4. HoldOK'
    BY <1>8 DEF BeginUnqueued, TypeOK, HoldOK, qvars, cvars, svars
  <2>5. OneOwner'
    BY <1>8 DEF BeginUnqueued, TypeOK, LineOK, InLine, TurnOK, HoldOK, OneOwner, Owner, qvars, cvars, svars
  <2>6. DirtyOK'
    BY <1>8 DEF BeginUnqueued, TypeOK, HoldOK, DirtyOK, qvars, cvars, svars
  <2>7. SnapOK'
    BY <1>8 DEF BeginUnqueued, TypeOK, HoldOK, SnapOK, qvars, cvars, svars
  <2>8. QueuedReadsStayCurrent'
    BY <1>8 DEF BeginUnqueued, TypeOK, HoldOK, DirtyOK, SnapOK, OneOwner, Owner, QueuedReadsStayCurrent, qvars, cvars, svars
  <2> QED
    BY <2>1, <2>2, <2>3, <2>4, <2>5, <2>6, <2>7, <2>8
<1>9. ASSUME NEW c \in Conns, TakeTurn(c) PROVE IInv'
  <2>1. TypeOK'
    BY <1>9 DEF TakeTurn, TypeOK, PCs, AllModes, Snaps, qvars, cvars, svars
  <2>2. LineOK'
    BY <1>9 DEF TakeTurn, TypeOK, LineOK, InLine, qvars, cvars, svars
  <2>3. TurnOK'
    BY <1>9 DEF TakeTurn, TypeOK, LineOK, TurnOK, qvars, cvars, svars
  <2>4. HoldOK'
    BY <1>9 DEF TakeTurn, TypeOK, HoldOK, qvars, cvars, svars
  <2>5. OneOwner'
    BY <1>9 DEF TakeTurn, TypeOK, LineOK, InLine, TurnOK, HoldOK, OneOwner, Owner, qvars, cvars, svars
  <2>6. DirtyOK'
    BY <1>9 DEF TakeTurn, TypeOK, HoldOK, DirtyOK, qvars, cvars, svars
  <2>7. SnapOK'
    BY <1>9 DEF TakeTurn, TypeOK, HoldOK, SnapOK, qvars, cvars, svars
  <2>8. QueuedReadsStayCurrent'
    BY <1>9 DEF TakeTurn, TypeOK, HoldOK, DirtyOK, SnapOK, OneOwner, Owner, QueuedReadsStayCurrent, qvars, cvars, svars
  <2> QED
    BY <2>1, <2>2, <2>3, <2>4, <2>5, <2>6, <2>7, <2>8
<1>10. ASSUME NEW c \in Conns, GiveUp(c) PROVE IInv'
  <2>1. TypeOK'
    BY <1>10 DEF GiveUp, TypeOK, PCs, AllModes, Snaps, qvars, cvars, svars
  <2>2. LineOK'
    BY <1>10 DEF GiveUp, TypeOK, LineOK, InLine, qvars, cvars, svars
  <2>3. TurnOK'
    BY <1>10 DEF GiveUp, TypeOK, LineOK, TurnOK, qvars, cvars, svars
  <2>4. HoldOK'
    BY <1>10 DEF GiveUp, TypeOK, HoldOK, qvars, cvars, svars
  <2>5. OneOwner'
    BY <1>10 DEF GiveUp, TypeOK, LineOK, InLine, TurnOK, HoldOK, OneOwner, Owner, qvars, cvars, svars
  <2>6. DirtyOK'
    BY <1>10 DEF GiveUp, TypeOK, HoldOK, DirtyOK, qvars, cvars, svars
  <2>7. SnapOK'
    BY <1>10 DEF GiveUp, TypeOK, HoldOK, SnapOK, qvars, cvars, svars
  <2>8. QueuedReadsStayCurrent'
    BY <1>10 DEF GiveUp, TypeOK, HoldOK, DirtyOK, SnapOK, OneOwner, Owner, QueuedReadsStayCurrent, qvars, cvars, svars
  <2> QED
    BY <2>1, <2>2, <2>3, <2>4, <2>5, <2>6, <2>7, <2>8
<1>11. ASSUME NEW c \in Conns, MissedTurn(c) PROVE IInv'
  <2>1. TypeOK'
    BY <1>11 DEF MissedTurn, TypeOK, PCs, AllModes, Snaps, qvars, cvars, svars
  <2>2. LineOK'
    BY <1>11 DEF MissedTurn, TypeOK, LineOK, InLine, qvars, cvars, svars
  <2>3. TurnOK'
    BY <1>11 DEF MissedTurn, TypeOK, LineOK, TurnOK, qvars, cvars, svars
  <2>4. HoldOK'
    BY <1>11 DEF MissedTurn, TypeOK, HoldOK, qvars, cvars, svars
  <2>5. OneOwner'
    BY <1>11 DEF MissedTurn, TypeOK, LineOK, InLine, TurnOK, HoldOK, OneOwner, Owner, qvars, cvars, svars
  <2>6. DirtyOK'
    BY <1>11 DEF MissedTurn, TypeOK, HoldOK, DirtyOK, qvars, cvars, svars
  <2>7. SnapOK'
    BY <1>11 DEF MissedTurn, TypeOK, HoldOK, SnapOK, qvars, cvars, svars
  <2>8. QueuedReadsStayCurrent'
    BY <1>11 DEF MissedTurn, TypeOK, HoldOK, DirtyOK, SnapOK, OneOwner, Owner, QueuedReadsStayCurrent, qvars, cvars, svars
  <2> QED
    BY <2>1, <2>2, <2>3, <2>4, <2>5, <2>6, <2>7, <2>8
<1>12. ASSUME NEW c \in Conns, BeginInner(c) PROVE IInv'
  <2>1. TypeOK'
    BY <1>12 DEF BeginInner, LockTaken, TypeOK, PCs, AllModes, Snaps, qvars, cvars, svars
  <2>2. LineOK'
    BY <1>12 DEF BeginInner, LockTaken, TypeOK, LineOK, InLine, qvars, cvars, svars
  <2>3. TurnOK'
    BY <1>12 DEF BeginInner, LockTaken, TypeOK, LineOK, TurnOK, qvars, cvars, svars
  <2>4. HoldOK'
    BY <1>12 DEF BeginInner, LockTaken, TypeOK, HoldOK, qvars, cvars, svars
  <2>5. OneOwner'
    BY <1>12 DEF BeginInner, LockTaken, TypeOK, LineOK, InLine, TurnOK, HoldOK, OneOwner, Owner, qvars, cvars, svars
  <2>6. DirtyOK'
    BY <1>12 DEF BeginInner, LockTaken, TypeOK, HoldOK, DirtyOK, qvars, cvars, svars
  <2>7. SnapOK'
    BY <1>12 DEF BeginInner, LockTaken, TypeOK, HoldOK, SnapOK, qvars, cvars, svars
  <2>8. QueuedReadsStayCurrent'
    BY <1>12 DEF BeginInner, LockTaken, TypeOK, HoldOK, DirtyOK, SnapOK, OneOwner, Owner, QueuedReadsStayCurrent, qvars, cvars, svars
  <2> QED
    BY <2>1, <2>2, <2>3, <2>4, <2>5, <2>6, <2>7, <2>8
<1>13. ASSUME NEW c \in Conns, Read(c) PROVE IInv'
  <2>1. TypeOK'
    BY <1>13 DEF Read, TypeOK, PCs, AllModes, Snaps, qvars, cvars, svars
  <2>2. LineOK'
    BY <1>13 DEF Read, TypeOK, LineOK, InLine, qvars, cvars, svars
  <2>3. TurnOK'
    BY <1>13 DEF Read, TypeOK, LineOK, TurnOK, qvars, cvars, svars
  <2>4. HoldOK'
    BY <1>13 DEF Read, TypeOK, HoldOK, qvars, cvars, svars
  <2>5. OneOwner'
    BY <1>13 DEF Read, TypeOK, LineOK, InLine, TurnOK, HoldOK, OneOwner, Owner, qvars, cvars, svars
  <2>6. DirtyOK'
    BY <1>13 DEF Read, TypeOK, HoldOK, DirtyOK, qvars, cvars, svars
  <2>7. SnapOK'
    BY <1>13 DEF Read, TypeOK, HoldOK, SnapOK, qvars, cvars, svars
  <2>8. QueuedReadsStayCurrent'
    BY <1>13 DEF Read, TypeOK, HoldOK, DirtyOK, SnapOK, OneOwner, Owner, QueuedReadsStayCurrent, qvars, cvars, svars
  <2> QED
    BY <2>1, <2>2, <2>3, <2>4, <2>5, <2>6, <2>7, <2>8
<1>14. ASSUME NEW c \in Conns, Write(c) PROVE IInv'
  <2>1. TypeOK'
    BY <1>14 DEF Write, AtWrite, LockTaken, Stale, TypeOK, PCs, AllModes, Snaps, qvars, cvars, svars
  <2>2. LineOK'
    BY <1>14 DEF Write, AtWrite, LockTaken, Stale, TypeOK, LineOK, InLine, qvars, cvars, svars
  <2>3. TurnOK'
    BY <1>14 DEF Write, AtWrite, LockTaken, Stale, TypeOK, LineOK, TurnOK, qvars, cvars, svars
  <2>4. HoldOK'
    BY <1>14 DEF Write, AtWrite, LockTaken, Stale, TypeOK, HoldOK, qvars, cvars, svars
  <2>5. OneOwner'
    BY <1>14 DEF Write, AtWrite, LockTaken, Stale, TypeOK, LineOK, InLine, TurnOK, HoldOK, OneOwner, Owner, qvars, cvars, svars
  <2>6. DirtyOK'
    BY <1>14 DEF Write, AtWrite, LockTaken, Stale, TypeOK, HoldOK, DirtyOK, qvars, cvars, svars
  <2>7. SnapOK'
    BY <1>14 DEF Write, AtWrite, LockTaken, Stale, TypeOK, HoldOK, SnapOK, qvars, cvars, svars
  <2>8. QueuedReadsStayCurrent'
    BY <1>14 DEF Write, AtWrite, LockTaken, Stale, TypeOK, HoldOK, DirtyOK, SnapOK, OneOwner, Owner, QueuedReadsStayCurrent, qvars, cvars, svars
  <2> QED
    BY <2>1, <2>2, <2>3, <2>4, <2>5, <2>6, <2>7, <2>8
<1>15. ASSUME NEW c \in Conns, WriteBusy(c) PROVE IInv'
  <2>1. TypeOK'
    BY <1>15 DEF WriteBusy, AtWrite, LockTaken, Stale, TypeOK, PCs, AllModes, Snaps, qvars, cvars, svars
  <2>2. LineOK'
    BY <1>15 DEF WriteBusy, AtWrite, LockTaken, Stale, TypeOK, LineOK, InLine, qvars, cvars, svars
  <2>3. TurnOK'
    BY <1>15 DEF WriteBusy, AtWrite, LockTaken, Stale, TypeOK, LineOK, TurnOK, qvars, cvars, svars
  <2>4. HoldOK'
    BY <1>15 DEF WriteBusy, AtWrite, LockTaken, Stale, TypeOK, HoldOK, qvars, cvars, svars
  <2>5. OneOwner'
    BY <1>15 DEF WriteBusy, AtWrite, LockTaken, Stale, TypeOK, LineOK, InLine, TurnOK, HoldOK, OneOwner, Owner, qvars, cvars, svars
  <2>6. DirtyOK'
    BY <1>15 DEF WriteBusy, AtWrite, LockTaken, Stale, TypeOK, HoldOK, DirtyOK, qvars, cvars, svars
  <2>7. SnapOK'
    BY <1>15 DEF WriteBusy, AtWrite, LockTaken, Stale, TypeOK, HoldOK, SnapOK, qvars, cvars, svars
  <2>8. QueuedReadsStayCurrent'
    BY <1>15 DEF WriteBusy, AtWrite, LockTaken, Stale, TypeOK, HoldOK, DirtyOK, SnapOK, OneOwner, Owner, QueuedReadsStayCurrent, qvars, cvars, svars
  <2> QED
    BY <2>1, <2>2, <2>3, <2>4, <2>5, <2>6, <2>7, <2>8
<1>16. ASSUME NEW c \in Conns, AutoWrite(c) PROVE IInv'
  <2>1. TypeOK'
    BY <1>16 DEF AutoWrite, LockTaken, Outdate, TypeOK, PCs, AllModes, Snaps, qvars, cvars, svars
  <2>2. LineOK'
    BY <1>16 DEF AutoWrite, LockTaken, Outdate, TypeOK, LineOK, InLine, qvars, cvars, svars
  <2>3. TurnOK'
    BY <1>16 DEF AutoWrite, LockTaken, Outdate, TypeOK, LineOK, TurnOK, qvars, cvars, svars
  <2>4. HoldOK'
    BY <1>16 DEF AutoWrite, LockTaken, Outdate, TypeOK, HoldOK, qvars, cvars, svars
  <2>5. OneOwner'
    BY <1>16 DEF AutoWrite, LockTaken, Outdate, TypeOK, LineOK, InLine, TurnOK, HoldOK, OneOwner, Owner, qvars, cvars, svars
  <2>6. DirtyOK'
    BY <1>16 DEF AutoWrite, LockTaken, Outdate, TypeOK, HoldOK, DirtyOK, qvars, cvars, svars
  <2>7. SnapOK'
    BY <1>16 DEF AutoWrite, LockTaken, Outdate, TypeOK, HoldOK, SnapOK, qvars, cvars, svars
  <2>8. QueuedReadsStayCurrent'
    BY <1>16 DEF AutoWrite, LockTaken, Outdate, TypeOK, HoldOK, DirtyOK, SnapOK, OneOwner, Owner, QueuedReadsStayCurrent, qvars, cvars, svars
  <2> QED
    BY <2>1, <2>2, <2>3, <2>4, <2>5, <2>6, <2>7, <2>8
<1>17. ASSUME NEW c \in Conns, Commit(c) PROVE IInv'
  <2>1. TypeOK'
    BY <1>17 DEF Commit, Outdate, TypeOK, PCs, AllModes, Snaps, qvars, cvars, svars
  <2>2. LineOK'
    BY <1>17 DEF Commit, Outdate, TypeOK, LineOK, InLine, qvars, cvars, svars
  <2>3. TurnOK'
    BY <1>17 DEF Commit, Outdate, TypeOK, LineOK, TurnOK, qvars, cvars, svars
  <2>4. HoldOK'
    BY <1>17 DEF Commit, Outdate, TypeOK, HoldOK, qvars, cvars, svars
  <2>5. OneOwner'
    BY <1>17 DEF Commit, Outdate, TypeOK, LineOK, InLine, TurnOK, HoldOK, OneOwner, Owner, qvars, cvars, svars
  <2>6. DirtyOK'
    BY <1>17 DEF Commit, Outdate, TypeOK, HoldOK, DirtyOK, qvars, cvars, svars
  <2>7. SnapOK'
    BY <1>17 DEF Commit, Outdate, TypeOK, HoldOK, SnapOK, qvars, cvars, svars
  <2>8. QueuedReadsStayCurrent'
    BY <1>17 DEF Commit, Outdate, TypeOK, HoldOK, DirtyOK, SnapOK, OneOwner, Owner, QueuedReadsStayCurrent, qvars, cvars, svars
  <2> QED
    BY <2>1, <2>2, <2>3, <2>4, <2>5, <2>6, <2>7, <2>8
<1>18. ASSUME NEW c \in Conns, CommitFailed(c) PROVE IInv'
  <2>1. TypeOK'
    BY <1>18 DEF CommitFailed, TypeOK, PCs, AllModes, Snaps, qvars, cvars, svars
  <2>2. LineOK'
    BY <1>18 DEF CommitFailed, TypeOK, LineOK, InLine, qvars, cvars, svars
  <2>3. TurnOK'
    BY <1>18 DEF CommitFailed, TypeOK, LineOK, TurnOK, qvars, cvars, svars
  <2>4. HoldOK'
    BY <1>18 DEF CommitFailed, TypeOK, HoldOK, qvars, cvars, svars
  <2>5. OneOwner'
    BY <1>18 DEF CommitFailed, TypeOK, LineOK, InLine, TurnOK, HoldOK, OneOwner, Owner, qvars, cvars, svars
  <2>6. DirtyOK'
    BY <1>18 DEF CommitFailed, TypeOK, HoldOK, DirtyOK, qvars, cvars, svars
  <2>7. SnapOK'
    BY <1>18 DEF CommitFailed, TypeOK, HoldOK, SnapOK, qvars, cvars, svars
  <2>8. QueuedReadsStayCurrent'
    BY <1>18 DEF CommitFailed, TypeOK, HoldOK, DirtyOK, SnapOK, OneOwner, Owner, QueuedReadsStayCurrent, qvars, cvars, svars
  <2> QED
    BY <2>1, <2>2, <2>3, <2>4, <2>5, <2>6, <2>7, <2>8
<1>19. ASSUME NEW c \in Conns, Rollback(c) PROVE IInv'
  <2>1. TypeOK'
    <3>1. AfterRollback(c) \subseteq 0 .. Attempts
      <4>1. tries[c] \in 0 .. Attempts /\ Attempts \in Nat
        BY AttemptsAssumption DEF TypeOK
      <4>2. pc[c] = "busy" /\ mode[c] = "optimistic" => tries[c] < Attempts
        BY DEF HoldOK
      <4> QED
        BY <4>1, <4>2 DEF AfterRollback
    <3>2. tries' \in [Conns -> 0 .. Attempts]
      BY <1>19, <3>1 DEF Rollback, TypeOK
    <3> QED
      BY <1>19, <3>2 DEF Rollback, TypeOK, PCs, Snaps, qvars
  <2>2. LineOK'
    BY <1>19 DEF Rollback, AfterRollback, TypeOK, LineOK, InLine, qvars, cvars, svars
  <2>3. TurnOK'
    BY <1>19 DEF Rollback, AfterRollback, TypeOK, LineOK, TurnOK, qvars, cvars, svars
  <2>4. HoldOK'
    BY <1>19 DEF Rollback, AfterRollback, TypeOK, HoldOK, qvars, cvars, svars
  <2>5. OneOwner'
    BY <1>19 DEF Rollback, AfterRollback, TypeOK, LineOK, InLine, TurnOK, HoldOK, OneOwner, Owner, qvars, cvars, svars
  <2>6. DirtyOK'
    BY <1>19 DEF Rollback, AfterRollback, TypeOK, HoldOK, DirtyOK, qvars, cvars, svars
  <2>7. SnapOK'
    BY <1>19 DEF Rollback, AfterRollback, TypeOK, HoldOK, SnapOK, qvars, cvars, svars
  <2>8. QueuedReadsStayCurrent'
    BY <1>19 DEF Rollback, AfterRollback, TypeOK, HoldOK, DirtyOK, SnapOK, OneOwner, Owner, QueuedReadsStayCurrent, qvars, cvars, svars
  <2> QED
    BY <2>1, <2>2, <2>3, <2>4, <2>5, <2>6, <2>7, <2>8
<1>20. ASSUME OtherLocks PROVE IInv'
  <2>1. TypeOK'
    BY <1>20 DEF OtherLocks, TypeOK, PCs, AllModes, Snaps, qvars, cvars, svars
  <2>2. LineOK'
    BY <1>20 DEF OtherLocks, TypeOK, LineOK, InLine, qvars, cvars, svars
  <2>3. TurnOK'
    BY <1>20 DEF OtherLocks, TypeOK, LineOK, TurnOK, qvars, cvars, svars
  <2>4. HoldOK'
    BY <1>20 DEF OtherLocks, TypeOK, HoldOK, qvars, cvars, svars
  <2>5. OneOwner'
    BY <1>20 DEF OtherLocks, TypeOK, LineOK, InLine, TurnOK, HoldOK, OneOwner, Owner, qvars, cvars, svars
  <2>6. DirtyOK'
    BY <1>20 DEF OtherLocks, TypeOK, HoldOK, DirtyOK, qvars, cvars, svars
  <2>7. SnapOK'
    BY <1>20 DEF OtherLocks, TypeOK, HoldOK, SnapOK, qvars, cvars, svars
  <2>8. QueuedReadsStayCurrent'
    BY <1>20 DEF OtherLocks, TypeOK, HoldOK, DirtyOK, SnapOK, OneOwner, Owner, QueuedReadsStayCurrent, qvars, cvars, svars
  <2> QED
    BY <2>1, <2>2, <2>3, <2>4, <2>5, <2>6, <2>7, <2>8
<1>21. ASSUME OtherCommits PROVE IInv'
  <2>1. TypeOK'
    BY <1>21 DEF OtherCommits, TypeOK, PCs, AllModes, Snaps, qvars, cvars, svars
  <2>2. LineOK'
    BY <1>21 DEF OtherCommits, TypeOK, LineOK, InLine, qvars, cvars, svars
  <2>3. TurnOK'
    BY <1>21 DEF OtherCommits, TypeOK, LineOK, TurnOK, qvars, cvars, svars
  <2>4. HoldOK'
    BY <1>21 DEF OtherCommits, TypeOK, HoldOK, qvars, cvars, svars
  <2>5. OneOwner'
    BY <1>21 DEF OtherCommits, TypeOK, LineOK, InLine, TurnOK, HoldOK, OneOwner, Owner, qvars, cvars, svars
  <2>6. DirtyOK'
    BY <1>21 DEF OtherCommits, TypeOK, HoldOK, DirtyOK, qvars, cvars, svars
  <2>7. SnapOK'
    BY <1>21 DEF OtherCommits, TypeOK, HoldOK, SnapOK, qvars, cvars, svars
  <2>8. QueuedReadsStayCurrent'
    BY <1>21 DEF OtherCommits, TypeOK, HoldOK, DirtyOK, SnapOK, OneOwner, Owner, QueuedReadsStayCurrent, qvars, cvars, svars
  <2> QED
    BY <2>1, <2>2, <2>3, <2>4, <2>5, <2>6, <2>7, <2>8
<1>22. CASE UNCHANGED vars
  BY <1>22 DEF vars, TypeOK, LineOK, TurnOK, HoldOK, OneOwner, DirtyOK, SnapOK,
               QueuedReadsStayCurrent, Owner, InLine
<1>23. ASSUME NEW c \in Conns, Start(c) \/ Retry(c) PROVE IInv'
  <2>1. CASE Start(c)
    <3>1. tries[c] < Attempts
      BY <2>1 DEF Start, TypeOK
    <3>2. PICK m \in AllModes : BeginUnqueued(c, m) \/ BeginQueued(c, m)
      BY <2>1, ModesAssumption DEF Start
    <3> QED
      BY <1>1, <1>8, <3>1, <3>2
  <2>2. CASE Retry(c)
    <3>1. "optimistic" \in AllModes /\ "queued" \in AllModes
      BY DEF AllModes
    <3>2. (tries[c] < Attempts /\ BeginUnqueued(c, "optimistic")) \/ BeginQueued(c, "queued")
      BY <2>2 DEF Retry
    <3> QED
      BY <1>1, <1>8, <3>1, <3>2
  <2> QED
    BY <1>23, <2>1, <2>2
<1> QED
  BY <1>2, <1>3, <1>4, <1>5, <1>6, <1>7, <1>8, <1>9, <1>10, <1>11, <1>12, <1>13, <1>14, <1>15, <1>16, <1>17, <1>18, <1>19, <1>20, <1>21, <1>22, <1>23
  DEF Next, Proceed, EndTx

-----------------------------------------------------------------------------
(* The slot is handed on in arrival order: the only steps that give it to    *)
(* somebody new while anybody is in line are the three releases, and they    *)
(* give it to the head of the line.                                          *)

LEMMA StepNoOvertaking ==
  ASSUME IInv, [Next]_vars, NEW c \in Conns, NEW d \in Conns,
         InLine(c), InLine(c)', ~Owner(d), Owner(d)'
  PROVE  Before(d, c)
<1> USE DEF IInv
<1>1. Len(waiters) \in Nat /\ waiters # <<>> /\ held /\ d \notin turn
  BY LenProperties DEF InLine, LineOK, TypeOK, Owner
<1>2. ASSUME NEW T \in SUBSET turn, Release(T), d \in turn' PROVE Before(d, c)
  <2>1. waiters' = Tail(waiters) /\ d = Head(waiters)
    BY <1>1, <1>2 DEF Release
  <2>2. /\ d = waiters[1] /\ 1 \in 1 .. Len(waiters)
        /\ Len(waiters') = Len(waiters) - 1
        /\ \A j \in 1 .. Len(waiters) - 1 : waiters'[j] = waiters[j + 1]
    BY <1>1, <2>1, TailLine DEF TypeOK
  <2>3. PICK k \in 1 .. Len(waiters') : waiters'[k] = c
    BY DEF InLine
  <2>4. k + 1 \in 1 .. Len(waiters) /\ waiters[k + 1] = c /\ 1 < k + 1
    BY <1>1, <2>2, <2>3
  <2> QED
    BY <2>2, <2>4 DEF Before
<1>3. ASSUME NEW e \in Conns, PassOn(e) PROVE Before(d, c)
  <2>1. d \in turn'
    BY <1>3 DEF PassOn, AbandonWait, Owner, TypeOK
  <2> QED
    BY <1>2, <1>3, <2>1 DEF PassOn
<1>4. ASSUME NEW e \in Conns, BeginFailed(e) PROVE Before(d, c)
  <2>1. d \in turn'
    BY <1>4 DEF BeginFailed, Owner, TypeOK
  <2> QED
    BY <1>2, <1>4, <2>1 DEF BeginFailed
<1>5. ASSUME NEW e \in Conns, EndTx(e) PROVE Before(d, c)
  <2>1. d \in turn' /\ turn' # turn
    BY <1>1, <1>5 DEF EndTx, Owner, TypeOK, qvars
  <2> QED
    BY <1>2, <1>5, <2>1 DEF EndTx, qvars
<1>6. ASSUME NEW e \in Conns, NEW m \in AllModes, BeginUnqueued(e, m) \/ BeginQueued(e, m)
      PROVE FALSE
  BY <1>1, <1>6 DEF BeginUnqueued, BeginQueued, Acquire, Owner, TypeOK, qvars
<1>7. ASSUME NEW e \in Conns, JoinToWrite(e) PROVE FALSE
  BY <1>1, <1>7 DEF JoinToWrite, Acquire, Owner, TypeOK
<1>8. ASSUME NEW e \in Conns, MissedTurn(e) PROVE FALSE
  BY <1>1, <1>8 DEF MissedTurn, Owner, TypeOK, LineOK, InLine, qvars
<1>9. ASSUME NEW e \in Conns, GiveUp(e) \/ TakeTurn(e) \/ LeaveLine(e) PROVE FALSE
  BY <1>1, <1>9 DEF GiveUp, TakeTurn, LeaveLine, AbandonWait, Owner, TypeOK, qvars
<1>10. ASSUME NEW e \in Conns,
              BeginInner(e) \/ Read(e) \/ Write(e) \/ WriteBusy(e) \/ AutoWrite(e)
       PROVE FALSE
  BY <1>1, <1>10 DEF BeginInner, Read, Write, WriteBusy, AutoWrite, AtWrite, Owner,
                     TypeOK, qvars, cvars
<1>11. ASSUME NEW e \in Conns, Commit(e) \/ CommitFailed(e) \/ Rollback(e) PROVE FALSE
  BY <1>1, <1>11 DEF Commit, CommitFailed, Rollback, HoldOK, Owner, TypeOK, qvars
<1>12. CASE OtherLocks \/ OtherCommits \/ UNCHANGED vars
  BY <1>12 DEF OtherLocks, OtherCommits, vars, Owner, qvars, cvars
<1>13. ASSUME NEW e \in Conns, Start(e) \/ Retry(e) PROVE FALSE
  <2>1. \E m \in AllModes : BeginUnqueued(e, m) \/ BeginQueued(e, m)
    BY <1>13, ModesAssumption DEF Start, Retry, AllModes
  <2> QED
    BY <1>6, <2>1
<1> QED
  BY <1>3, <1>4, <1>5, <1>7, <1>8, <1>9, <1>10, <1>11, <1>12, <1>13 DEF Next, Proceed

-----------------------------------------------------------------------------
(* Every reachable state satisfies the inductive invariant. *)
THEOREM Invariance == Spec => []IInv
<1> QED
  BY InitIInv, StepIInv, PTL DEF Spec

(* Every variable keeps its type, in particular the count of optimistic      *)
(* attempts never passes federationIngestOptimisticAttempts.                 *)
THEOREM TypeCorrect == Spec => []TypeOK
<1>1. IInv => TypeOK
  BY DEF IInv
<1> QED
  BY <1>1, Invariance, PTL

(* The queue's slot has at most one owner and is held exactly while it has   *)
(* one: the race of release with a cancelled waiter loses no hand-off.       *)
THEOREM MutualExclusion == Spec => []OneOwner
<1>1. IInv => OneOwner
  BY DEF IInv
<1> QED
  BY <1>1, Invariance, PTL

(* SQLite's writer lock is only held by the owner of the queue's slot.       *)
THEOREM WriterLockUnderSlot == Spec => []LockUnderSlot
<1>1. IInv => LockUnderSlot
  BY DEF IInv, DirtyOK, LockUnderSlot, Owner
<1> QED
  BY <1>1, Invariance, PTL

(* What a transaction read after joining the queue is never outdated by a    *)
(* commit of this process.                                                   *)
THEOREM CurrentReads == Spec => []QueuedReadsStayCurrent
<1>1. IInv => QueuedReadsStayCurrent
  BY DEF IInv
<1> QED
  BY <1>1, Invariance, PTL

(* The slot goes to connections in the order in which they lined up.         *)
THEOREM ArrivalOrder == Spec => NoOvertaking
<1>1. IInv /\ [Next]_vars =>
         [\A c, d \in Conns :
             InLine(c) /\ InLine(c)' /\ ~Owner(d) /\ Owner(d)' => Before(d, c)]_vars
  BY StepNoOvertaking
<1> QED
  BY <1>1, Invariance, PTL DEF Spec, NoOvertaking

=============================================================================
