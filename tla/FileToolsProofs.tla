--------------------------- MODULE FileToolsProofs ---------------------------
(***************************************************************************)
(* The filesystem server for any number of calls, any directory tree, any  *)
(* links and paths of any length: its state stays well typed, it           *)
(* implements AuditTrail, the jail holds and creators are recorded.  The   *)
(* jail rests on one fact about paths, OpenedWhereChecked: where resolve   *)
(* ends there is no ".." and no link left for the operating system to      *)
(* follow.  It is an induction over the names of a path; the predicate is  *)
(* a set of numbers, since the provers cannot take an operator for it.     *)
(***************************************************************************)
EXTENDS FileTools, SequenceTheorems, WellFoundedInduction, TLAPS

-----------------------------------------------------------------------------
(* Numbers and sequences.                                                  *)

\* Induction over the naturals, with a set in the place of the predicate.
LEMMA SetInduction ==
    ASSUME NEW S, 0 \in S, \A n \in Nat : n \in S => n + 1 \in S
    PROVE  \A n \in Nat : n \in S
  <1> DEFINE T == Nat \ S
             R == OpToRel(<, Nat)
  <1> SUFFICES ASSUME T # {}  PROVE FALSE
    OBVIOUS
  <1>1. T \subseteq Nat /\ \A x \in T : x \notin S  OBVIOUS
  <1>2. \A x \in Nat : x \notin T => x \in S  OBVIOUS
  <1>3. IsWellFoundedOn(R, Nat)  BY NatLessThanWellFounded
  <1>4. \A x, y \in Nat : y < x => <<y, x>> \in R  BY DEF OpToRel
  <1> HIDE DEF R, T
  <1>5. PICK x \in T : \A y \in T : ~(<<y, x>> \in R)
    BY <1>1, <1>3, WFMin
  <1>6. x \in Nat /\ x # 0 /\ x - 1 \in Nat /\ x - 1 < x
    BY <1>1
  <1>7. x - 1 \in S  BY <1>2, <1>4, <1>5, <1>6
  <1>8. (x - 1) + 1 \in S  BY <1>6, <1>7
  <1>9. (x - 1) + 1 = x  BY <1>6
  <1> QED  BY <1>1, <1>8, <1>9

\* One element more.
LEMMA Appended ==
    ASSUME NEW S, NEW s \in Seq(S), NEW e \in S
    PROVE  /\ Append(s, e) \in Seq(S)
           /\ Len(s) \in Nat /\ Len(Append(s, e)) = Len(s) + 1
           /\ \A i \in 1..Len(s) : Append(s, e)[i] = s[i]
           /\ Append(s, e)[Len(s) + 1] = e
  OBVIOUS

\* The beginning of a sequence.
LEMMA Beginning ==
    ASSUME NEW S, NEW s \in Seq(S), NEW n \in 0..Len(s)
    PROVE  /\ SubSeq(s, 1, n) \in Seq(S) /\ Len(SubSeq(s, 1, n)) = n
           /\ \A i \in 1..n : SubSeq(s, 1, n)[i] = s[i]
  <1>1. \A i \in 1..n : s[i] \in S
    BY ElementOfSeq, LenProperties
  <1>2. n \in Int /\ 1 \in Int  BY LenProperties
  <1> QED  BY <1>1, <1>2, SubSeqProperties

\* Sequences that agree so far have the same beginnings.
LEMMA SameBeginning ==
    ASSUME NEW S, NEW s \in Seq(S), NEW t \in Seq(S), NEW n \in Nat, n <= Len(s), n <= Len(t),
           \A i \in 1..n : s[i] = t[i]
    PROVE  SubSeq(s, 1, n) = SubSeq(t, 1, n)
  <1>1. n \in 0..Len(s) /\ n \in 0..Len(t)  BY LenProperties
  <1> DEFINE a == SubSeq(s, 1, n)
             b == SubSeq(t, 1, n)
  <1>2. a \in Seq(S) /\ Len(a) = n /\ \A i \in 1..n : a[i] = s[i]  BY <1>1, Beginning
  <1>3. b \in Seq(S) /\ Len(b) = n /\ \A i \in 1..n : b[i] = t[i]  BY <1>1, Beginning
  <1> HIDE DEF a, b
  <1>4. a = b  BY <1>2, <1>3, SeqEqual
  <1> QED  BY <1>4 DEF a, b
  
\* One more element.
LEMMA NextBeginning ==
    ASSUME NEW S, NEW s \in Seq(S), NEW n \in Nat, n + 1 <= Len(s)
    PROVE  Append(SubSeq(s, 1, n), s[n + 1]) = SubSeq(s, 1, n + 1)
  <1> DEFINE a == SubSeq(s, 1, n)
             b == SubSeq(s, 1, n + 1)
             c == Append(a, s[n + 1])
  <1>1. n \in 0..Len(s) /\ n + 1 \in 0..Len(s) /\ n + 1 \in 1..Len(s)  BY LenProperties
  <1>0. s[n + 1] \in S  BY <1>1, ElementOfSeq
  <1>2. a \in Seq(S) /\ Len(a) = n /\ \A i \in 1..n : a[i] = s[i]  BY <1>1, Beginning
  <1>3. b \in Seq(S) /\ Len(b) = n + 1 /\ \A i \in 1..n + 1 : b[i] = s[i]  BY <1>1, Beginning
  <1> HIDE DEF a, b
  <1>4. c \in Seq(S) /\ Len(c) = n + 1 /\ c[n + 1] = s[n + 1] /\ \A i \in 1..n : c[i] = a[i]
    BY <1>0, <1>2, Appended
  <1> HIDE DEF c
  <1>5. \A i \in 1..n+1 : i \in 1..n \/ i = n + 1  OBVIOUS
  <1>6. c = b  BY <1>2, <1>3, <1>4, <1>5, SeqEqual
  <1> QED  BY <1>6 DEF a, b, c

-----------------------------------------------------------------------------
(* Where a path leads.                                                     *)

\* One name leads from a real location to a real location.
LEMMA EnterIsReal ==
    ASSUME NEW l, Real(l), NEW name \in STRING
    PROVE  Real(Enter(l, name))
  <1>1. /\ l \in Seq(STRING) /\ Len(l) \in Nat
        /\ \A i \in 1..Len(l) : l[i] # ".." /\ SubSeq(l, 1, i) \notin DOMAIN Links
    BY LenProperties DEF Real
  <1>2. CASE name # ".."
    <2> DEFINE next == Append(l, name)
    <2>1. CASE next \in DOMAIN Links
      BY <1>2, <2>1, RealPlaces DEF Enter, Follow
    <2>2. CASE next \notin DOMAIN Links
      <3>0. Enter(l, name) = next  BY <1>2, <2>2 DEF Enter, Follow
      <3>1. /\ next \in Seq(STRING) /\ Len(next) = Len(l) + 1 /\ next[Len(l) + 1] = name
            /\ \A i \in 1..Len(l) : next[i] = l[i]
        BY <1>1, Appended
      <3> HIDE DEF next
      <3>2. ASSUME NEW i \in 1..Len(next)
            PROVE  next[i] # ".." /\ SubSeq(next, 1, i) \notin DOMAIN Links
        <4>1. CASE i \in 1..Len(l)
          <5>1. SubSeq(next, 1, i) = SubSeq(l, 1, i)
            <6>1. i \in Nat /\ i <= Len(l) /\ i <= Len(next)  BY <1>1, <3>1, <4>1
            <6>2. \A j \in 1..i : next[j] = l[j]  BY <1>1, <3>1, <4>1
            <6> QED  BY <1>1, <3>1, <6>1, <6>2, SameBeginning
          <5> QED  BY <1>1, <3>1, <4>1, <5>1
        <4>2. CASE i = Len(next)
          BY <1>2, <2>2, <3>1, <4>2, SubSeqFull
        <4> QED  BY <1>1, <3>1, <4>1, <4>2
      <3>3. Real(next)  BY <3>1, <3>2 DEF Real
      <3> QED  BY <3>0, <3>3
    <2> QED  BY <2>1, <2>2
  <1>3. CASE name = ".." /\ l = << >>
    BY <1>3 DEF Enter
  <1>4. CASE name = ".." /\ l # << >>
    <2> DEFINE up == SubSeq(l, 1, Len(l) - 1)
    <2>0. Enter(l, name) = up  BY <1>4 DEF Enter
    <2>1. Len(l) - 1 \in 0..Len(l)  BY <1>1, <1>4, EmptySeq
    <2>2. /\ up \in Seq(STRING) /\ Len(up) = Len(l) - 1
          /\ \A i \in 1..Len(up) : up[i] = l[i]
      BY <1>1, <2>1, Beginning
    <2> HIDE DEF up
    <2>3. ASSUME NEW i \in 1..Len(up)  PROVE SubSeq(up, 1, i) = SubSeq(l, 1, i)
      <3>1. i \in Nat /\ i <= Len(l) /\ i <= Len(up)  BY <1>1, <2>1, <2>2
      <3>2. \A j \in 1..i : up[j] = l[j]  BY <2>1, <2>2
      <3> QED  BY <1>1, <2>2, <3>1, <3>2, SameBeginning
    <2>4. \A i \in 1..Len(up) : i \in 1..Len(l)  BY <1>1, <2>1, <2>2
    <2>5. Real(up)  BY <1>1, <2>2, <2>3, <2>4 DEF Real
    <2> QED  BY <2>0, <2>5
  <1> QED  BY <1>2, <1>3, <1>4


\* The recursion of Walk, unfolded.
LEMMA WalkExists ==
    ASSUME NEW from, NEW names \in Seq(STRING)
    PROVE  \E at : /\ at[0] = from /\ Walk(from, names) = at[Len(names)]
                   /\ \A i \in 1..Len(names) : at[i] = Enter(at[i - 1], names[i])
  <1> DEFINE N == Len(names)
             Leads(g, n) == /\ g[0] = from
                            /\ \A i \in 1..n : g[i] = Enter(g[i - 1], names[i])
             S == {n \in Nat : n <= N => \E g : g = [i \in 0..n |-> g[i]] /\ Leads(g, n)}
  <1>1. N \in Nat  OBVIOUS
  <1>2. 0 \in S
    <2> DEFINE g == [i \in 0..0 |-> from]
    <2>1. g = [i \in 0..0 |-> g[i]] /\ Leads(g, 0)  OBVIOUS
    <2> HIDE DEF g
    <2> QED  BY <2>1
  <1>3. ASSUME NEW n \in Nat, n \in S  PROVE n + 1 \in S
    <2> SUFFICES ASSUME n + 1 <= N
                 PROVE  \E g : g = [i \in 0..n+1 |-> g[i]] /\ Leads(g, n + 1)
      OBVIOUS
    <2>1. PICK g : g = [i \in 0..n |-> g[i]] /\ Leads(g, n)
      BY <1>1, <1>3
    <2> DEFINE h == [i \in 0..n+1 |-> IF i <= n THEN g[i] ELSE Enter(g[n], names[n + 1])]
    <2>2. h = [i \in 0..n+1 |-> h[i]]  OBVIOUS
    <2>3. h[0] = from  BY <2>1
    <2>4. ASSUME NEW i \in 1..n+1  PROVE h[i] = Enter(h[i - 1], names[i])
      <3>1. h[i - 1] = g[i - 1]  OBVIOUS
      <3>2. CASE i = n + 1
        <4>1. h[i] = Enter(g[n], names[n + 1])  BY <3>2
        <4>2. i - 1 = n  BY <3>2
        <4> HIDE DEF h
        <4> QED  BY <3>1, <3>2, <4>1, <4>2
      <3>3. CASE i \in 1..n
        <4>1. h[i] = g[i]  BY <3>3
        <4> HIDE DEF h
        <4> QED  BY <2>1, <3>1, <3>3, <4>1
      <3> QED  BY <3>2, <3>3
    <2> HIDE DEF h
    <2> QED  BY <2>2, <2>3, <2>4
  <1>4. N \in S
    <2> HIDE DEF S
    <2> QED  BY <1>1, <1>2, <1>3, SetInduction
  <1>5. PICK g : g = [i \in 0..N |-> g[i]] /\ Leads(g, N)
    BY <1>1, <1>4
  <1>6. g = [i \in 0..N |-> IF i = 0 THEN from ELSE Enter(g[i - 1], names[i])]
    <2>1. ASSUME NEW i \in 0..N
          PROVE  g[i] = IF i = 0 THEN from ELSE Enter(g[i - 1], names[i])
      <3>1. Leads(g, N) /\ (i = 0 \/ i \in 1..N)  BY <1>1, <1>5
      <3> QED  BY <3>1
    <2> QED  BY <1>5, <2>1
  <1> DEFINE at == CHOOSE f : f = [i \in 0..N |-> IF i = 0 THEN from
                                                  ELSE Enter(f[i - 1], names[i])]
  <1>7. at = [i \in 0..N |-> IF i = 0 THEN from ELSE Enter(at[i - 1], names[i])]
    BY <1>6
  <1>8. Walk(from, names) = at[N]  BY DEF Walk
  <1> HIDE DEF at
  <1>9. at[0] = from /\ \A i \in 1..N : at[i] = Enter(at[i - 1], names[i])
    BY <1>1, <1>7
  <1> QED  BY <1>8, <1>9

\* A walk from a real location ends at a real location.
LEMMA WalkIsReal ==
    ASSUME NEW from, Real(from), NEW names \in Seq(STRING)
    PROVE  Real(Walk(from, names))
  <1>1. PICK at : /\ at[0] = from /\ Walk(from, names) = at[Len(names)]
                  /\ \A i \in 1..Len(names) : at[i] = Enter(at[i - 1], names[i])
    BY WalkExists
  <1> DEFINE S == {n \in Nat : n <= Len(names) => Real(at[n])}
  <1>2. Len(names) \in Nat  BY LenProperties
  <1>3. 0 \in S  BY <1>1
  <1>4. ASSUME NEW n \in Nat, n \in S  PROVE n + 1 \in S
    <2> SUFFICES ASSUME n + 1 <= Len(names)  PROVE Real(at[n + 1])
      OBVIOUS
    <2>1. Real(at[n]) /\ n + 1 \in 1..Len(names) /\ (n + 1) - 1 = n  BY <1>2, <1>4
    <2>2. names[n + 1] \in STRING  BY <2>1, ElementOfSeq
    <2>3. at[n + 1] = Enter(at[n], names[n + 1])  BY <1>1, <2>1
    <2> QED  BY <2>1, <2>2, <2>3, EnterIsReal
  <1>5. Len(names) \in S
    <2> HIDE DEF S
    <2> QED  BY <1>2, <1>3, <1>4, SetInduction
  <1> QED  BY <1>1, <1>2, <1>5

\* The operating system opens a real location where it is.
LEMMA RealIsOpened ==
    ASSUME NEW l, Real(l)
    PROVE  Opened(l) = l
  <1>1. /\ l \in Seq(STRING) /\ Len(l) \in Nat
        /\ \A i \in 1..Len(l) : l[i] # ".." /\ SubSeq(l, 1, i) \notin DOMAIN Links
    BY LenProperties DEF Real
  <1>2. PICK at : /\ at[0] = << >> /\ Opened(l) = at[Len(l)]
                  /\ \A i \in 1..Len(l) : at[i] = Enter(at[i - 1], l[i])
    BY <1>1, WalkExists DEF Opened
  <1> DEFINE S == {n \in Nat : n <= Len(l) => at[n] = SubSeq(l, 1, n)}
  <1>3. 0 \in S
    <2>1. SubSeq(l, 1, 0) = << >>  BY SubSeqEmpty
    <2> QED  BY <1>2, <2>1
  <1>4. ASSUME NEW n \in Nat, n \in S  PROVE n + 1 \in S
    <2> SUFFICES ASSUME n + 1 <= Len(l)  PROVE at[n + 1] = SubSeq(l, 1, n + 1)
      OBVIOUS
    <2>1. at[n] = SubSeq(l, 1, n) /\ n + 1 \in 1..Len(l) /\ (n + 1) - 1 = n  BY <1>1, <1>4
    <2>2. at[n + 1] = Enter(SubSeq(l, 1, n), l[n + 1])  BY <1>2, <2>1
    <2>3. Append(SubSeq(l, 1, n), l[n + 1]) = SubSeq(l, 1, n + 1)  BY <1>1, NextBeginning
    <2>4. l[n + 1] # ".." /\ SubSeq(l, 1, n + 1) \notin DOMAIN Links  BY <1>1, <2>1
    <2> QED  BY <2>2, <2>3, <2>4 DEF Enter, Follow
  <1>5. Len(l) \in S
    <2> HIDE DEF S
    <2> QED  BY <1>1, <1>3, <1>4, SetInduction
  <1> QED  BY <1>1, <1>2, <1>5, SubSeqFull

\* What resolve returns is real, and so opened where resolve_in_root saw it.
LEMMA OpenedWhereChecked ==
    ASSUME NEW p \in Paths
    PROVE  Opened(resolve(p)) = resolve(p)
  <1>1. Real(<< >>)  BY EmptySeq DEF Real
  <1>2. Real(resolve(p))
    BY <1>1, RealPlaces, PathsAssumption, WalkIsReal DEF resolve
  <1> QED  BY <1>2, RealIsOpened

-----------------------------------------------------------------------------
(* One call at a time.                                                     *)

\* Nothing is known of a call before it starts; whoever is at the audit has read or
\* written; a row stands for a deed; and a file that is open for writing is there.
CallIsSound(c) ==
    /\ call[c].stage = "idle" => ~call[c].acted /\ call[c].row = None
    /\ call[c].stage = "audit" => call[c].acted /\ call[c].op \in {"read", "write"}
    /\ call[c].row # None => call[c].acted
    /\ call[c].stage \in {"thread", "open"} => /\ call[c].at \in Locations
                                               /\ call[c].op \in {"read", "write"}
                                               /\ call[c].row = None
    /\ call[c].stage = "open" => files[call[c].at] # None

Inv == TypeOK /\ \A c \in Calls : CallIsSound(c)

\* What a step makes of the call c: every field, all other calls being as they were.
Becomes(c, stage, op, at, existed, acted, row) ==
    /\ call' \in [Calls -> CallState]
    /\ \A q \in Calls \ {c} : call'[q] = call[q]
    /\ call'[c].stage = stage /\ call'[c].op = op /\ call'[c].at = at
    /\ call'[c].existed = existed /\ call'[c].acted = acted /\ call'[c].row = row

\* Replacing one record by another.
LEMMA Replaced ==
    ASSUME TypeOK, NEW c \in Calls, NEW rec \in CallState, call' = [call EXCEPT ![c] = rec]
    PROVE  Becomes(c, rec.stage, rec.op, rec.at, rec.existed, rec.acted, rec.row)
  BY DEF TypeOK, Becomes

\* A step to another stage.
LEMMA GoToBecomes ==
    ASSUME TypeOK, NEW c \in Calls, NEW s \in Stages, GoTo(c, s)
    PROVE  Becomes(c, s, call[c].op, call[c].at, call[c].existed, call[c].acted, call[c].row)
  <1> DEFINE rec == [call[c] EXCEPT !.stage = s]
  <1>1. call[c] \in CallState  BY DEF TypeOK
  <1>2. /\ rec \in CallState /\ rec.stage = s /\ rec.op = call[c].op /\ rec.at = call[c].at
        /\ rec.existed = call[c].existed /\ rec.acted = call[c].acted /\ rec.row = call[c].row
    BY <1>1 DEF CallState
  <1>3. call' = [call EXCEPT ![c] = rec]  BY DEF GoTo
  <1> HIDE DEF rec
  <1> QED  BY <1>2, <1>3, Replaced

\* A step to the audit, with the deed done.
LEMMA ToAuditBecomes ==
    ASSUME TypeOK, NEW c \in Calls, ToAudit(c)
    PROVE  Becomes(c, "audit", call[c].op, call[c].at, call[c].existed, TRUE, call[c].row)
  <1> DEFINE rec == [call[c] EXCEPT !.stage = "audit", !.acted = TRUE]
  <1>1. call[c] \in CallState  BY DEF TypeOK
  <1>2. /\ rec \in CallState /\ rec.stage = "audit" /\ rec.op = call[c].op /\ rec.at = call[c].at
        /\ rec.existed = call[c].existed /\ rec.acted = TRUE /\ rec.row = call[c].row
    BY <1>1 DEF CallState, Stages
  <1>3. call' = [call EXCEPT ![c] = rec]  BY DEF ToAudit
  <1> HIDE DEF rec
  <1> QED  BY <1>2, <1>3, Replaced

\* The audit's commit.
LEMMA AuditBecomes ==
    ASSUME TypeOK, NEW c \in Calls, Audit(c)
    PROVE  /\ Becomes(c, "returned", call[c].op, call[c].at, call[c].existed, call[c].acted,
                      action(c))
           /\ action(c) # None
  <1> DEFINE rec == [call[c] EXCEPT !.row = action(c), !.stage = "returned"]
  <1>1. call[c] \in CallState  BY DEF TypeOK
  <1>2. action(c) \in {"read", "write", "create"}  BY DEF action
  <1>3. /\ rec \in CallState /\ rec.stage = "returned" /\ rec.op = call[c].op
        /\ rec.at = call[c].at /\ rec.existed = call[c].existed
        /\ rec.acted = call[c].acted /\ rec.row = action(c)
    BY <1>1, <1>2 DEF CallState, Stages
  <1>4. call' = [call EXCEPT ![c] = rec]  BY DEF Audit
  <1> HIDE DEF rec
  <1>5. Becomes(c, "returned", call[c].op, call[c].at, call[c].existed, call[c].acted, action(c))
    BY <1>3, <1>4, Replaced
  <1> QED  BY <1>2, <1>5, NoneIsNoAction

\* A call that begins: refused, or handed to the thread.
LEMMA StartBecomes ==
    ASSUME TypeOK, NEW c \in Calls, NEW op \in {"read", "write"}, NEW p \in Paths,
           NEW refused \in BOOLEAN, Start(c, op, p, refused)
    PROVE  /\ call[c].stage = "idle" /\ files' = files
           /\ \/ Becomes(c, "raised", None, None, FALSE, FALSE, None)
              \/ \E at \in Locations, existed \in BOOLEAN :
                    /\ Becomes(c, "thread", op, at, existed, FALSE, None)
                    /\ Inside(at) /\ (op = "write" => (existed <=> exists(at)))
  <1> DEFINE target == resolve_in_root(p)
             at == Opened(target)
             existed == op = "write" /\ exists(at)
             bad == [Idle EXCEPT !.stage = "raised"]
             good == [Idle EXCEPT !.stage = "thread", !.op = op, !.at = at, !.existed = existed]
  <1>1. call[c].stage = "idle" /\ files' = files  BY DEF Start
  <1>2. call' = [call EXCEPT ![c] = IF refused \/ target = None THEN bad ELSE good]
    BY DEF Start
  <1>3. existed \in BOOLEAN  BY DEF exists
  <1>4. CASE refused \/ target = None
    <2>1. /\ bad \in CallState /\ bad.stage = "raised" /\ bad.op = None /\ bad.at = None
          /\ bad.existed = FALSE /\ bad.acted = FALSE /\ bad.row = None
      BY DEF Idle, CallState, Stages
    <2>2. call' = [call EXCEPT ![c] = bad]  BY <1>2, <1>4
    <2> HIDE DEF bad
    <2>3. Becomes(c, bad.stage, bad.op, bad.at, bad.existed, bad.acted, bad.row)
      BY <2>1, <2>2, Replaced
    <2> QED  BY <1>1, <2>1, <2>3
  <1>5. CASE ~(refused \/ target = None)
    <2>1. target = resolve(p) /\ Inside(target)  BY <1>5 DEF resolve_in_root
    <2>2. at \in Locations /\ Inside(at)  BY <2>1, OpenedWhereChecked DEF Locations
    <2>3. call' = [call EXCEPT ![c] = good]  BY <1>2, <1>5
    <2>7. op = "write" => (existed <=> exists(at))  OBVIOUS
    <2> HIDE DEF at, existed, target
    <2>4. /\ good \in CallState /\ good.stage = "thread" /\ good.op = op /\ good.at = at
          /\ good.existed = existed /\ good.acted = FALSE /\ good.row = None
      BY <1>3, <2>2 DEF Idle, CallState, Stages
    <2> HIDE DEF good
    <2>5. Becomes(c, good.stage, good.op, good.at, good.existed, good.acted, good.row)
      BY <2>3, <2>4, Replaced
    <2>6. Becomes(c, "thread", op, at, existed, FALSE, None)  BY <2>4, <2>5
    <2> QED  BY <1>1, <1>3, <2>2, <2>6, <2>7
  <1> QED  BY <1>4, <1>5

\* A listing ends at once: refused without a location, or at one inside the jail.
LEMMA ListBecomes ==
    ASSUME TypeOK, NEW c \in Calls, NEW p \in Paths, list_directory(c, p)
    PROVE  /\ call[c].stage = "idle" /\ files' = files
           /\ \E s \in {"returned", "raised"}, at \in Locations \union {None} :
                 /\ Becomes(c, s, "list", at, FALSE, FALSE, None)
                 /\ at # None => Inside(at)
  <1> DEFINE target == resolve_in_root(p)
             at == IF target = None THEN None ELSE Opened(target)
             s == IF target # None /\ Opened(target) \in Directories THEN "returned" ELSE "raised"
             bad == [Idle EXCEPT !.stage = "raised", !.op = "list"]
             good == [Idle EXCEPT !.op = "list", !.at = Opened(target),
                            !.stage = IF Opened(target) \in Directories THEN "returned" ELSE "raised"]
  <1>1. call[c].stage = "idle" /\ files' = files  BY DEF list_directory
  <1>2. call' = [call EXCEPT ![c] = IF target = None THEN bad ELSE good]
    BY DEF list_directory
  <1>3. s \in {"returned", "raised"}  OBVIOUS
  <1>4. /\ target # None => Opened(target) \in Locations
        /\ at \in Locations \union {None} /\ (at # None => Inside(at))
    BY OpenedWhereChecked DEF resolve_in_root, Locations
  <1> DEFINE rec == IF target = None THEN bad ELSE good
  <1>5. /\ rec.stage = s /\ rec.op = "list" /\ rec.at = at
        /\ rec.existed = FALSE /\ rec.acted = FALSE /\ rec.row = None
    <2> HIDE DEF target
    <2> QED  BY DEF Idle
  <1>6. rec \in CallState
    <2> HIDE DEF target
    <2>2. target # None => good \in CallState
      BY <1>4 DEF Idle, CallState, Stages
    <2>1. bad \in CallState  BY DEF Idle, CallState, Stages
    <2> QED  BY <2>1, <2>2
  <1>7. call' = [call EXCEPT ![c] = rec]  BY <1>2
  <1> HIDE DEF rec, at, s, bad, good, target
  <1>8. Becomes(c, rec.stage, rec.op, rec.at, rec.existed, rec.acted, rec.row)
    BY <1>6, <1>7, Replaced
  <1>9. Becomes(c, s, "list", at, FALSE, FALSE, None)  BY <1>5, <1>8
  <1> QED  BY <1>1, <1>3, <1>4, <1>9

-----------------------------------------------------------------------------
\* No step takes a file away, so the files others have open are still there.
LEMMA SoundStep ==
    ASSUME Inv, NEW c \in Calls, NEW stage, NEW op, NEW at, NEW existed, NEW acted, NEW row,
           Becomes(c, stage, op, at, existed, acted, row),
           files' \in [Locations -> (SUBSET (Calls \union {Before})) \union {None}],
           \A l \in Locations : files[l] # None => files'[l] # None,
           stage = "idle" => ~acted /\ row = None,
           stage = "audit" => acted /\ op \in {"read", "write"},
           row # None => acted,
           stage \in {"thread", "open"} => at \in Locations /\ op \in {"read", "write"} /\ row = None,
           stage = "open" => files'[at] # None
    PROVE  Inv'
  <1>1. TypeOK'  BY DEF Inv, TypeOK, Becomes
  <1>2. CallIsSound(c)'  BY DEF CallIsSound, Becomes
  <1>3. ASSUME NEW q \in Calls, q # c  PROVE CallIsSound(q)'
    BY <1>3 DEF Inv, CallIsSound, Becomes
  <1> QED  BY <1>1, <1>2, <1>3 DEF Inv

\* One lemma per kind of step: the invariant goes on, and the audit trail sees a deed,
\* a row, or nothing.
Trailed == Trail!Next \/ UNCHANGED <<Performed, Recorded, Told>>

\* A step that neither acts nor records nor reports.
LEMMA NothingTrailed ==
    ASSUME TypeOK, NEW c \in Calls, NEW stage, NEW op, NEW at, NEW existed, NEW acted, NEW row,
           Becomes(c, stage, op, at, existed, acted, row),
           acted = call[c].acted, row = call[c].row,
           call[c].stage # "returned", stage = "returned" => op = "list"
    PROVE  UNCHANGED <<Performed, Recorded, Told>>
  <1>1. \A q \in Calls : /\ call'[q].acted = call[q].acted
                         /\ call'[q].row = call[q].row
                         /\ (call'[q].op # "list" /\ call'[q].stage = "returned")
                              <=> (call[q].op # "list" /\ call[q].stage = "returned")
    BY DEF Becomes
  <1> QED  BY <1>1 DEF Performed, Recorded, Told

LEMMA ArrivalStep ==
    ASSUME Inv, NEW c \in Calls, NEW p \in Paths,
           \/ read_text_file(c, p) \/ list_directory(c, p)
           \/ \E too_long \in BOOLEAN : write_text_file(c, p, too_long)
    PROVE  Inv' /\ Trailed
  <1>1. TypeOK /\ CallIsSound(c)  BY DEF Inv
  <1>2. ASSUME call[c].stage = "idle", files' = files,
               NEW stage \in {"raised", "thread", "returned"}, NEW op, NEW at, NEW existed,
               Becomes(c, stage, op, at, existed, FALSE, None),
               stage = "returned" => op = "list",
               stage = "thread" => at \in Locations /\ op \in {"read", "write"}
        PROVE  Inv' /\ Trailed
    <2>1. Inv'  BY <1>1, <1>2, SoundStep DEF Inv, TypeOK
    <2>2. call[c].acted = FALSE /\ call[c].row = None
      BY <1>1, <1>2 DEF CallIsSound, TypeOK, CallState
    <2>3. UNCHANGED <<Performed, Recorded, Told>>
      BY <1>1, <1>2, <2>2, NothingTrailed
    <2> QED  BY <2>1, <2>3 DEF Trailed
  <1>3. CASE list_directory(c, p)
    <2>1. PICK s \in {"returned", "raised"}, at \in Locations \union {None} :
             /\ Becomes(c, s, "list", at, FALSE, FALSE, None)
             /\ at # None => Inside(at)
      BY <1>1, <1>3, ListBecomes
    <2>2. call[c].stage = "idle" /\ files' = files  BY <1>3 DEF list_directory
    <2> QED  BY <1>2, <2>1, <2>2
  <1>4. ASSUME NEW op \in {"read", "write"}, NEW refused \in BOOLEAN, Start(c, op, p, refused)
        PROVE  Inv' /\ Trailed
    <2>1. call[c].stage = "idle" /\ files' = files  BY <1>4 DEF Start
    <2>2. CASE Becomes(c, "raised", None, None, FALSE, FALSE, None)
      BY <1>2, <2>1, <2>2
    <2>3. ASSUME NEW at \in Locations, NEW existed \in BOOLEAN,
                 Becomes(c, "thread", op, at, existed, FALSE, None)
          PROVE  Inv' /\ Trailed
      BY <1>2, <2>1, <2>3
    <2> QED  BY <1>1, <1>4, <2>2, <2>3, StartBecomes
  <1> QED  BY <1>3, <1>4 DEF read_text_file, write_text_file

\* A step that ends or advances a call without acting.
LEMMA QuietStep ==
    ASSUME Inv, NEW c \in Calls,
           NEW s \in {"open", "raised", "cancelled"}, GoTo(c, s),
           call[c].stage \in {"thread", "open", "audit"},
           files' \in [Locations -> (SUBSET (Calls \union {Before})) \union {None}],
           \A l \in Locations : files[l] # None => files'[l] # None,
           s = "open" => call[c].stage = "thread" /\ files'[call[c].at] # None
    PROVE  Inv' /\ Trailed
  <1>1. TypeOK /\ CallIsSound(c)  BY DEF Inv
  <1>2. Becomes(c, s, call[c].op, call[c].at, call[c].existed, call[c].acted, call[c].row)
    BY <1>1, GoToBecomes DEF Stages
  <1>3. Inv'  BY <1>1, <1>2, SoundStep DEF CallIsSound
  <1>4. UNCHANGED <<Performed, Recorded, Told>>
    BY <1>1, <1>2, NothingTrailed
  <1> QED  BY <1>3, <1>4 DEF Trailed

\* The read or the write takes place.
LEMMA DeedStep ==
    ASSUME Inv, NEW c \in Calls, ToAudit(c), call[c].stage \in {"thread", "open"},
           files' \in [Locations -> (SUBSET (Calls \union {Before})) \union {None}],
           \A l \in Locations : files[l] # None => files'[l] # None
    PROVE  Inv' /\ Trailed
  <1>1. TypeOK /\ CallIsSound(c)  BY DEF Inv
  <1>2. Becomes(c, "audit", call[c].op, call[c].at, call[c].existed, TRUE, call[c].row)
    BY <1>1, ToAuditBecomes
  <1>3. Inv'  BY <1>1, <1>2, SoundStep DEF CallIsSound
  <1>4. Performed' = Performed \union {c}
    BY <1>2 DEF Performed, Becomes
  <1>5. Recorded' = Recorded /\ Told' = Told
    BY <1>1, <1>2 DEF Recorded, Told, Becomes
  <1>6. Trail!Do(c)  BY <1>4, <1>5 DEF Trail!Do
  <1> QED  BY <1>3, <1>6 DEF Trailed, Trail!Next

\* The row is committed and the tool returns.
LEMMA AuditStep ==
    ASSUME Inv, NEW c \in Calls, Audit(c)
    PROVE  Inv' /\ Trailed
  <1>1. TypeOK /\ CallIsSound(c) /\ call[c].stage = "audit" /\ files' = files
    BY DEF Inv, Audit
  <1>2. /\ Becomes(c, "returned", call[c].op, call[c].at, call[c].existed, call[c].acted,
                   action(c))
        /\ action(c) # None
    BY <1>1, AuditBecomes
  <1>3. call[c].acted /\ call[c].op # "list"  BY <1>1 DEF CallIsSound
  <1>4. Inv'  BY <1>1, <1>2, <1>3, SoundStep DEF TypeOK
  <1> HIDE DEF action
  <1>5. Performed' = Performed /\ c \in Performed
    BY <1>2, <1>3 DEF Performed, Becomes
  <1>6. Recorded' = Recorded \union {c}
    BY <1>2 DEF Recorded, Becomes
  <1>7. Told' = Told \union {c}
    BY <1>2, <1>3 DEF Told, Becomes
  <1>8. Trail!Record(c)  BY <1>5, <1>6, <1>7 DEF Trail!Record
  <1> QED  BY <1>4, <1>8 DEF Trailed, Trail!Next

\* Every step keeps the invariant and is a step of AuditTrail or none.
LEMMA InvStep ==
    ASSUME Inv, [Next]_vars
    PROVE  Inv' /\ Trailed
  <1> DEFINE Typed == files \in [Locations -> (SUBSET (Calls \union {Before})) \union {None}]
  <1>1. Typed  BY DEF Inv, TypeOK
  <1>2. CASE UNCHANGED vars
    <2>1. Inv'  BY <1>2 DEF vars, Inv, TypeOK, CallIsSound
    <2> QED  BY <1>2, <2>1 DEF vars, Trailed, Performed, Recorded, Told
  <1>3. ASSUME NEW c \in Calls, ReadText(c)  PROVE Inv' /\ Trailed
    BY <1>1, <1>3, QuietStep, DeedStep DEF ReadText
  <1>4. ASSUME NEW c \in Calls, OpenForWrite(c)  PROVE Inv' /\ Trailed
    <2>1. call[c].at \in Locations  BY <1>4 DEF OpenForWrite, Inv, CallIsSound
    <2>2. files' \in [Locations -> (SUBSET (Calls \union {Before})) \union {None}]
      BY <1>1, <1>4, <2>1 DEF OpenForWrite
    <2>3. \A l \in Locations : files'[l] = IF l = call[c].at THEN {} ELSE files[l]
      BY <1>1, <1>4 DEF OpenForWrite
    <2>4. {} # None  BY NoneIsNoSet
    <2> QED  BY <1>4, <2>1, <2>2, <2>3, <2>4, QuietStep DEF OpenForWrite
  <1>5. ASSUME NEW c \in Calls, WriteBytes(c)  PROVE Inv' /\ Trailed
    <2>1. call[c].at \in Locations /\ files[call[c].at] # None
      BY <1>5 DEF WriteBytes, Inv, CallIsSound
    <2>2. files[call[c].at] \in SUBSET (Calls \union {Before})  BY <1>1, <2>1
    <2>3. PICK tail \in {{}, files[call[c].at]} :
             files' = [files EXCEPT ![call[c].at] = {c} \union tail]
      BY <1>5 DEF WriteBytes
    <2>4. {c} \union tail \in SUBSET (Calls \union {Before})  BY <2>2, <2>3
    <2>5. {c} \union tail # None  BY <2>4, NoneIsNoSet
    <2>6. files' \in [Locations -> (SUBSET (Calls \union {Before})) \union {None}]
      BY <1>1, <2>1, <2>3, <2>4
    <2>7. \A l \in Locations : files[l] # None => files'[l] # None
      BY <1>1, <2>3, <2>5
    <2> QED  BY <1>5, <2>6, <2>7, DeedStep DEF WriteBytes
  <1>6. ASSUME NEW c \in Calls, WriteFails(c) \/ AuditFails(c) \/ Cancel(c)
        PROVE  Inv' /\ Trailed
    BY <1>1, <1>6, QuietStep DEF WriteFails, AuditFails, Cancel
  <1>7. CASE Next
    BY <1>3, <1>4, <1>5, <1>6, <1>7, ArrivalStep, AuditStep DEF Next
  <1> QED  BY <1>2, <1>7

\* The invariant holds initially.
LEMMA InvInit ==
    ASSUME Init  PROVE Inv
  <1>1. Idle \in CallState /\ Idle.stage = "idle" /\ ~Idle.acted /\ Idle.row = None
    BY DEF Idle, CallState, Stages
  <1>2. TypeOK  BY <1>1 DEF Init, TypeOK
  <1>3. \A c \in Calls : call[c] = Idle  BY DEF Init
  <1>4. \A c \in Calls : CallIsSound(c)
    BY <1>1, <1>3 DEF CallIsSound
  <1> QED  BY <1>2, <1>4 DEF Inv

\* Files and calls stay well typed, whatever the tree, its links and the paths.
THEOREM FilesTypeCorrect == Spec => []TypeOK
  <1>1. Inv => TypeOK  BY DEF Inv
  <1> QED  BY InvInit, InvStep, <1>1, PTL DEF Spec

\* Reads and writes implement the audit trail: what the model is told has its row,
\* and a row its deed, for any number of concurrent calls.
THEOREM FilesAudited == Spec => ImplementsAuditTrail
  <1>1. Init => Trail!Init
    BY DEF Init, Idle, Trail!Init, Performed, Recorded, Told
  <1>2. Inv /\ [Next]_vars => [Trail!Next]_Trail!tvars
    BY InvStep DEF Trailed, Trail!tvars
  <1> QED  BY InvInit, InvStep, <1>1, <1>2, PTL DEF Spec, ImplementsAuditTrail, Trail!Spec

-----------------------------------------------------------------------------
(* The jail, and who made a file.                                          *)

\* A call is inside the jail; a write that got past open() is not on a directory, and
\* its row says what it read before.
CallIsTraced(c) ==
    /\ call[c].at # None => Inside(call[c].at)
    /\ call[c].stage = "idle" => call[c].op = None
    /\ call[c].stage \in {"thread", "open"} => Inside(call[c].at)
    /\ call[c].stage = "open" => call[c].op = "write"
    /\ call[c].op = "write" /\ call[c].stage \in {"open", "audit"} => call[c].at \notin Directories
    /\ call[c].op = "write" /\ (call[c].stage = "returned" \/ call[c].row # None) =>
          /\ call[c].at \notin Directories
          /\ call[c].row = IF call[c].existed THEN "write" ELSE "create"

\* A new file has a writer that found none, and a writer that found one came after
\* another that did not.
FirstWriter(l) == \E q \in Writers(l) : ~call[q].existed
FileIsTraced(l) ==
    /\ ~Inside(l) => files[l] \in {None, {Before}}
    /\ l \notin Present =>
          /\ files[l] # None => FirstWriter(l)
          /\ l \notin Directories /\ Writers(l) # {} => FirstWriter(l)

TraceInv == /\ Inv
            /\ \A c \in Calls : CallIsTraced(c)
            /\ \A l \in Locations : FileIsTraced(l)

\* A call that goes on keeps its place in the jail and among the writers.
LEMMA GoesOn ==
    ASSUME TraceInv, NEW c \in Calls, NEW stage \in Stages \ {"idle"}, NEW acted, NEW row,
           Becomes(c, stage, call[c].op, call[c].at, call[c].existed, acted, row),
           stage \in {"thread", "open"} => call[c].stage = "thread",
           stage = "open" => call[c].op = "write",
           call[c].op = "write" /\ stage \in {"open", "audit"} => call[c].at \notin Directories,
           call[c].op = "write" /\ (stage = "returned" \/ row # None) =>
              /\ call[c].at \notin Directories
              /\ row = IF call[c].existed THEN "write" ELSE "create",
           \A l \in Locations :
              \/ files'[l] = files[l]
              \/ l = call[c].at /\ Inside(l) /\ call[c].op = "write" /\ l \notin Directories
    PROVE  (\A q \in Calls : CallIsTraced(q)') /\ \A l \in Locations : FileIsTraced(l)'
  <1>1. \A q \in Calls : /\ call'[q].op = call[q].op /\ call'[q].at = call[q].at
                         /\ call'[q].existed = call[q].existed
    BY DEF Becomes
  <1>2. \A l \in Locations : Writers(l)' = Writers(l) /\ (FirstWriter(l)' <=> FirstWriter(l))
    BY <1>1 DEF Writers, FirstWriter
  <1>3. CallIsTraced(c)'
    BY DEF TraceInv, CallIsTraced, Becomes
  <1>4. ASSUME NEW q \in Calls, q # c  PROVE CallIsTraced(q)'
    BY <1>4 DEF TraceInv, CallIsTraced, Becomes
  <1>5. ASSUME NEW l \in Locations  PROVE FileIsTraced(l)'
    <2>1. CASE files'[l] = files[l]
      BY <1>2, <2>1 DEF TraceInv, FileIsTraced
    <2>2. CASE l = call[c].at /\ Inside(l) /\ call[c].op = "write" /\ l \notin Directories
      <3>1. c \in Writers(l)  BY <2>2 DEF Writers
      <3> QED  BY <1>2, <2>2, <3>1 DEF TraceInv, FileIsTraced
    <2> QED  BY <2>1, <2>2
  <1> QED  BY <1>3, <1>4, <1>5

\* A call that begins is the first writer of its file, or there was one.
LEMMA Begins ==
    ASSUME TraceInv, NEW c \in Calls, call[c].stage = "idle", files' = files,
           NEW stage \in {"raised", "thread", "returned"}, NEW op, NEW at, NEW existed \in BOOLEAN,
           Becomes(c, stage, op, at, existed, FALSE, None),
           stage # "thread" => op # "write", at # None => Inside(at),
           stage = "thread" => at \in Locations /\ Inside(at),
           op = "write" => (existed <=> exists(at))
    PROVE  (\A q \in Calls : CallIsTraced(q)') /\ \A l \in Locations : FileIsTraced(l)'
  <1>1. call[c].op # "write"  BY NoneIsNoAction DEF TraceInv, CallIsTraced
  <1>2. CallIsTraced(c)'  BY DEF CallIsTraced, Becomes
  <1>3. ASSUME NEW q \in Calls, q # c  PROVE CallIsTraced(q)'
    BY <1>3 DEF TraceInv, CallIsTraced, Becomes
  <1>4. ASSUME NEW l \in Locations  PROVE FileIsTraced(l)'
    <2>1. Writers(l)' = IF op = "write" /\ at = l THEN Writers(l) \union {c} ELSE Writers(l)
      BY <1>1 DEF Writers, Becomes
    <2>2. \A q \in Writers(l) : q # c /\ call'[q].existed = call[q].existed
      BY <1>1 DEF Writers, Becomes
    <2>3. FirstWriter(l) => FirstWriter(l)'
      BY <2>1, <2>2 DEF FirstWriter
    <2>4. FileIsTraced(l)  BY DEF TraceInv
    <2>5. ASSUME op = "write", at = l, l \notin Present, l \notin Directories
          PROVE  FirstWriter(l)'
      <3>1. CASE ~existed
        BY <2>1, <2>5, <3>1 DEF FirstWriter, Becomes
      <3>2. CASE existed
        BY <2>3, <2>4, <2>5, <3>2 DEF exists, FileIsTraced
      <3> QED  BY <3>1, <3>2
    <2> QED  BY <2>1, <2>3, <2>4, <2>5 DEF FileIsTraced
  <1> QED  BY <1>2, <1>3, <1>4

\* Every step keeps the calls in the jail and the files traced.
LEMMA TraceStep ==
    ASSUME TraceInv, [Next]_vars
    PROVE  TraceInv'
  <1> DEFINE Traced == (\A q \in Calls : CallIsTraced(q)') /\ \A l \in Locations : FileIsTraced(l)'
  <1>1. Inv /\ TypeOK  BY DEF TraceInv, Inv
  <1>2. CASE UNCHANGED vars
    <2>1. \A c \in Calls : CallIsTraced(c)'
      BY <1>2 DEF vars, TraceInv, CallIsTraced
    <2>2. \A l \in Locations : FileIsTraced(l)'
      BY <1>2 DEF vars, TraceInv, FileIsTraced, FirstWriter, Writers
    <2> QED  BY <1>1, <2>1, <2>2, InvStep DEF TraceInv
  <1>3. ASSUME NEW c \in Calls, NEW p \in Paths, list_directory(c, p)  PROVE Traced
    <2>1. PICK s \in {"returned", "raised"}, at \in Locations \union {None} :
             /\ Becomes(c, s, "list", at, FALSE, FALSE, None)
             /\ at # None => Inside(at)
      BY <1>1, <1>3, ListBecomes
    <2>2. call[c].stage = "idle" /\ files' = files  BY <1>3 DEF list_directory
    <2>3. s \in {"raised", "thread", "returned"} /\ s # "thread"  BY <2>1
    <2>4. FALSE \in BOOLEAN /\ "list" # "write"  OBVIOUS
    <2> QED  BY <2>1, <2>2, <2>3, <2>4, Begins
  <1>4. ASSUME NEW c \in Calls, NEW p \in Paths, NEW op \in {"read", "write"},
               NEW refused \in BOOLEAN, Start(c, op, p, refused)
        PROVE  Traced
    <2>1. call[c].stage = "idle" /\ files' = files  BY <1>4 DEF Start
    <2>2. CASE Becomes(c, "raised", None, None, FALSE, FALSE, None)
      BY <2>1, <2>2, NoneIsNoAction, Begins
    <2>3. ASSUME NEW at \in Locations, NEW existed \in BOOLEAN,
                 Becomes(c, "thread", op, at, existed, FALSE, None),
                 Inside(at), op = "write" => (existed <=> exists(at))
          PROVE  Traced
      BY <2>1, <2>3, Begins
    <2> QED  BY <1>1, <1>4, <2>2, <2>3, StartBecomes
  <1>5. ASSUME NEW c \in Calls, ReadText(c)  PROVE Traced
    <2>1. /\ call[c].op = "read" /\ call[c].stage = "thread" /\ files' = files
          /\ GoTo(c, "raised") \/ ToAudit(c)
      BY <1>5 DEF ReadText
    <2>2. PICK s \in {"raised", "audit"}, acted \in BOOLEAN :
             Becomes(c, s, call[c].op, call[c].at, call[c].existed, acted, call[c].row)
      <3>1. call[c].acted \in BOOLEAN  BY <1>1 DEF TypeOK, CallState
      <3> QED  BY <1>1, <2>1, <3>1, GoToBecomes, ToAuditBecomes DEF Stages
    <2> QED  BY <2>1, <2>2, GoesOn DEF Stages
  <1>6. ASSUME NEW c \in Calls, OpenForWrite(c)  PROVE Traced
    <2>1. /\ call[c].stage = "thread" /\ call[c].op = "write" /\ call[c].at \notin Directories
          /\ files' = [files EXCEPT ![call[c].at] = {}] /\ GoTo(c, "open")
      BY <1>6 DEF OpenForWrite
    <2>2. Becomes(c, "open", call[c].op, call[c].at, call[c].existed, call[c].acted, call[c].row)
      BY <1>1, <2>1, GoToBecomes DEF Stages
    <2>3. Inside(call[c].at) /\ call[c].row = None
      BY <1>1, <2>1 DEF TraceInv, CallIsTraced, Inv, CallIsSound
    <2>4. \A l \in Locations :
             \/ files'[l] = files[l]
             \/ l = call[c].at /\ Inside(l) /\ call[c].op = "write" /\ l \notin Directories
      BY <1>1, <2>1, <2>3 DEF TypeOK
    <2>5. "open" \in Stages \ {"idle"}  BY DEF Stages
    <2> QED  BY <2>1, <2>2, <2>3, <2>4, <2>5, GoesOn
  <1>7. ASSUME NEW c \in Calls, WriteBytes(c)  PROVE Traced
    <2>1. call[c].stage = "open" /\ ToAudit(c)  BY <1>7 DEF WriteBytes
    <2>2. Becomes(c, "audit", call[c].op, call[c].at, call[c].existed, TRUE, call[c].row)
      BY <1>1, <2>1, ToAuditBecomes
    <2>3. /\ Inside(call[c].at) /\ call[c].row = None
          /\ call[c].op = "write" /\ call[c].at \notin Directories
      BY <1>1, <2>1 DEF TraceInv, CallIsTraced, Inv, CallIsSound
    <2>4. \A l \in Locations :
             \/ files'[l] = files[l]
             \/ l = call[c].at /\ Inside(l) /\ call[c].op = "write" /\ l \notin Directories
      BY <1>1, <1>7, <2>3 DEF WriteBytes, TypeOK
    <2>5. "audit" \in Stages \ {"idle"}  BY DEF Stages
    <2> QED  BY <2>1, <2>2, <2>3, <2>4, <2>5, GoesOn
  <1>8. ASSUME NEW c \in Calls, WriteFails(c) \/ AuditFails(c) \/ Cancel(c)  PROVE Traced
    <2>1. PICK s \in {"raised", "cancelled"} : GoTo(c, s)
      BY <1>8 DEF WriteFails, AuditFails, Cancel
    <2>2. files' = files  BY <1>8 DEF WriteFails, AuditFails, Cancel
    <2>3. Becomes(c, s, call[c].op, call[c].at, call[c].existed, call[c].acted, call[c].row)
      BY <1>1, <2>1, GoToBecomes DEF Stages
    <2>4. CallIsTraced(c)  BY DEF TraceInv
    <2> QED  BY <2>2, <2>3, <2>4, GoesOn DEF Stages, CallIsTraced
  <1>9. ASSUME NEW c \in Calls, Audit(c)  PROVE Traced
    <2>1. Becomes(c, "returned", call[c].op, call[c].at, call[c].existed, call[c].acted, action(c))
      BY <1>1, <1>9, AuditBecomes
    <2>2. call[c].stage = "audit" /\ files' = files  BY <1>9 DEF Audit
    <2>3. call[c].op = "write" => /\ call[c].at \notin Directories
                                  /\ action(c) = IF call[c].existed THEN "write" ELSE "create"
      BY <2>2 DEF TraceInv, CallIsTraced, action
    <2> QED  BY <2>1, <2>2, <2>3, GoesOn DEF Stages
  <1>10. CASE Next
    <2>1. Inv'  BY <1>1, InvStep
    <2>2. Traced
      BY <1>3, <1>4, <1>5, <1>6, <1>7, <1>8, <1>9, <1>10
         DEF Next, read_text_file, write_text_file
    <2> QED  BY <2>1, <2>2 DEF TraceInv
  <1> QED  BY <1>2, <1>10

LEMMA TraceInit ==
    ASSUME Init  PROVE TraceInv
  <1>1. /\ Idle.stage = "idle" /\ Idle.op = None /\ Idle.at = None /\ Idle.row = None
    BY DEF Idle
  <1>2. \A c \in Calls : call[c] = Idle  BY DEF Init
  <1>3. \A c \in Calls : CallIsTraced(c)
    BY <1>1, <1>2, NoneIsNoAction DEF CallIsTraced
  <1>4. \A l \in Locations : Writers(l) = {}
    BY <1>1, <1>2, NoneIsNoAction DEF Writers
  <1>5. \A l \in Locations : FileIsTraced(l)
    BY <1>4 DEF FileIsTraced, Init
  <1> QED  BY <1>3, <1>5, InvInit DEF TraceInv

\* Whatever mixture of "..", absolute parts and links a path is made of, and however
\* long it is, what the operating system opens lies under ROOT, and no file elsewhere
\* changes.
THEOREM JailProved == Spec => []JailHolds
  <1>1. TraceInv => JailHolds  BY DEF TraceInv, CallIsTraced, FileIsTraced, JailHolds
  <1> QED  BY TraceInit, TraceStep, <1>1, PTL DEF Spec

\* A new file all whose writers returned has a "create" row, and a "write" row on a new
\* file comes after somebody else's, for any number of overlapping writers.
THEOREM CreatorsRecorded == Spec => []CreatorsAreRecorded
  <1>1. ASSUME TraceInv  PROVE CreatorsAreRecorded
    <2> SUFFICES ASSUME NEW l \in Locations \ Present
                 PROVE  /\ files[l] # None /\ (\A c \in Writers(l) : call[c].stage = "returned")
                              => \E c \in Writers(l) : call[c].row = "create"
                        /\ \A c \in Writers(l) : call[c].row = "write" =>
                              \E q \in Writers(l) \ {c} : ~call[q].existed
      BY DEF CreatorsAreRecorded
    <2>1. FileIsTraced(l)  BY <1>1 DEF TraceInv
    <2>2. \A c \in Writers(l) : /\ CallIsTraced(c) /\ call[c].op = "write" /\ call[c].at = l
      BY <1>1 DEF TraceInv, Writers
    <2>3. ASSUME files[l] # None, \A c \in Writers(l) : call[c].stage = "returned"
          PROVE  \E c \in Writers(l) : call[c].row = "create"
      <3>1. PICK q \in Writers(l) : ~call[q].existed
        BY <2>1, <2>3 DEF FileIsTraced, FirstWriter
      <3> QED  BY <2>2, <2>3, <3>1 DEF CallIsTraced
    <2>4. ASSUME NEW c \in Writers(l), call[c].row = "write"
          PROVE  \E q \in Writers(l) \ {c} : ~call[q].existed
      <3>1. l \notin Directories /\ call[c].existed
        BY <2>2, <2>4, NoneIsNoAction DEF CallIsTraced
      <3>2. PICK q \in Writers(l) : ~call[q].existed
        BY <2>1, <2>4, <3>1 DEF FileIsTraced, FirstWriter
      <3> QED  BY <3>1, <3>2
    <2> QED  BY <2>3, <2>4
  <1> QED  BY TraceInit, TraceStep, <1>1, PTL DEF Spec
================================================================================
