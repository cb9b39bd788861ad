----------------------------- MODULE FacesProofs -----------------------------
(* The faces of Faces, for every program that keeps the discipline of        *)
(* FacesOutline: the calls of main.cpp keep it, so does one call after       *)
(* another, and under it each task may rely on the points of its outline.    *)
EXTENDS MCFaces, FacesOutline, TLAPS, WellFoundedInduction

\* Two sequences one after the other: the length, and the elements.
LEMMA Concatenation ==
  ASSUME NEW s, s \in Seq(Range(s)), NEW r, r \in Seq(Range(r))
  PROVE  /\ s \o r \in Seq(Range(s \o r))
         /\ Len(s) \in Nat /\ Len(r) \in Nat /\ Len(s \o r) = Len(s) + Len(r)
         /\ \A k \in 1 .. Len(s) : (s \o r)[k] = s[k]
         /\ \A k \in 1 .. Len(r) : (s \o r)[Len(s) + k] = r[k]
  <1> DEFINE S == Range(s) \cup Range(r)
  <1>1. s \in Seq(S) /\ r \in Seq(S)
    <2>1. ASSUME NEW A, NEW B, A \subseteq B, NEW q \in Seq(A) PROVE q \in Seq(B)
      BY <2>1
    <2> QED BY <2>1
  <1>2. /\ s \o r \in Seq(S) /\ Len(s) \in Nat /\ Len(r) \in Nat
        /\ Len(s \o r) = Len(s) + Len(r)
        /\ \A k \in 1 .. Len(s) : (s \o r)[k] = s[k]
        /\ \A k \in 1 .. Len(r) : (s \o r)[Len(s) + k] = r[k]
    <2> HIDE DEF S
    <2> QED BY <1>1
  <1>3. s \o r \in Seq(Range(s \o r))
    <2>1. ASSUME NEW A, NEW q \in Seq(A) PROVE q \in Seq(Range(q))
      BY <2>1 DEF Range
    <2> QED BY <1>2, <2>1
  <1> QED BY <1>2, <1>3

\* A sequence of one element.
LEMMA Single ==
  ASSUME NEW e PROVE <<e>> \in Seq(Range(<<e>>)) /\ Len(<<e>>) = 1 /\ <<e>>[1] = e
  BY DEF Range

\* Code that leads to m, then code that leads from m: the two outlines joined at m.
LEMMA Composition ==
  ASSUME NEW h, NEW m, NEW g, NEW s, NEW r, Runs(h, s, m), Runs(m, r, g)
  PROVE  Runs(h, s \o r, g)
  <1>1. PICK o \in Outlines(h, s, m) : TRUE  BY DEF Runs
  <1>2. PICK p \in Outlines(m, r, g) : TRUE  BY DEF Runs
  <1> DEFINE n == Len(s)
             q == [k \in 1 .. Len(s \o r) + 1 |-> IF k <= n THEN o[k] ELSE p[k - n]]
  <1>3. /\ s \o r \in Seq(Range(s \o r))
        /\ n \in Nat /\ Len(r) \in Nat /\ Len(s \o r) = n + Len(r)
        /\ \A k \in 1 .. n : (s \o r)[k] = s[k]
        /\ \A k \in 1 .. Len(r) : (s \o r)[n + k] = r[k]
    BY Concatenation DEF Runs
  <1>4. /\ o \in [1 .. n + 1 -> Points] /\ o[1] = h /\ o[n + 1] = m
        /\ \A k \in 1 .. n : Leads(o[k], s[k], o[k + 1])
    BY <1>1 DEF Outlines
  <1>5. /\ p \in [1 .. Len(r) + 1 -> Points] /\ p[1] = m /\ p[Len(r) + 1] = g
        /\ \A k \in 1 .. Len(r) : Leads(p[k], r[k], p[k + 1])
    BY <1>2 DEF Outlines
  <1> HIDE DEF n
  <1>6. q \in [1 .. Len(s \o r) + 1 -> Points]
    BY <1>3, <1>4, <1>5
  <1>7. q[1] = h /\ q[Len(s \o r) + 1] = g
    BY <1>3, <1>4, <1>5
  <1>8. ASSUME NEW k \in 1 .. Len(s \o r) PROVE Leads(q[k], (s \o r)[k], q[k + 1])
    <2>1. CASE k < n
      <3>1. k \in 1 .. n /\ q[k] = o[k] /\ q[k + 1] = o[k + 1]
        BY <2>1, <1>3
      <3> QED BY <3>1, <1>3, <1>4
    <2>2. CASE k = n
      <3>1. k \in 1 .. n /\ q[k] = o[k] /\ q[k + 1] = p[1]
        BY <2>2, <1>3
      <3> QED BY <3>1, <2>2, <1>3, <1>4, <1>5
    <2>3. CASE k > n
      <3>1. PICK j \in 1 .. Len(r) : k = n + j
        <4>1. k - n \in 1 .. Len(r) /\ k = n + (k - n)
          BY <2>3, <1>3
        <4> QED BY <4>1
      <3>2. q[k] = p[j] /\ q[k + 1] = p[j + 1]
        BY <3>1, <1>3
      <3> QED BY <3>1, <3>2, <1>3, <1>5
    <2> QED BY <2>1, <2>2, <2>3, <1>3
  <1> HIDE DEF q
  <1>9. q \in Outlines(h, s \o r, g)
    BY <1>6, <1>7, <1>8 DEF Outlines
  <1> QED BY <1>3, <1>9 DEF Runs

\* A step that Leads allows is code that may be executed.
LEMMA OneStep ==
  ASSUME NEW h \in Points, NEW g \in Points, NEW e, Leads(h, e, g)
  PROVE  Runs(h, <<e>>, g)
  <1> DEFINE o == [k \in 1 .. 2 |-> IF k = 1 THEN h ELSE g]
  <1>1. o \in [1 .. 2 -> Points] /\ o[1] = h /\ o[2] = g  OBVIOUS
  <1>2. Leads(o[1], <<e>>[1], o[1 + 1])
    BY <1>1
  <1> HIDE DEF o
  <1>3. o \in Outlines(h, <<e>>, g)
    BY <1>1, <1>2, Single DEF Outlines
  <1> QED BY <1>3, Single DEF Runs

\* So is no step at all.
LEMMA NoStep ==
  ASSUME NEW h \in Points PROVE Runs(h, <<>>, h)
  <1> DEFINE o == [k \in 1 .. 1 |-> h]
  <1>1. o \in Outlines(h, <<>>, h)
    BY DEF Outlines
  <1> QED BY <1>1 DEF Runs, Range

\* A set of numbers that is not empty has a least one.
LEMMA Least ==
  ASSUME NEW T \in SUBSET Nat, T # {}
  PROVE  \E n \in T : \A m \in T : n <= m
  <1> DEFINE Less == {ss \in Nat \X Nat : ss[1] < ss[2]}
  <1>1. IsWellFoundedOn(Less, Nat)
    BY NatLessThanWellFounded DEF OpToRel
  <1>2. PICK n \in T : \A m \in T : <<m, n>> \notin Less
    <2> HIDE DEF Less
    <2> QED BY <1>1, WFMin
  <1>3. ASSUME NEW m \in T PROVE n <= m
    <2>1. m \in Nat /\ n \in Nat /\ <<m, n>> \notin Less
      BY <1>2
    <2>2. <<m, n>> \in Nat \X Nat /\ (m < n => <<m, n>> \in Less)
      BY <2>1
    <2> QED BY <2>1, <2>2
  <1> QED BY <1>3

\* A set of numbers that holds 0, and n + 1 with every n, holds them all.
LEMMA Induction ==
  ASSUME NEW T, 0 \in T, \A n \in Nat : n \in T => n + 1 \in T
  PROVE  Nat \subseteq T
  <1> SUFFICES ASSUME Nat \ T # {} PROVE FALSE
    OBVIOUS
  <1>1. PICK n \in Nat \ T : \A m \in Nat \ T : n <= m
    BY Least
  <1>2. n # 0
    BY <1>1
  <1>3. n - 1 \in Nat /\ n - 1 \in T
    BY <1>1, <1>2
  <1> QED BY <1>1, <1>3

\* A loop, each pass of which leads from a point of H to a point of H again.
LEMMA Loop ==
  ASSUME NEW H \in SUBSET Points, NEW n \in Nat, NEW seqs, Len(seqs) = n,
         n = 0 => seqs = <<>>,
         \A i \in 1 .. n : \A h \in H : \E g \in H : Runs(h, seqs[i], g)
  PROVE  \A h \in H : \E g \in H : Runs(h, FlattenSeq(seqs), g)
  <1> DEFINE Body(f, i) == IF i = 1 THEN seqs[i] ELSE f[i - 1] \o seqs[i]
             Upto(m) == \E f : f = [i \in 1 .. m |-> Body(f, i)]
             flatten == CHOOSE f : f = [i \in 1 .. n |-> Body(f, i)]
             T == {m \in Nat : Upto(m)}
             Stays(s) == \A h \in H : \E g \in H : Runs(h, s, g)
  <1>1. Upto(n)
    <2>1. 0 \in T
      <3> DEFINE f == [i \in 1 .. 0 |-> H]
      <3>1. f = [i \in 1 .. 0 |-> Body(f, i)]
        OBVIOUS
      <3> QED BY <3>1
    <2>2. ASSUME NEW m \in Nat, m \in T PROVE m + 1 \in T
      <3>1. PICK f : f = [i \in 1 .. m |-> Body(f, i)]
        BY <2>2
      <3> DEFINE g == [i \in 1 .. m + 1 |-> IF i <= m THEN f[i] ELSE Body(f, i)]
      <3>2. ASSUME NEW i \in 1 .. m + 1 PROVE g[i] = Body(g, i)
        <4>1. i = 1 \/ (i - 1 \in 1 .. m /\ g[i - 1] = f[i - 1])
          OBVIOUS
        <4>2. Body(g, i) = Body(f, i)
          BY <4>1
        <4>3. i <= m => f[i] = Body(f, i)
          <5> HIDE DEF Body
          <5> QED BY <3>1
        <4> QED BY <4>2, <4>3
      <3>3. g = [i \in 1 .. m + 1 |-> Body(g, i)]
        BY <3>2
      <3>4. Upto(m + 1)
        BY <3>3
      <3> HIDE DEF Upto
      <3> QED BY <3>4
    <2> HIDE DEF T
    <2>3. Nat \subseteq T
      BY <2>1, <2>2, Induction
    <2> QED BY <2>3 DEF T
  <1>2. flatten = [i \in 1 .. n |-> Body(flatten, i)]
    BY <1>1, Zenon
  <1>3. FlattenSeq(seqs) = IF n = 0 THEN <<>> ELSE flatten[n]
    BY DEF FlattenSeq
  <1> HIDE DEF flatten
  <1> DEFINE R == {m \in Nat : m \in 1 .. n => Stays(flatten[m])}
  <1>4. n \in R
    <2>1. 0 \in R
      OBVIOUS
    <2>2. ASSUME NEW m \in Nat, m \in R PROVE m + 1 \in R
      <3> SUFFICES ASSUME m + 1 \in 1 .. n PROVE Stays(flatten[m + 1])
        OBVIOUS
      <3>1. flatten[m + 1] = Body(flatten, m + 1)
        BY <1>2
      <3>2. Stays(seqs[m + 1])
        OBVIOUS
      <3>3. CASE m = 0
        BY <3>1, <3>2, <3>3
      <3>4. CASE m # 0
        <4>1. flatten[m + 1] = flatten[m] \o seqs[m + 1]
          <5>1. m + 1 # 1 /\ (m + 1) - 1 = m
            BY <3>4
          <5> QED BY <3>1, <5>1, Zenon
        <4>2. Stays(flatten[m])
          BY <2>2, <3>4
        <4>3. Stays(flatten[m] \o seqs[m + 1])
          BY <4>2, <3>2, Composition
        <4> QED BY <4>1, <4>3
      <3> QED BY <3>3, <3>4
    <2> HIDE DEF R
    <2>3. Nat \subseteq R
      BY <2>1, <2>2, Induction
    <2> QED BY <2>3
  <1>5. CASE n = 0
    BY <1>3, <1>5, NoStep
  <1>6. CASE n # 0
    <2>1. Stays(flatten[n])
      BY <1>4, <1>6
    <2> QED BY <1>3, <1>6, <2>1
  <1> QED BY <1>5, <1>6

-----------------------------------------------------------------------------
(* The calls.                                                               *)

\* The point at which these locks are held and this is known.
Point(locks, face, read, own) == [held |-> locks, face |-> face, read |-> read, own |-> own]

\* What is held and known together: the points named by their parts.
LEMMA PointsOf ==
  ASSUME NEW face \in SUBSET Targets, NEW read \in Reads, NEW own \in SUBSET Ports
  PROVE  /\ Point("PORT", face, read, own) \in Points
         /\ Point("both", face, read, own) \in Points
         /\ read # ReadOutputs => Point("none", {}, read, own) \in Points
  BY DEF Point, Points

\* CPortController::instance().lock(): from no lock to that of the controller.
LEMMA Acquired ==
  ASSUME NEW read \in Reads, read # ReadOutputs, NEW own \in SUBSET Ports
  PROVE  Runs(Point("none", {}, read, own), Acquire, Point("PORT", {}, read, own))
  <1> DEFINE h == Point("none", {}, read, own)
             g == Point("PORT", {}, read, own)
  <1>1. h \in Points /\ g \in Points
    BY PointsOf
  <1>2. Leads(h, [op |-> "instance"], h) /\ Leads(h, [op |-> "lock", res |-> "PORT"], g)
    BY DEF Leads, Point
  <1> HIDE DEF h, g
  <1>3. Runs(h, <<[op |-> "instance"]>>, h) /\ Runs(h, Lock("PORT"), g)
    BY <1>1, <1>2, OneStep DEF Lock
  <1> QED BY <1>3, Composition DEF Acquire, h, g

\* unlock(): what was known of the multiplexer is known no more.
LEMMA Released ==
  ASSUME NEW face \in SUBSET Targets,
         NEW read \in Reads, read # ReadOutputs, NEW own \in SUBSET Ports
  PROVE  Runs(Point("PORT", face, read, own), Release, Point("none", {}, read, own))
  <1> DEFINE h == Point("PORT", face, read, own)
             g == Point("none", {}, read, own)
  <1>1. h.held = "PORT" /\ g = [held |-> "none", face |-> {}, read |-> h.read, own |-> h.own]
    BY DEF Point
  <1> HIDE DEF h, g
  <1>2. Leads(h, [op |-> "unlock", res |-> "PORT"], g)
    BY <1>1 DEF Leads
  <1>3. h \in Points /\ g \in Points
    BY PointsOf DEF h, g
  <1>4. Runs(h, Release, g)
    BY <1>2, <1>3, OneStep DEF Release, Unlock
  <1> QED BY <1>4 DEF h, g

\* SelectPort(p): the multiplexer is on p, by way of NORTH.
LEMMA Selected ==
  ASSUME NEW face \in SUBSET Targets, NEW read \in Reads, NEW own \in SUBSET Ports,
         NEW p \in Targets
  PROVE  Runs(Point("PORT", face, read, own), SelectPort(p), Point("PORT", {p}, read, own))
  <1> DEFINE h(f) == Point("PORT", f, read, own)
  <1>1. NORTH \in Targets
    BY PortAssumption DEF Targets
  <1>2. ASSUME NEW f \in SUBSET Targets, NEW q \in Targets
        PROVE  Runs(h(f), <<[op |-> "select", port |-> q]>>, h({q}))
    <2>1. h(f).held # "none" /\ h({q}) = [h(f) EXCEPT !.face = {q}]
      BY DEF Point
    <2>2. h(f) \in Points /\ h({q}) \in Points
      BY PointsOf
    <2> HIDE DEF h
    <2>3. Leads(h(f), [op |-> "select", port |-> q], h({q}))
      BY <2>1 DEF Leads
    <2> QED BY <2>2, <2>3, OneStep
  <1> HIDE DEF h
  <1>3. SelectPort(p) = <<[op |-> "select", port |-> NORTH]>> \o <<[op |-> "select", port |-> p]>>
    BY DEF SelectPort
  <1>4. Runs(h(face), SelectPort(p), h({p}))
    BY <1>1, <1>2, <1>3, Composition
  <1> QED BY <1>4 DEF h

\* A transaction on p in a locked section of the bus, with the controller locked.
LEMMA BusSteps ==
  ASSUME NEW face \in SUBSET Targets, NEW own \in SUBSET Ports,
         NEW r1 \in Reads, NEW r2 \in Reads,
         NEW p \in Targets, p # NULLPORT => face = {p},
         NEW effect, Ends(Point("both", face, r1, own), p, effect, Point("both", face, r2, own))
  PROVE  /\ Runs(Point("PORT", face, r1, own), Lock("TW"), Point("both", face, r1, own))
         /\ Runs(Point("both", face, r1, own), Transact(p, effect), Point("both", face, r2, own))
         /\ Runs(Point("both", face, r2, own), Unlock("TW"), Point("PORT", face, r2, own))
  <1> DEFINE h1 == Point("PORT", face, r1, own)
             b1 == Point("both", face, r1, own)
             b2 == Point("both", face, r2, own)
             h2 == Point("PORT", face, r2, own)
             end == [op |-> "end", port |-> p, effect |-> effect]
  <1>1. /\ h1.held = "PORT" /\ b1 = [h1 EXCEPT !.held = "both"] /\ b1.held = "both"
        /\ b2.held = "both" /\ h2 = [b2 EXCEPT !.held = "PORT"]
        /\ b1.face = face
    BY DEF Point
  <1>2. {h1, h2, b1, b2} \subseteq Points
    BY PointsOf
  <1>3. Ends(b1, p, end.effect, b2) /\ end = [op |-> "end", port |-> p, effect |-> end.effect]
    OBVIOUS
  <1> HIDE DEF h1, b1, b2, h2, end
  <1>4. Leads(h1, [op |-> "lock", res |-> "TW"], b1)
    BY <1>1 DEF Leads
  <1>5. Leads(b1, [op |-> "start"], b1)
    BY <1>1 DEF Leads
  <1>6. Leads(b1, end, b2)
    BY <1>1, <1>3 DEF Leads
  <1>7. Leads(b2, [op |-> "unlock", res |-> "TW"], h2)
    BY <1>1 DEF Leads
  <1>8. /\ Runs(h1, Lock("TW"), b1) /\ Runs(b1, <<[op |-> "start"]>>, b1)
        /\ Runs(b1, <<end>>, b2) /\ Runs(b2, Unlock("TW"), h2)
    BY <1>2, <1>4, <1>5, <1>6, <1>7, OneStep DEF Lock, Unlock
  <1>9. Transact(p, effect) = <<[op |-> "start"]>> \o <<end>>
    BY DEF Transact, end
  <1>10. Runs(b1, Transact(p, effect), b2)
    BY <1>8, <1>9, Composition
  <1> QED BY <1>8, <1>10 DEF h1, b1, b2, h2

\* A locked section of the bus, and what its transaction reads or writes back.
LEMMA SectionRuns ==
  ASSUME NEW face \in SUBSET Targets, NEW own \in SUBSET Ports,
         NEW r1 \in Reads, NEW r2 \in Reads,
         NEW p \in Targets, p # NULLPORT => face = {p},
         NEW effect, Ends(Point("both", face, r1, own), p, effect, Point("both", face, r2, own))
  PROVE  Runs(Point("PORT", face, r1, own),
              Lock("TW") \o Transact(p, effect) \o Unlock("TW"),
              Point("PORT", face, r2, own))
  BY BusSteps, Composition

\* Of the reset register; h is restored, the read value is used up.
LEMMA OutputsChanged ==
  ASSUME NEW face \in SUBSET Targets, NEW own \in SUBSET Ports, NEW p \in Ports,
         NEW do \in {"enable", "disable"}
  PROVE  Runs(Point("PORT", face, Nothing, own),
              OutputSection(ReadOutputs) \o OutputSection([do |-> do, which |-> p]),
              Point("PORT", face, Nothing, own))
  <1>1. Nothing \in Reads /\ ReadOutputs \in Reads /\ NULLPORT \in Targets
    BY DEF Reads, Targets
  <1>2. Ends(Point("both", face, Nothing, own), NULLPORT, ReadOutputs, Point("both", face, ReadOutputs, own))
    <2> DEFINE h == Point("both", face, Nothing, own)
               g == Point("both", face, ReadOutputs, own)
    <2>1. g = [h EXCEPT !.read = ReadOutputs]
      BY DEF Point
    <2> HIDE DEF h, g
    <2>2. Ends(h, NULLPORT, ReadOutputs, g)
      BY <2>1 DEF Ends
    <2> QED BY <2>2 DEF h, g
  <1>3. Ends(Point("both", face, ReadOutputs, own), NULLPORT, [do |-> do, which |-> p],
             Point("both", face, Nothing, own))
    <2> DEFINE h == Point("both", face, ReadOutputs, own)
               g == Point("both", face, Nothing, own)
    <2>1. h.read = ReadOutputs /\ g = [h EXCEPT !.read = Nothing]
      BY DEF Point
    <2> HIDE DEF h, g
    <2>2. Ends(h, NULLPORT, [do |-> do, which |-> p], g)
      BY <2>1 DEF Ends
    <2> QED BY <2>2 DEF h, g
  <1>4. /\ Runs(Point("PORT", face, Nothing, own), OutputSection(ReadOutputs),
                Point("PORT", face, ReadOutputs, own))
        /\ Runs(Point("PORT", face, ReadOutputs, own), OutputSection([do |-> do, which |-> p]),
                Point("PORT", face, Nothing, own))
    BY <1>1, <1>2, <1>3, SectionRuns DEF OutputSection
  <1> QED BY <1>4, Composition

\* The calls that are made with the controller locked leave it locked.
LEMMA PortCalls ==
  ASSUME NEW face \in SUBSET Targets, NEW own \in SUBSET Ports, NEW p \in Ports
  PROVE  LET h == Point("PORT", face, Nothing, own)
         IN  /\ Runs(h, EnablePort(p), h) /\ Runs(h, DisablePort(p), h)
             /\ Runs(h, ReadInterrupts, h)
             /\ Runs(h, IsPortConnected(p), Point("PORT", {p}, Nothing, own))
  <1> DEFINE h(f) == Point("PORT", f, Nothing, own)
  <1>1. Runs(h(face), EnablePort(p), h(face)) /\ Runs(h(face), DisablePort(p), h(face))
    BY OutputsChanged DEF EnablePort, DisablePort, ReadOutputs
  <1>2. Runs(h(face), ReadInterrupts, h(face))
    <2>1. Ends(Point("both", face, Nothing, own), NULLPORT, Nothing, Point("both", face, Nothing, own))
      BY DEF Ends
    <2>2. Nothing \in Reads /\ NULLPORT \in Targets
      BY DEF Reads, Targets
    <2> QED BY <2>1, <2>2, SectionRuns DEF ReadInterrupts
  <1>3. Runs(h(face), IsPortConnected(p), h({p}))
    <2>1. Nothing \in Reads /\ p \in Targets /\ {p} \in SUBSET Targets
      BY DEF Reads, Targets
    <2>2. Leads(h({p}), [op |-> "pulse"], h({p}))
      BY DEF Leads, Point
    <2>3. Runs(h({p}), <<[op |-> "pulse"]>>, h({p}))
      BY <2>1, <2>2, PointsOf, OneStep
    <2>4. Runs(h(face), SelectPort(p), h({p}))
      BY <2>1, Selected
    <2> HIDE DEF h
    <2> QED BY <2>3, <2>4, Composition DEF IsPortConnected
  <1> QED BY <1>1, <1>2, <1>3

\* Init() is executed with no lock, and its caller is left what it had read.
LEMMA InitRuns ==
  ASSUME NEW read \in Reads, read # ReadOutputs, NEW own \in SUBSET Ports
  PROVE  Runs(Point("none", {}, read, own), Init, Point("none", {}, read, own))
  <1> DEFINE h == Point("none", {}, read, own)
             k(f) == Point("PORT", f, read, own)
             b == Point("both", {NULLPORT}, read, own)
  <1>1. NULLPORT \in Targets /\ {NULLPORT} \in SUBSET Targets /\ {} \in SUBSET Targets
    BY DEF Targets
  <1>2. h \in Points /\ k({}) \in Points /\ k({NULLPORT}) \in Points
    BY <1>1, PointsOf
  <1>3. Runs(h, Lock("PORT"), k({}))
    <2>1. Leads(h, [op |-> "lock", res |-> "PORT"], k({}))
      BY DEF Leads, Point
    <2> QED BY <1>2, <2>1, OneStep DEF Lock
  <1>4. Runs(k({}), SelectPort(NULLPORT), k({NULLPORT}))
    BY <1>1, Selected
  <1>5. /\ Runs(k({NULLPORT}), Lock("TW"), b) /\ Runs(b, Transact(NULLPORT, Nothing), b)
        /\ Runs(b, Unlock("TW"), k({NULLPORT}))
    <2>1. Ends(b, NULLPORT, Nothing, b)
      BY DEF Ends
    <2> QED BY <1>1, <2>1, BusSteps
  <1>6. Runs(k({NULLPORT}), <<[op |-> "initialised"]>>, k({NULLPORT}))
    <2>1. Leads(k({NULLPORT}), [op |-> "initialised"], k({NULLPORT}))
      BY DEF Leads, Point
    <2> QED BY <1>2, <2>1, OneStep
  <1>7. Runs(k({NULLPORT}), Unlock("PORT"), h)
    BY <1>1, Released DEF Release
  <1> HIDE DEF h, k, b
  <1>8. Runs(h, Init, h)
    BY <1>3, <1>4, <1>5, <1>6, <1>7, Composition DEF Init
  <1> QED BY <1>8 DEF h

-----------------------------------------------------------------------------
(* The calls of the light drivers.                                          *)

\* One locked section with one transaction on a face.
LEMMA OnFaceRuns ==
  ASSUME NEW own \in SUBSET Ports, NEW p \in Ports,
         NEW r1 \in Reads, r1 # ReadOutputs, NEW r2 \in Reads, r2 # ReadOutputs,
         NEW effect, Ends(Point("both", {p}, r1, own), p, effect, Point("both", {p}, r2, own))
  PROVE  Runs(Point("none", {}, r1, own), OnFace(p, effect), Point("none", {}, r2, own))
  <1> DEFINE h(l, f, r) == Point(l, f, r, own)
  <1>1. p \in Targets /\ {p} \in SUBSET Targets /\ {} \in SUBSET Targets
    BY DEF Targets
  <1>2. Runs(h("none", {}, r1), Acquire, h("PORT", {}, r1))
    BY Acquired
  <1>3. Runs(h("PORT", {}, r1), SelectPort(p), h("PORT", {p}, r1))
    BY <1>1, Selected
  <1>4. /\ Runs(h("PORT", {p}, r1), Lock("TW"), h("both", {p}, r1))
        /\ Runs(h("both", {p}, r1), Transact(p, effect), h("both", {p}, r2))
        /\ Runs(h("both", {p}, r2), Unlock("TW"), h("PORT", {p}, r2))
    BY <1>1, BusSteps
  <1>5. Runs(h("PORT", {p}, r2), Release, h("none", {}, r2))
    BY <1>1, Released
  <1> HIDE DEF h
  <1>6. Runs(h("none", {}, r1), OnFace(p, effect), h("none", {}, r2))
    BY <1>2, <1>3, <1>4, <1>5, Composition DEF OnFace
  <1> QED BY <1>6 DEF h

\* The point of a task between two calls.
LEMMA IdleIs ==
  ASSUME NEW own \in SUBSET Ports
  PROVE  Idle(own) = Point("none", {}, Nothing, own) /\ Idle(own) \in Points /\ Nothing \in Reads
         /\ Nothing # ReadOutputs
  <1>1. Nothing.do # ReadOutputs.do
    BY DEF Nothing, ReadOutputs
  <1>2. Nothing \in Reads /\ Idle(own) = Point("none", {}, Nothing, own)
    BY DEF Reads, Idle, Point
  <1>3. {} \in SUBSET Targets
    OBVIOUS
  <1> QED BY <1>1, <1>2, <1>3, PointsOf

\* A transaction that changes none of what these modules know.
LEMMA Plain ==
  ASSUME NEW own \in SUBSET Ports, NEW p \in Ports
  PROVE  Keeps(own, OnFace(p, Nothing))
  BY OnFaceRuns, IdleIs DEF Keeps, Ends

\* SetMode(): the register that is read in the first section is written back in the second.
LEMMA SetModeKeeps ==
  ASSUME NEW own \in SUBSET Ports, NEW p \in own, NEW led \in Leds, NEW mode \in Modes
  PROVE  Keeps(own, SetMode(p, led, mode))
  <1> DEFINE reg == Register(led)
             read == ReadModes(p, reg)
  <1>1. reg \in Registers /\ reg = led \div 4
    BY LEDAssumption DEF Register, Registers, Leds
  <1>2. p \in Ports /\ read \in Reads /\ read # ReadOutputs
    <2>1. ReadModes(p, reg).do # ReadOutputs.do
      BY DEF ReadModes, ReadOutputs
    <2>2. p \in Ports /\ ReadModes(p, reg) \in {ReadModes(q, r) : q \in Ports, r \in Registers}
      BY <1>1
    <2> QED BY <2>1, <2>2 DEF Reads
  <1>3. Ends(Point("both", {p}, Nothing, own), p, [do |-> "read modes", reg |-> reg],
             Point("both", {p}, read, own))
    <2> DEFINE h == Point("both", {p}, Nothing, own)
               g == Point("both", {p}, read, own)
    <2>1. g = [h EXCEPT !.read = read] /\ h.own = own
      BY DEF Point
    <2> HIDE DEF h, g, reg
    <2>2. Ends(h, p, [do |-> "read modes", reg |-> reg], g)
      BY <2>1, <1>1 DEF Ends
    <2> QED BY <2>2 DEF h, g
  <1>4. Ends(Point("both", {p}, read, own), p,
             [do |-> "write mode", reg |-> reg, led |-> led, mode |-> mode],
             Point("both", {p}, Nothing, own))
    <2> DEFINE h == Point("both", {p}, read, own)
               g == Point("both", {p}, Nothing, own)
    <2>1. g = [h EXCEPT !.read = Nothing] /\ h.own = own /\ h.read = read
      BY DEF Point
    <2> HIDE DEF h, g
    <2>2. Ends(h, p, [do |-> "write mode", reg |-> reg, led |-> led, mode |-> mode], g)
      BY <2>1, <1>1 DEF Ends
    <2> QED BY <2>2 DEF h, g
  <1> HIDE DEF reg, read
  <1>5. /\ Runs(Idle(own), OnFace(p, [do |-> "read modes", reg |-> reg]), Point("none", {}, read, own))
        /\ Runs(Point("none", {}, read, own),
                OnFace(p, [do |-> "write mode", reg |-> reg, led |-> led, mode |-> mode]), Idle(own))
    BY <1>2, <1>3, <1>4, OnFaceRuns, IdleIs
  <1> QED BY <1>5, Composition DEF SetMode, Keeps, reg

\* The reset of the light driver of one of the task's own faces.
LEMMA ResetKeeps ==
  ASSUME NEW own \in SUBSET Ports, NEW p \in own
  PROVE  Keeps(own, OnFace(p, [do |-> "reset"]))
  <1> DEFINE h == Point("both", {p}, Nothing, own)
  <1>1. h.own = own /\ h.read = Nothing
    BY DEF Point
  <1> HIDE DEF h
  <1>2. Ends(h, p, [do |-> "reset"], h)
    BY <1>1 DEF Ends
  <1> QED BY <1>2, OnFaceRuns, IdleIs DEF Keeps, h

\* Code that keeps the discipline may follow code that keeps it, and be repeated.
LEMMA KeepsThen ==
  ASSUME NEW own, NEW s, NEW r, Keeps(own, s), Keeps(own, r)
  PROVE  Keeps(own, s \o r)
  BY Composition DEF Keeps

\* A loop of calls that keep the discipline keeps it.
LEMMA KeepsLoop ==
  ASSUME NEW own \in SUBSET Ports, NEW n \in Nat, NEW seqs, Len(seqs) = n, n = 0 => seqs = <<>>,
         \A i \in 1 .. n : Keeps(own, seqs[i])
  PROVE  Keeps(own, FlattenSeq(seqs))
  <1> DEFINE H == {Idle(own)}
  <1>1. H \in SUBSET Points /\ (\A i \in 1 .. n : \A h \in H : \E g \in H : Runs(h, seqs[i], g))
    BY IdleIs DEF Keeps
  <1>2. \A h \in H : \E g \in H : Runs(h, FlattenSeq(seqs), g)
    <2> HIDE DEF H
    <2> QED BY <1>1, Loop
  <1> QED BY <1>2 DEF Keeps

\* The calls that only write registers of which nothing is known.
LEMMA BrightnessKeeps ==
  ASSUME NEW own \in SUBSET Ports, NEW p \in Ports
  PROVE  /\ \A led : Keeps(own, SetBrightness(p, led))
         /\ \A pack : Keeps(own, SetColor(p, pack))
         /\ Keeps(own, SetBlinkRate(p))
         /\ Keeps(own, SetAllColorsOnFace(p))
  <1>1. \A led : Keeps(own, SetBrightness(p, led))
    BY Plain DEF SetBrightness
  <1>2. \A pack : Keeps(own, SetColor(p, pack))
    BY <1>1, KeepsThen DEF SetColor
  <1>3. Keeps(own, SetBlinkRate(p))
    BY Plain, KeepsThen DEF SetBlinkRate
  <1>4. Keeps(own, SetAllColorsOnFace(p))
    <2> DEFINE seqs == [i \in 1 .. PACKS |-> SetColor(p, i - 1)]
    <2>1. PACKS \in Nat /\ PACKS # 0 /\ Len(seqs) = PACKS
      BY LEDAssumption
    <2>2. \A i \in 1 .. PACKS : Keeps(own, seqs[i])
      BY <1>2
    <2>3. SetAllColorsOnFace(p) = FlattenSeq(seqs)
      BY DEF SetAllColorsOnFace, Times
    <2> HIDE DEF seqs
    <2> QED BY <2>1, <2>2, <2>3, KeepsLoop
  <1> QED BY <1>1, <1>2, <1>3, <1>4

\* SetAllModesOnFace() and InitFace(), on one of the task's own faces.
LEMMA ModesKeep ==
  ASSUME NEW own \in SUBSET Ports, NEW p \in own, NEW mode \in Modes
  PROVE  Keeps(own, SetAllModesOnFace(p, mode)) /\ Keeps(own, InitFace(p))
  <1>1. p \in Ports /\ "OFF" \in Modes
    BY DEF Modes
  <1>2. Keeps(own, SetAllModesOnFace(p, mode))
    <2> DEFINE body(i) == SetMode(p, 4 * i, mode) \o SetMode(p, 4 * i + 1, mode)
                            \o SetMode(p, 4 * i + 2, mode) \o SetMode(p, 4 * i + 3, "OFF")
               seqs == [i \in 1 .. PACKS |-> body(i - 1)]
    <2>1. PACKS \in Nat /\ PACKS # 0 /\ Len(seqs) = PACKS
      BY LEDAssumption
    <2>2. ASSUME NEW i \in 1 .. PACKS PROVE Keeps(own, body(i - 1))
      <3>1. /\ 4 * (i - 1) \in Leds /\ 4 * (i - 1) + 1 \in Leds
            /\ 4 * (i - 1) + 2 \in Leds /\ 4 * (i - 1) + 3 \in Leds
        BY LEDAssumption DEF Leds
      <3>2. /\ Keeps(own, SetMode(p, 4 * (i - 1), mode)) /\ Keeps(own, SetMode(p, 4 * (i - 1) + 1, mode))
            /\ Keeps(own, SetMode(p, 4 * (i - 1) + 2, mode))
            /\ Keeps(own, SetMode(p, 4 * (i - 1) + 3, "OFF"))
        BY <1>1, <3>1, SetModeKeeps
      <3> QED BY <3>2, KeepsThen
    <2>3. SetAllModesOnFace(p, mode) = FlattenSeq(seqs)
      BY DEF SetAllModesOnFace, Times
    <2> HIDE DEF body
    <2>4. \A i \in 1 .. PACKS : Keeps(own, seqs[i])
      BY <2>2
    <2> HIDE DEF seqs
    <2> QED BY <2>1, <2>3, <2>4, KeepsLoop
  <1>3. Keeps(own, InitFace(p))
    <2> DEFINE body(led) == SetMode(p, led, "OFF") \o SetBrightness(p, led)
               seqs == [i \in 1 .. 4 |-> body(i - 1)]
    <2>1. Len(seqs) = 4 /\ 4 \in Nat /\ 4 # 0
      OBVIOUS
    <2>2. ASSUME NEW i \in 1 .. 4 PROVE Keeps(own, body(i - 1))
      <3>1. i - 1 \in Leds
        BY LEDAssumption DEF Leds
      <3> QED BY <1>1, <3>1, SetModeKeeps, BrightnessKeeps, KeepsThen
    <2> HIDE DEF body
    <2>3. \A i \in 1 .. 4 : Keeps(own, seqs[i])
      BY <2>2
    <2> HIDE DEF seqs
    <2>4. Keeps(own, FlattenSeq(seqs))
      BY <2>1, <2>3, KeepsLoop
    <2>5. InitFace(p) = OnFace(p, [do |-> "reset"]) \o OnFace(p, Nothing) \o OnFace(p, Nothing)
                          \o SetBlinkRate(p) \o FlattenSeq(seqs)
      BY DEF InitFace, Times, seqs, body
    <2> QED BY <1>1, <2>4, <2>5, ResetKeeps, Plain, BrightnessKeeps, KeepsThen
  <1> QED BY <1>2, <1>3

-----------------------------------------------------------------------------
(* What the tasks do.                                                       *)

\* What runs with the controller locked, between lock() and unlock().
LEMMA UnderLock ==
  ASSUME NEW own \in SUBSET Ports, NEW s, NEW face \in SUBSET Targets,
         Runs(Point("PORT", {}, Nothing, own), s, Point("PORT", face, Nothing, own))
  PROVE  Keeps(own, Acquire \o s \o Release)
  <1>1. Runs(Idle(own), Acquire, Point("PORT", {}, Nothing, own))
    BY Acquired, IdleIs
  <1>2. Runs(Point("PORT", face, Nothing, own), Release, Idle(own))
    BY Released, IdleIs
  <1> QED BY <1>1, <1>2, Composition DEF Keeps

\* The NFC commands and reactions, and the way back of a face.
LEMMA CommandKeeps ==
  ASSUME NEW own \in SUBSET Ports, NEW p \in Ports
  PROVE  Keeps(own, Command(p)) /\ Keeps(own, Retire(p)) /\ Keeps(own, NFCReact(p))
  <1>1. Keeps(own, Command(p))
    BY Plain, KeepsThen DEF Command
  <1>2. {} \in SUBSET Targets
    OBVIOUS
  <1>3. Keeps(own, Retire(p)) /\ Keeps(own, Acquire \o ReadInterrupts \o Release)
    BY <1>2, PortCalls, UnderLock DEF Retire
  <1>4. Keeps(own, NFCReact(p))
    BY <1>1, <1>3, BrightnessKeeps, KeepsThen DEF NFCReact
  <1> QED BY <1>1, <1>3, <1>4

\* InitPortController(): each port is selected and its clock line driven, under one lock.
LEMMA ProbingKeeps ==
  ASSUME NEW own \in SUBSET Ports, NEW ports \in Seq(Ports)
  PROVE  Keeps(own, InitPortController(ports))
  <1> DEFINE n == Len(ports)
             seqs == [i \in 1 .. n |-> IsPortConnected(ports[i])]
             H == {Point("PORT", f, Nothing, own) : f \in SUBSET Targets}
             h(f) == Point("PORT", f, Nothing, own)
  <1>1. n \in Nat /\ Len(seqs) = n /\ (n = 0 => seqs = <<>>)
    OBVIOUS
  <1>2. H \in SUBSET Points
    BY PointsOf, IdleIs
  <1>3. \A i \in 1 .. n : \A k \in H : \E g \in H : Runs(k, seqs[i], g)
    <2> SUFFICES ASSUME NEW i \in 1 .. n, NEW f \in SUBSET Targets
                 PROVE  \E g \in H : Runs(h(f), seqs[i], g)
      OBVIOUS
    <2>1. ports[i] \in Ports /\ seqs[i] = IsPortConnected(ports[i])
      OBVIOUS
    <2>2. Runs(h(f), seqs[i], h({ports[i]}))
      BY <2>1, PortCalls
    <2>3. h({ports[i]}) \in H
      BY <2>1 DEF Targets
    <2> QED BY <2>2, <2>3
  <1>4. NULLPORT \in Targets /\ {NULLPORT} \in SUBSET Targets /\ {} \in SUBSET Targets
    BY DEF Targets
  <1>5. PICK f \in SUBSET Targets : Runs(h({NULLPORT}), FlattenSeq(seqs), h(f))
    <2>1. h({NULLPORT}) \in H
      BY <1>4
    <2>2. \E g \in H : Runs(h({NULLPORT}), FlattenSeq(seqs), g)
      <3> HIDE DEF H, h, seqs, n
      <3> QED BY <1>1, <1>2, <1>3, <2>1, Loop
    <2> HIDE DEF seqs
    <2> QED BY <2>2
  <1>6. /\ Runs(h({}), SelectPort(NULLPORT), h({NULLPORT}))
        /\ Runs(h(f), SelectPort(NULLPORT), h({NULLPORT}))
    BY <1>4, IdleIs, Selected
  <1>7. Runs(Idle(own), Acquire, h({})) /\ Runs(h({NULLPORT}), Release, Idle(own))
    BY <1>4, Acquired, Released, IdleIs
  <1>8. InitPortController(ports)
          = Acquire \o SelectPort(NULLPORT) \o FlattenSeq(seqs) \o SelectPort(NULLPORT) \o Release
    BY DEF InitPortController
  <1> HIDE DEF h, seqs
  <1> QED BY <1>5, <1>6, <1>7, <1>8, Composition DEF Keeps

\* The faces of a list of ports, empty places left out.
\* The faces on a list of connected ports.
FacesOf(list) == {p \in Ports : \E i \in 1 .. Len(list) : list[i] = p}

\* InitLEDs(), by the task that owns the faces on its list; an empty place is skipped.
LEMMA InitLEDsKeeps ==
  ASSUME NEW list \in Seq(Targets), NEW own \in SUBSET Ports, FacesOf(list) \subseteq own
  PROVE  Keeps(own, InitLEDs(list))
  <1> DEFINE n == Len(list)
             body(p) == InitFace(p) \o SetAllModesOnFace(p, "PWM") \o SetAllColorsOnFace(p)
             seqs == [i \in 1 .. n |-> IF list[i] = NULLPORT THEN <<>> ELSE body(list[i])]
  <1>1. n \in Nat /\ Len(seqs) = n /\ (n = 0 => seqs = <<>>)
    OBVIOUS
  <1>2. ASSUME NEW i \in 1 .. n PROVE Keeps(own, seqs[i])
    <2>1. CASE list[i] = NULLPORT
      BY <2>1, NoStep, IdleIs DEF Keeps
    <2>2. CASE list[i] # NULLPORT
      <3>1. list[i] \in own /\ list[i] \in Ports
        BY <2>2 DEF Targets, FacesOf
      <3>2. Keeps(own, body(list[i]))
        BY <3>1, ModesKeep, BrightnessKeeps, KeepsThen DEF Modes
      <3> QED BY <2>2, <3>2
    <2> QED BY <2>1, <2>2
  <1>3. InitLEDs(list) = FlattenSeq(seqs)
    BY DEF InitLEDs, ForEach
  <1> HIDE DEF seqs, n
  <1> QED BY <1>1, <1>2, <1>3, KeepsLoop

\* InitNFC() sets no mode: it may do all faces, whoever owns them.
LEMMA InitNFCKeeps ==
  ASSUME NEW list \in Seq(Targets), NEW own \in SUBSET Ports
  PROVE  Keeps(own, InitNFC(list))
  <1> DEFINE n == Len(list)
             body(p) == Acquire \o SelectPort(p) \o EnablePort(p) \o Release
                          \o Command(p) \o SetAllColorsOnFace(p)
             seqs == [i \in 1 .. n |-> IF list[i] = NULLPORT THEN <<>> ELSE body(list[i])]
  <1>1. n \in Nat /\ Len(seqs) = n /\ (n = 0 => seqs = <<>>)
    OBVIOUS
  <1>2. ASSUME NEW i \in 1 .. n PROVE Keeps(own, seqs[i])
    <2>1. CASE list[i] = NULLPORT
      BY <2>1, NoStep, IdleIs DEF Keeps
    <2>2. CASE list[i] # NULLPORT
      <3> DEFINE p == list[i]
                 h(f) == Point("PORT", f, Nothing, own)
      <3>1. p \in Ports /\ p \in Targets /\ {p} \in SUBSET Targets /\ {} \in SUBSET Targets
        BY <2>2 DEF Targets
      <3>2. Runs(Idle(own), Acquire, h({})) /\ Runs(h({p}), Release, Idle(own))
        BY <3>1, Acquired, Released, IdleIs
      <3>3. Runs(h({}), SelectPort(p), h({p})) /\ Runs(h({p}), EnablePort(p), h({p}))
        BY <3>1, Selected, PortCalls, IdleIs
      <3>4. Keeps(own, Command(p)) /\ Keeps(own, SetAllColorsOnFace(p))
        BY <3>1, CommandKeeps, BrightnessKeeps
      <3>5. Keeps(own, body(p))
        <4> HIDE DEF h, p
        <4> QED BY <3>2, <3>3, <3>4, Composition DEF Keeps
      <3> QED BY <2>2, <3>5
    <2> QED BY <2>1, <2>2
  <1>3. InitNFC(list) = FlattenSeq(seqs)
    BY DEF InitNFC, ForEach
  <1> HIDE DEF seqs, n
  <1> QED BY <1>1, <1>2, <1>3, KeepsLoop

-----------------------------------------------------------------------------
(* A step of a task takes it from one point of its outline to the next.     *)

\* The outline of a task's program is one: its points are linked by the program's steps.
LEMMA OutlineIs ==
  ASSUME Disciplined, NEW t \in Tasks
  PROVE  /\ Owns[t] \in SUBSET Ports /\ Code[t] \in Seq(Range(Code[t])) /\ Len(Code[t]) \in Nat
         /\ Outline[t] \in [1 .. Len(Code[t]) + 1 -> Points]
         /\ Outline[t][1] = Idle(Owns[t]) /\ Outline[t][Len(Code[t]) + 1] = Idle(Owns[t])
         /\ \A k \in 1 .. Len(Code[t]) : Leads(Outline[t][k], Code[t][k], Outline[t][k + 1])
  <1> DEFINE Good(o) == o \in Outlines(Idle(Owns[t]), Code[t], Idle(Owns[t]))
  <1>1. \E o : Good(o)
    BY DEF Disciplined, Keeps, Runs
  <1>2. Good(CHOOSE o : Good(o))
    BY <1>1, Zenon
  <1>3. Good(Outline[t])
    BY <1>2 DEF Outline
  <1>4. Owns[t] \in SUBSET Ports /\ Code[t] \in Seq(Range(Code[t]))
    BY DEF Disciplined, Keeps, Runs
  <1>5. Len(Code[t]) \in Nat
    BY <1>4
  <1> QED BY <1>3, <1>4, <1>5 DEF Outlines

\* So is the outline of Init(), from wherever it is entered.
LEMMA InitOutlineIs ==
  ASSUME NEW h \in Points, h.held = "none"
  PROVE  /\ Init \in Seq(Range(Init)) /\ Len(Init) \in Nat
         /\ InitOutline(h) \in [1 .. Len(Init) + 1 -> Points]
         /\ InitOutline(h)[1] = h /\ InitOutline(h)[Len(Init) + 1] = h
         /\ \A k \in 1 .. Len(Init) : Leads(InitOutline(h)[k], Init[k], InitOutline(h)[k + 1])
  <1>1. h = Point("none", {}, h.read, h.own) /\ h.read \in Reads /\ h.read # ReadOutputs
        /\ h.own \in SUBSET Ports
    BY DEF Points, Point
  <1>2. Runs(h, Init, h)
    BY <1>1, InitRuns
  <1> DEFINE Good(o) == o \in Outlines(h, Init, h)
  <1>3. \E o : Good(o)
    BY <1>2 DEF Runs
  <1>4. Good(CHOOSE o : Good(o))
    BY <1>3, Zenon
  <1>5. Good(InitOutline(h))
    BY <1>4 DEF InitOutline
  <1>6. Init \in Seq(Range(Init))
    BY <1>2 DEF Runs
  <1>7. Len(Init) \in Nat
    BY <1>6
  <1> QED BY <1>5, <1>6, <1>7 DEF Outlines

\* Init() calls none of the locked sections that would call it.
LEMMA InitIsFlat ==
  Init \in Seq(Range(Init)) /\ Len(Init) \in Nat /\ \A k \in 1 .. Len(Init) : Init[k].op # "instance"
  <1> DEFINE Flat(s) == s \in Seq(Range(s)) /\ \A k \in 1 .. Len(s) : s[k].op # "instance"
  <1>1. ASSUME NEW s, NEW r, Flat(s), Flat(r) PROVE Flat(s \o r)
    <2>1. /\ s \o r \in Seq(Range(s \o r))
          /\ Len(s) \in Nat /\ Len(r) \in Nat /\ Len(s \o r) = Len(s) + Len(r)
          /\ \A k \in 1 .. Len(s) : (s \o r)[k] = s[k]
          /\ \A k \in 1 .. Len(r) : (s \o r)[Len(s) + k] = r[k]
      BY <1>1, Concatenation
    <2>2. ASSUME NEW k \in 1 .. Len(s \o r) PROVE (s \o r)[k].op # "instance"
      <3>1. CASE k <= Len(s)
        BY <1>1, <2>1, <3>1
      <3>2. CASE k > Len(s)
        <4>1. k - Len(s) \in 1 .. Len(r) /\ k = Len(s) + (k - Len(s))
          BY <2>1, <3>2
        <4> QED BY <1>1, <2>1, <4>1
      <3> QED BY <3>1, <3>2, <2>1
    <2> QED BY <2>1, <2>2
  <1>2. ASSUME NEW e, e.op # "instance" PROVE Flat(<<e>>)
    BY <1>2, Single
  <1> HIDE DEF Flat
  <1>3. \A e : e.op # "instance" => Flat(<<e>>)
    BY <1>2
  <1>4. \A r : Flat(Lock(r)) /\ Flat(Unlock(r))
    BY <1>3 DEF Lock, Unlock
  <1>5. ASSUME NEW p PROVE Flat(SelectPort(p))
    <2>1. SelectPort(p) = <<[op |-> "select", port |-> NORTH]>> \o <<[op |-> "select", port |-> p]>>
      BY DEF SelectPort
    <2> QED BY <1>1, <1>3, <2>1
  <1>6. Flat(Transact(NULLPORT, Nothing))
    <2>1. Transact(NULLPORT, Nothing)
            = <<[op |-> "start"]>> \o <<[op |-> "end", port |-> NULLPORT, effect |-> Nothing]>>
      BY DEF Transact
    <2> QED BY <1>1, <1>3, <2>1
  <1>7. Flat(<<[op |-> "initialised"]>>)
    BY <1>3
  <1>8. Flat(Init)
    BY <1>1, <1>4, <1>5, <1>6, <1>7 DEF Init
  <1>9. Init \in Seq(Range(Init)) /\ \A k \in 1 .. Len(Init) : Init[k].op # "instance"
    BY <1>8 DEF Flat
  <1> QED BY <1>9

\* The place in Init(), by the number of steps left.
LEMMA PlaceBounds ==
  ASSUME NEW n \in 0 .. Len(Init)
  PROVE  /\ InitPlace(n) \in 1 .. Len(Init) + 1
         /\ n # 0 => InitPlace(n) \in 1 .. Len(Init) /\ InitPlace(n - 1) = InitPlace(n) + 1
  <1>1. Len(Init) \in Nat
    BY InitIsFlat
  <1> QED BY <1>1 DEF InitPlace

\* Only the empty sequence has no length.
LEMMA EmptySeq ==
  ASSUME NEW S, NEW q \in Seq(S) PROVE Len(q) \in Nat /\ (q = <<>> <=> Len(q) = 0)
  OBVIOUS

\* What a step of each kind needs, and brings.
LEMMA LeadsBy ==
  ASSUME NEW h, NEW s, NEW g, Leads(h, s, g)
  PROVE  /\ s.op = "instance" => h.held = "none" /\ g = h
         /\ s.op \in {"initialised", "start", "pulse"} => h.held # "none" /\ g = h
         /\ s.op = "lock" => \/ s.res = "PORT" /\ h.held = "none" /\ g = [h EXCEPT !.held = "PORT"]
                             \/ s.res = "TW" /\ h.held = "PORT" /\ g = [h EXCEPT !.held = "both"]
         /\ s.op = "unlock" =>
              \/ s.res = "TW" /\ h.held = "both" /\ g = [h EXCEPT !.held = "PORT"]
              \/ /\ s.res = "PORT" /\ h.held = "PORT"
                 /\ g = [held |-> "none", face |-> {}, read |-> h.read, own |-> h.own]
         /\ s.op = "select" =>
              s.port \in Targets /\ h.held # "none" /\ g = [h EXCEPT !.face = {s.port}]
         /\ s.op = "end" =>
              /\ s.port \in Targets /\ h.held = "both" /\ (s.port # NULLPORT => h.face = {s.port})
              /\ Ends(h, s.port, s.effect, g)
  BY DEF Leads

\* Every task is at a step of its program, or of Init().
Placed == (\A t \in Tasks : at[t] \in 1 .. Len(Code[t]) + 1) /\ InitInPlace

\* A task always is at a point, and holds nothing when it is finished.
LEMMA HerePoint ==
  ASSUME Disciplined, Placed, NEW t \in Tasks
  PROVE  /\ Here(t) \in Points
         /\ Finished(t) => Here(t) = Idle(Owns[t])
         /\ init[t] # <<>> => Outline[t][at[t]] \in Points /\ Outline[t][at[t]].held = "none"
  <1> DEFINE h == Outline[t][at[t]]
  <1>1. h \in Points /\ Len(Code[t]) \in Nat
    BY OutlineIs DEF Placed
  <1>2. CASE init[t] = <<>>
    <2>1. Here(t) = h
      BY <1>2 DEF Here
    <2>2. Finished(t) => at[t] = Len(Code[t]) + 1
      BY <1>1 DEF Finished, Placed
    <2> QED BY <1>1, <1>2, <2>1, <2>2, OutlineIs
  <1>3. CASE init[t] # <<>>
    <2>1. h.held = "none" /\ Len(init[t]) \in 0 .. Len(Init)
      BY <1>3, InitIsFlat DEF Placed, InitInPlace
    <2>2. Here(t) = InitOutline(h)[InitPlace(Len(init[t]))]
      BY <1>3 DEF Here
    <2>3. InitPlace(Len(init[t])) \in 1 .. Len(Init) + 1
      BY <2>1, PlaceBounds
    <2>4. InitOutline(h) \in [1 .. Len(Init) + 1 -> Points]
      BY <1>1, <2>1, InitOutlineIs
    <2>5. Here(t) \in Points
      BY <2>2, <2>3, <2>4
    <2>6. ~Finished(t)
      BY <1>3 DEF Finished
    <2> QED BY <1>1, <2>1, <2>5, <2>6
  <1> QED BY <1>2, <1>3

\* What a step of task t does to the points of the tasks.
Moved(t) ==
  /\ Leads(Here(t), Step(t), Here(t)') /\ Here(t)' \in Points
  /\ \A u \in Tasks : u # t => Here(u)' = Here(u)
  /\ Placed' /\ \A u \in Tasks : Len(init'[u]) <= Len(Init)

\* A step of the program, or of Init(), takes its task to the next point of the outline.
LEMMA AdvanceMoves ==
  ASSUME Disciplined, Placed, NEW t \in Tasks, ~Finished(t), Advance(t), DOMAIN value' = Tasks
  PROVE  Moved(t)
  <1> DEFINE h == Outline[t][at[t]]
  <1>1. /\ at \in [Tasks -> Nat] /\ at[t] \in 1 .. Len(Code[t]) + 1 /\ Len(Code[t]) \in Nat
        /\ init \in [Tasks -> Seq(Range(Init))] /\ Len(init[t]) \in 0 .. Len(Init)
        /\ h \in Points
    BY OutlineIs, InitIsFlat DEF Placed, InitInPlace
  <1>2. CASE init[t] = <<>>
    <2>1. at' = [at EXCEPT ![t] = @ + 1] /\ init' = init
      BY <1>2 DEF Advance
    <2>2. at[t] \in 1 .. Len(Code[t])
      BY <1>1, <1>2 DEF Finished
    <2>3. Step(t) = Code[t][at[t]] /\ Here(t) = h /\ Here(t)' = Outline[t][at[t] + 1]
      BY <1>1, <1>2, <2>1 DEF Step, Here
    <2>4. Leads(Here(t), Step(t), Here(t)') /\ Here(t)' \in Points
      <3>1. at[t] + 1 \in 1 .. Len(Code[t]) + 1
        BY <1>1, <2>2
      <3>2. Outline[t][at[t] + 1] \in Points
        BY <3>1, OutlineIs
      <3> QED BY <2>2, <2>3, <3>2, OutlineIs
    <2>5. \A u \in Tasks : u # t => Here(u)' = Here(u)
      BY <1>1, <2>1 DEF Here
    <2>6. \A u \in Tasks : at'[u] \in 1 .. Len(Code[u]) + 1
      BY <1>1, <2>1, <2>2 DEF Placed
    <2>7. at' \in [Tasks -> Nat]
      BY <1>1, <2>1
    <2>8. ASSUME NEW u \in Tasks
          PROVE  /\ Len(init'[u]) <= Len(Init)
                 /\ \A j \in 1 .. Len(init'[u]) : init'[u][j] = Init[InitPlace(Len(init'[u])) + j - 1]
                 /\ init'[u] # <<>> => Outline[u][at'[u]].held = "none"
      BY <1>1, <1>2, <2>1 DEF Placed, InitInPlace
    <2>9. Placed'
      BY <1>1, <2>1, <2>6, <2>7, <2>8 DEF Placed, InitInPlace
    <2> QED BY <2>4, <2>5, <2>8, <2>9 DEF Moved
  <1>3. CASE init[t] # <<>>
    <2> DEFINE n == Len(init[t])
    <2>1. init' = [init EXCEPT ![t] = Tail(@)] /\ at' = at
      BY <1>3 DEF Advance
    <2>2. /\ n \in 1 .. Len(Init) /\ Len(Init) \in Nat
          /\ Tail(init[t]) \in Seq(Range(Init)) /\ Len(Tail(init[t])) = n - 1
          /\ \A j \in 1 .. n - 1 : Tail(init[t])[j] = init[t][j + 1]
          /\ Head(init[t]) = init[t][1] /\ (Tail(init[t]) = <<>> <=> n = 1)
      <3>1. ASSUME NEW A, NEW q \in Seq(A), q # <<>>
            PROVE  /\ Len(q) \in Nat \ {0} /\ Tail(q) \in Seq(A) /\ Len(Tail(q)) = Len(q) - 1
                   /\ \A j \in 1 .. Len(q) - 1 : Tail(q)[j] = q[j + 1]
                   /\ Head(q) = q[1] /\ (Tail(q) = <<>> <=> Len(q) = 1)
        <4>1. /\ Len(q) \in Nat \ {0} /\ Tail(q) \in Seq(A) /\ Len(Tail(q)) = Len(q) - 1
              /\ \A j \in 1 .. Len(q) - 1 : Tail(q)[j] = q[j + 1]
              /\ Head(q) = q[1]
          BY <3>1
        <4>2. Tail(q) = <<>> <=> Len(Tail(q)) = 0
          BY <4>1, EmptySeq
        <4> QED BY <4>1, <4>2
      <3>2. init[t] \in Seq(Range(Init))
        BY <1>1
      <3>3. /\ n \in Nat \ {0} /\ Tail(init[t]) \in Seq(Range(Init)) /\ Len(Tail(init[t])) = n - 1
            /\ \A j \in 1 .. n - 1 : Tail(init[t])[j] = init[t][j + 1]
            /\ Head(init[t]) = init[t][1] /\ (Tail(init[t]) = <<>> <=> n = 1)
        BY <1>3, <3>1, <3>2
      <3> QED BY <1>1, <3>3, InitIsFlat
    <2>3. \A j \in 1 .. n : init[t][j] = Init[InitPlace(n) + j - 1]
      BY DEF Placed, InitInPlace
    <2>4. h.held = "none"
      BY <1>3 DEF Placed, InitInPlace
    <2> DEFINE k == InitPlace(n)
    <2>5. k \in 1 .. Len(Init) /\ InitPlace(n - 1) = k + 1
      BY <2>2 DEF InitPlace
    <2>6. Step(t) = Init[k]
      <3>1. Step(t) = init[t][1]
        BY <1>3, <2>2 DEF Step
      <3>2. init[t][1] = Init[k + 1 - 1]
        BY <2>2, <2>3
      <3> QED BY <3>1, <3>2, <2>5
    <2>7. init'[t] = Tail(init[t]) /\ \A u \in Tasks : u # t => init'[u] = init[u]
      BY <1>1, <2>1
    <2>8. /\ InitOutline(h)[Len(Init) + 1] = h
          /\ Leads(InitOutline(h)[k], Init[k], InitOutline(h)[k + 1])
      BY <1>1, <2>4, <2>5, InitOutlineIs
    <2>9. Here(t) = InitOutline(h)[k]
      BY <1>3 DEF Here
    <2>10. Here(t)' = InitOutline(h)[k + 1]
      <3>1. CASE n = 1
        <4>1. init'[t] = <<>>
          BY <2>2, <2>7, <3>1
        <4>2. k + 1 = Len(Init) + 1
          BY <2>2, <3>1 DEF InitPlace
        <4> QED BY <4>1, <4>2, <2>1, <2>8 DEF Here
      <3>2. CASE n # 1
        <4>1. init'[t] # <<>> /\ Len(init'[t]) = n - 1
          BY <2>2, <2>7, <3>2
        <4> QED BY <4>1, <2>1, <2>5 DEF Here
      <3> QED BY <3>1, <3>2
    <2>11. Leads(Here(t), Step(t), Here(t)') /\ Here(t)' \in Points
      <3>1. InitOutline(h) \in [1 .. Len(Init) + 1 -> Points] /\ k + 1 \in 1 .. Len(Init) + 1
        BY <1>1, <2>2, <2>4, <2>5, InitOutlineIs
      <3> HIDE DEF k
      <3> QED BY <3>1, <2>6, <2>8, <2>9, <2>10
    <2>12. \A u \in Tasks : u # t => Here(u)' = Here(u)
      BY <2>1, <2>7 DEF Here
    <2>13. ASSUME NEW u \in Tasks
           PROVE  /\ Len(init'[u]) <= Len(Init)
                  /\ \A j \in 1 .. Len(init'[u]) : init'[u][j] = Init[InitPlace(Len(init'[u])) + j - 1]
                  /\ init'[u] # <<>> => Outline[u][at'[u]].held = "none"
      <3>1. CASE u # t
        BY <3>1, <2>1, <2>7 DEF Placed, InitInPlace
      <3>2. CASE u = t
        <4>1. ASSUME NEW j \in 1 .. n - 1 PROVE Tail(init[t])[j] = Init[InitPlace(n - 1) + j - 1]
          <5>1. j + 1 \in 1 .. n /\ k + (j + 1) - 1 = InitPlace(n - 1) + j - 1
            <6>1. j \in Int /\ 1 <= j /\ j <= n - 1 /\ n \in Int /\ k \in Int
              BY <2>2, <2>5
            <6>2. InitPlace(n - 1) = k + 1
              BY <2>5
            <6> HIDE DEF n, k, h
            <6> QED BY <6>1, <6>2
          <5> QED BY <5>1, <2>2, <2>3
        <4>2. Len(init'[t]) = n - 1 /\ n - 1 <= Len(Init)
          BY <2>2, <2>7
        <4>3. \A j \in 1 .. n - 1 : init'[t][j] = Init[InitPlace(n - 1) + j - 1]
          BY <4>1, <2>7
        <4> HIDE DEF n, h
        <4> QED BY <4>2, <4>3, <3>2, <2>1, <2>4 DEF h
      <3> QED BY <3>1, <3>2
    <2>14. init' \in [Tasks -> Seq(Range(Init))]
      BY <1>1, <2>1, <2>2
    <2>15. Placed'
      BY <1>1, <2>1, <2>13, <2>14 DEF Placed, InitInPlace
    <2> QED BY <2>11, <2>12, <2>13, <2>15 DEF Moved
  <1> QED BY <1>2, <1>3

\* instance() leaves its task at its point: in Init()'s outline, or after the call.
LEMMA InstanceMoves ==
  ASSUME Disciplined, Placed, NEW t \in Tasks, Instance(t)
  PROVE  Moved(t) /\ Here(t)' = Here(t)
  <1> DEFINE h == Outline[t][at[t]]
  <1>1. ~Finished(t) /\ Step(t).op = "instance" /\ at' = [at EXCEPT ![t] = @ + 1] /\ value' = value
        /\ (init' = [init EXCEPT ![t] = Init] \/ init' = init)
    BY DEF Instance, At
  <1>2. /\ at \in [Tasks -> Nat] /\ at[t] \in 1 .. Len(Code[t]) + 1 /\ Len(Code[t]) \in Nat
        /\ init \in [Tasks -> Seq(Range(Init))] /\ Len(init[t]) \in 0 .. Len(Init)
        /\ h \in Points
    BY OutlineIs, InitIsFlat DEF Placed, InitInPlace
  <1>3. init[t] = <<>>
    <2> SUFFICES ASSUME init[t] # <<>> PROVE FALSE
      OBVIOUS
    <2> DEFINE n == Len(init[t])
    <2>1. n \in 1 .. Len(Init) /\ Head(init[t]) = init[t][1]
      <3>1. ASSUME NEW A, NEW q \in Seq(A), q # <<>> PROVE Len(q) \in Nat \ {0} /\ Head(q) = q[1]
        BY <3>1
      <3>2. init[t] \in Seq(Range(Init))
        BY <1>2
      <3>3. n # 0 /\ Head(init[t]) = init[t][1]
        BY <3>1, <3>2
      <3> QED BY <1>2, <3>3
    <2>2. init[t][1] = Init[InitPlace(n) + 1 - 1]
      BY <2>1 DEF Placed, InitInPlace
    <2>3. InitPlace(n) + 1 - 1 \in 1 .. Len(Init)
      BY <2>1, InitIsFlat DEF InitPlace
    <2>4. Step(t) = Init[InitPlace(n) + 1 - 1]
      BY <2>1, <2>2 DEF Step
    <2> QED BY <1>1, <2>3, <2>4, InitIsFlat
  <1>4. at[t] \in 1 .. Len(Code[t]) /\ Step(t) = Code[t][at[t]]
    BY <1>1, <1>2, <1>3 DEF Finished, Step
  <1>5. Leads(h, Step(t), Outline[t][at[t] + 1])
    BY <1>4, OutlineIs
  <1>6. h.held = "none" /\ Outline[t][at[t] + 1] = h /\ Here(t) = h
    <2>1. Here(t) = h
      BY <1>3 DEF Here
    <2> QED BY <1>1, <1>5, <2>1, LeadsBy
  <1>7. InitPlace(Len(Init)) = 1 /\ InitOutline(h)[1] = h
    BY <1>2, <1>6, InitIsFlat, InitOutlineIs DEF InitPlace
  <1>8. Here(t)' = h
    <2>1. at'[t] = at[t] + 1 /\ (init'[t] = Init \/ init'[t] = <<>>)
      BY <1>1, <1>2, <1>3
    <2> QED BY <2>1, <1>6, <1>7 DEF Here
  <1>9. \A u \in Tasks : u # t => at'[u] = at[u] /\ init'[u] = init[u]
    BY <1>1, <1>2
  <1>10. \A u \in Tasks : u # t => Here(u)' = Here(u)
    BY <1>9 DEF Here
  <1>11. ASSUME NEW u \in Tasks
         PROVE  /\ Len(init'[u]) <= Len(Init)
                /\ \A j \in 1 .. Len(init'[u]) : init'[u][j] = Init[InitPlace(Len(init'[u])) + j - 1]
                /\ init'[u] # <<>> => Outline[u][at'[u]].held = "none"
                /\ at'[u] \in 1 .. Len(Code[u]) + 1
    <2>1. CASE u # t
      BY <2>1, <1>9 DEF Placed, InitInPlace
    <2>2. CASE u = t /\ init'[t] = <<>>
      BY <1>1, <1>2, <1>4, <2>2, InitIsFlat
    <2>3. CASE u = t /\ init'[t] = Init
      <3>1. \A j \in 1 .. Len(Init) : InitPlace(Len(Init)) + j - 1 = j
        BY <1>7
      <3> QED BY <3>1, <2>3, <1>1, <1>2, <1>4, <1>6, InitIsFlat
    <2> QED BY <2>1, <2>2, <2>3, <1>1, <1>2, <1>3
  <1>12. at' \in [Tasks -> Nat] /\ init' \in [Tasks -> Seq(Range(Init))]
    BY <1>1, <1>2, InitIsFlat
  <1>13. Placed'
    BY <1>1, <1>11, <1>12 DEF Placed, InitInPlace
  <1>14. Leads(Here(t), Step(t), Here(t)') /\ Here(t)' \in Points
    BY <1>2, <1>5, <1>6, <1>8
  <1> QED BY <1>6, <1>8, <1>10, <1>11, <1>13, <1>14 DEF Moved

\* The next step of a task that is not finished is one that its point allows.
LEMMA NextLeads ==
  ASSUME Disciplined, Placed, NEW t \in Tasks, ~Finished(t)
  PROVE  \E g : Leads(Here(t), Step(t), g)
  <1> DEFINE h == Outline[t][at[t]]
             n == Len(init[t])
  <1>1. CASE init[t] = <<>>
    <2>1. at[t] \in 1 .. Len(Code[t]) /\ Step(t) = Code[t][at[t]] /\ Here(t) = h
      BY <1>1, OutlineIs DEF Placed, Finished, Step, Here
    <2> QED BY <2>1, OutlineIs
  <1>2. CASE init[t] # <<>>
    <2>1. n \in 1 .. Len(Init) /\ Head(init[t]) = init[t][1] /\ h.held = "none" /\ h \in Points
      <3>1. ASSUME NEW A, NEW q \in Seq(A), q # <<>> PROVE Len(q) \in Nat \ {0} /\ Head(q) = q[1]
        BY <3>1
      <3>2. init[t] \in Seq(Range(Init)) /\ n <= Len(Init) /\ Len(Init) \in Nat
        BY InitIsFlat DEF Placed, InitInPlace
      <3>3. n \in Nat \ {0} /\ Head(init[t]) = init[t][1]
        BY <1>2, <3>1, <3>2
      <3> QED BY <1>2, <3>2, <3>3, HerePoint
    <2>2. init[t][1] = Init[InitPlace(n) + 1 - 1]
      BY <2>1 DEF Placed, InitInPlace
    <2>3. InitPlace(n) \in 1 .. Len(Init) /\ InitPlace(n) + 1 - 1 = InitPlace(n)
      <3>1. n \in 0 .. Len(Init) /\ n # 0
        BY <2>1
      <3>2. InitPlace(n) \in 1 .. Len(Init)
        BY <3>1, PlaceBounds
      <3> HIDE DEF n
      <3> QED BY <3>2
    <2>4. Step(t) = Init[InitPlace(n)] /\ Here(t) = InitOutline(h)[InitPlace(n)]
      BY <1>2, <2>1, <2>2, <2>3 DEF Step, Here
    <2> QED BY <2>1, <2>3, <2>4, InitOutlineIs
  <1> QED BY <1>1, <1>2

-----------------------------------------------------------------------------
(* What a step does to the parts of the point of its task.                  *)

\* The parts of a point, and what changing one of them leaves of the others.
LEMMA Fields ==
  ASSUME NEW h \in Points, NEW x
  PROVE  /\ LET g == [h EXCEPT !.read = x]
            IN  g.held = h.held /\ g.face = h.face /\ g.read = x /\ g.own = h.own
         /\ LET g == [h EXCEPT !.held = x]
            IN  g.held = x /\ g.face = h.face /\ g.read = h.read /\ g.own = h.own
         /\ LET g == [h EXCEPT !.face = x]
            IN  g.held = h.held /\ g.face = x /\ g.read = h.read /\ g.own = h.own
         /\ h.held \in {"none", "PORT", "both"} /\ h.face \in SUBSET Targets
         /\ h.own \in SUBSET Ports
         /\ h.held = "none" => h.face = {} /\ h.read # ReadOutputs
  BY DEF Points

\* What can have been read is told apart: the outputs, the modes of each register, nothing.
LEMMA Distinct ==
  /\ Nothing # ReadOutputs
  /\ \A p, r : ReadModes(p, r) # Nothing /\ ReadModes(p, r) # ReadOutputs
  /\ \A p, q, r, s : ReadModes(p, r) = ReadModes(q, s) => p = q /\ r = s
  <1>1. Nothing.do # ReadOutputs.do
    BY DEF Nothing, ReadOutputs
  <1>2. ASSUME NEW p, NEW r
        PROVE  /\ ReadModes(p, r).do # Nothing.do /\ ReadModes(p, r).do # ReadOutputs.do
               /\ ReadModes(p, r).port = p /\ ReadModes(p, r).reg = r
    BY DEF Nothing, ReadOutputs, ReadModes
  <1>3. ASSUME NEW p, NEW q, NEW r, NEW s, ReadModes(p, r) = ReadModes(q, s) PROVE p = q /\ r = s
    <2>1. ReadModes(p, r).port = ReadModes(q, s).port /\ ReadModes(p, r).reg = ReadModes(q, s).reg
      BY <1>3
    <2> QED BY <1>2, <2>1
  <1> QED BY <1>1, <1>2, <1>3

\* What the end of a transaction does to what its task knows.
Effected(h, p, e, g) ==
  /\ g.held = h.held /\ g.face = h.face /\ g.own = h.own
  /\ e.do \in {"nothing", "reset"} => g.read = h.read
  /\ e.do = "read outputs" => g.read = ReadOutputs
  /\ e.do \in {"enable", "disable"} =>
       e.which \in Ports /\ h.read = ReadOutputs /\ g.read = Nothing
  /\ e.do = "read modes" => e.reg \in Registers /\ p \in h.own /\ g.read = ReadModes(p, e.reg)
  /\ e.do = "write mode" =>
       /\ e.led \in Leds /\ e.mode \in Modes /\ e.reg = e.led \div 4 /\ p \in h.own
       /\ h.read = ReadModes(p, e.reg) /\ g.read = Nothing
  /\ e.do = "reset" => p \in h.own /\ h.read = Nothing
  /\ e.do = "nothing" => g = h

\* What Ends() says of an effect, by its kind.
LEMMA EndsBy ==
  ASSUME NEW h \in Points, NEW p, NEW e, NEW g, Ends(h, p, e, g)
  PROVE  Effected(h, p, e, g)
  <1>1. CASE e = Nothing /\ g = h
    BY <1>1 DEF Nothing, Effected
  <1>2. CASE e = ReadOutputs /\ g = [h EXCEPT !.read = ReadOutputs]
    <2>1. e.do = "read outputs"
      BY <1>2 DEF ReadOutputs
    <2> QED BY <1>2, <2>1, Fields DEF Effected
  <1>3. ASSUME NEW q \in Ports, NEW do \in {"enable", "disable"}, e = [do |-> do, which |-> q],
               h.read = ReadOutputs, g = [h EXCEPT !.read = Nothing]
        PROVE  /\ e.do \in {"enable", "disable"} /\ e.which \in Ports
               /\ g.read = Nothing /\ g.held = h.held /\ g.face = h.face /\ g.own = h.own
    BY <1>3, Fields
  <1>4. ASSUME NEW r \in Registers, p \in h.own, e = [do |-> "read modes", reg |-> r],
               g = [h EXCEPT !.read = ReadModes(p, r)]
        PROVE  /\ e.do = "read modes" /\ e.reg = r
               /\ g.read = ReadModes(p, r) /\ g.held = h.held /\ g.face = h.face /\ g.own = h.own
    BY <1>4, Fields
  <1>5. ASSUME NEW led \in Leds, NEW mode \in Modes, p \in h.own,
               e = [do |-> "write mode", reg |-> led \div 4, led |-> led, mode |-> mode],
               h.read = ReadModes(p, led \div 4), g = [h EXCEPT !.read = Nothing]
        PROVE  /\ e.do = "write mode" /\ e.led = led /\ e.mode = mode /\ e.reg = led \div 4
               /\ g.read = Nothing /\ g.held = h.held /\ g.face = h.face /\ g.own = h.own
    BY <1>5, Fields
  <1>6. CASE p \in h.own /\ e = [do |-> "reset"] /\ h.read = Nothing /\ g = h
    BY <1>6 DEF Effected
  <1>7. CASE \E q \in Ports, do \in {"enable", "disable"} :
               /\ e = [do |-> do, which |-> q] /\ h.read = ReadOutputs
               /\ g = [h EXCEPT !.read = Nothing]
    BY <1>3, <1>7 DEF Effected
  <1>8. CASE \E r \in Registers : /\ p \in h.own /\ e = [do |-> "read modes", reg |-> r]
                                  /\ g = [h EXCEPT !.read = ReadModes(p, r)]
    BY <1>4, <1>8 DEF Effected
  <1>9. CASE \E led \in Leds, mode \in Modes :
               /\ p \in h.own
               /\ e = [do |-> "write mode", reg |-> led \div 4, led |-> led, mode |-> mode]
               /\ h.read = ReadModes(p, led \div 4) /\ g = [h EXCEPT !.read = Nothing]
    BY <1>5, <1>9 DEF Effected
  <1> QED BY <1>1, <1>2, <1>6, <1>7, <1>8, <1>9 DEF Ends, Effected

\* The same, of a step: a lock taken or given up, a face selected, a transaction ended.
LEMMA LockBy ==
  ASSUME NEW h \in Points, NEW s, NEW g, Leads(h, s, g), s.op = "lock"
  PROVE  /\ \/ s.res = "PORT" /\ h.held = "none" /\ g.held = "PORT"
            \/ s.res = "TW" /\ h.held = "PORT" /\ g.held = "both"
         /\ g.face = h.face /\ g.read = h.read /\ g.own = h.own
  <1>1. \/ s.res = "PORT" /\ h.held = "none" /\ g = [h EXCEPT !.held = "PORT"]
        \/ s.res = "TW" /\ h.held = "PORT" /\ g = [h EXCEPT !.held = "both"]
    BY LeadsBy
  <1> QED BY <1>1 DEF Points

\* The lock that is given up is the one that was taken last.
LEMMA UnlockBy ==
  ASSUME NEW h \in Points, NEW s, NEW g, Leads(h, s, g), s.op = "unlock"
  PROVE  /\ \/ s.res = "TW" /\ h.held = "both" /\ g.held = "PORT"
            \/ s.res = "PORT" /\ h.held = "PORT" /\ g.held = "none"
         /\ g.face \subseteq h.face /\ g.read = h.read /\ g.own = h.own
  <1>1. \/ s.res = "TW" /\ h.held = "both" /\ g = [h EXCEPT !.held = "PORT"]
        \/ /\ s.res = "PORT" /\ h.held = "PORT"
           /\ g = [held |-> "none", face |-> {}, read |-> h.read, own |-> h.own]
    BY LeadsBy
  <1> QED BY <1>1 DEF Points

\* A transaction ends with both locks held, on the face that is selected.
LEMMA EndBy ==
  ASSUME NEW h \in Points, NEW s, NEW g, Leads(h, s, g), s.op = "end"
  PROVE  /\ s.port \in Targets /\ h.held = "both" /\ (s.port # NULLPORT => h.face = {s.port})
         /\ Effected(h, s.port, s.effect, g)
  BY LeadsBy, EndsBy

\* No two tasks hold the controller.
LEMMA Alone ==
  ASSUME Disciplined, Placed, LocksKnown, NEW t \in Tasks, Here(t).held # "none",
         NEW u \in Tasks, u # t
  PROVE  Here(u).held = "none" /\ Here(u).face = {} /\ Here(u).read # ReadOutputs
  BY HerePoint, Fields DEF LocksKnown

\* The step of task t has been taken, and all tasks are at points again.
LEMMA After ==
  ASSUME Disciplined, Placed, NEW t \in Tasks, Moved(t)
  PROVE  /\ \A u \in Tasks : Here(u) \in Points /\ Here(u)' \in Points
         /\ Leads(Here(t), Step(t), Here(t)')
         /\ \A u \in Tasks : u # t => Here(u)' = Here(u)
  <1>1. \A u \in Tasks : Here(u) \in Points
    BY HerePoint
  <1> QED BY <1>1 DEF Moved

-----------------------------------------------------------------------------
(* The invariant.                                                           *)

\* What of the invariant a step of t keeps that changes no lock, face or register.
LEMMA KeepLocks ==
  ASSUME LocksKnown, NEW t \in Tasks, \A u \in Tasks : u # t => Here(u)' = Here(u),
         Here(t)'.held = Here(t).held, holder' = holder
  PROVE  LocksKnown'
  BY DEF LocksKnown

\* The same of what is known of the multiplexer.
LEMMA KeepFace ==
  ASSUME FaceKnown, NEW t \in Tasks, \A u \in Tasks : u # t => Here(u)' = Here(u),
         Here(t)'.face = Here(t).face, selected' = selected
  PROVE  FaceKnown'
  BY DEF FaceKnown

\* The same of the registers, and of what has been read of them.
LEMMA KeepRead ==
  ASSUME OutputsKnown, ModesRead, OutputsAsAsked,
         \A u \in Tasks : Here(u)'.read = Here(u).read, UNCHANGED <<value, outputs, asked>>
  PROVE  OutputsKnown' /\ ModesRead' /\ OutputsAsAsked'
  BY DEF OutputsKnown, ModesRead, OutputsAsAsked

\* The parts of the invariant that the lemmas above ask for.
LEMMA TypesOf ==
  FacesInv => Placed /\ LocksKnown /\ FaceKnown /\ OutputsKnown /\ ModesRead /\ OutputsAsAsked
  BY DEF FacesInv, TypeOK, Placed

\* The invariant after a step that changes nothing but where its task is.
LEMMA QuietInv ==
  ASSUME Disciplined, FacesInv, NEW t \in Tasks, Moved(t), Here(t)' = Here(t),
         UNCHANGED <<holder, selected, device, value>>, bInitRequired' \in BOOLEAN
  PROVE  FacesInv'
  <1>1. \A u \in Tasks : Here(u)' = Here(u)
    BY DEF Moved
  <1>2. TypeOK'
    BY DEF FacesInv, TypeOK, Moved, Placed, device
  <1>3. LocksKnown' /\ FaceKnown' /\ OutputsKnown' /\ ModesRead' /\ OutputsAsAsked'
    BY <1>1, TypesOf, KeepLocks, KeepFace, KeepRead DEF device
  <1> QED BY <1>2, <1>3 DEF FacesInv, Moved, Placed

\* Each action keeps the invariant, from here on one after the other: instance().
LEMMA InstanceInv ==
  ASSUME Disciplined, FacesInv, NEW t \in Tasks, Instance(t) PROVE FacesInv'
  <1>1. bInitRequired' \in BOOLEAN
    BY DEF Instance, FacesInv, TypeOK
  <1> QED BY <1>1, TypesOf, InstanceMoves, QuietInv DEF Instance

\* The end of Init().
LEMMA InitialisedInv ==
  ASSUME Disciplined, FacesInv, NEW t \in Tasks, Initialised(t) PROVE FacesInv'
  <1>1. Moved(t)
    BY TypesOf, AdvanceMoves DEF Initialised, At, Placed, InitInPlace
  <1>2. Here(t)' = Here(t)
    BY <1>1, LeadsBy DEF Moved, Initialised, At
  <1> QED BY <1>1, <1>2, QuietInv DEF Initialised

\* The start of a transaction, and the pulse.
LEMMA DriveInv ==
  ASSUME Disciplined, FacesInv, NEW t \in Tasks, Drive(t) PROVE FacesInv'
  <1>1. Moved(t)
    BY TypesOf, AdvanceMoves DEF Drive, At, Placed, InitInPlace
  <1>2. Here(t)' = Here(t)
    BY <1>1, LeadsBy DEF Moved, Drive, At
  <1>3. bInitRequired' \in BOOLEAN
    BY DEF Drive, FacesInv, TypeOK
  <1> QED BY <1>1, <1>2, <1>3, QuietInv DEF Drive

\* The end of a transaction on a register of which nothing is known.
LEMMA WriteOtherInv ==
  ASSUME Disciplined, FacesInv, NEW t \in Tasks, WriteOther(t) PROVE FacesInv'
  <1>1. Moved(t)
    BY TypesOf, AdvanceMoves DEF WriteOther, At, Placed, InitInPlace
  <1>2. Here(t)' = Here(t)
    <2>1. Here(t) \in Points /\ Step(t).op = "end" /\ Step(t).effect.do = "nothing"
      BY TypesOf, HerePoint DEF WriteOther, At, Effect
    <2>2. Leads(Here(t), Step(t), Here(t)')
      BY <1>1 DEF Moved
    <2>3. Effected(Here(t), Step(t).port, Step(t).effect, Here(t)')
      BY <2>1, <2>2, EndBy
    <2> QED BY <2>1, <2>3 DEF Effected
  <1>3. bInitRequired' \in BOOLEAN
    BY DEF WriteOther, FacesInv, TypeOK
  <1> QED BY <1>1, <1>2, <1>3, QuietInv DEF WriteOther

\* lock(): the lock was free, so no other task knew it for its own.
LEMMA TakeInv ==
  ASSUME Disciplined, FacesInv, NEW t \in Tasks, Take(t) PROVE FacesInv'
  <1>1. Moved(t)
    BY TypesOf, AdvanceMoves DEF Take, At, Placed, InitInPlace
  <1>2. /\ \A u \in Tasks : Here(u) \in Points /\ Here(u)' \in Points
        /\ \A u \in Tasks : u # t => Here(u)' = Here(u)
    BY <1>1, TypesOf, After
  <1>3. Leads(Here(t), Step(t), Here(t)') /\ Step(t).op = "lock"
    BY <1>1 DEF Moved, Take, At
  <1>4. Here(t)'.face = Here(t).face /\ Here(t)'.read = Here(t).read
    BY <1>2, <1>3, LockBy
  <1>5. \/ Step(t).res = "PORT" /\ Here(t).held = "none" /\ Here(t)'.held = "PORT"
        \/ Step(t).res = "TW" /\ Here(t).held = "PORT" /\ Here(t)'.held = "both"
    BY <1>2, <1>3, LockBy
  <1>6. /\ holder' = [holder EXCEPT ![Step(t).res] = t] /\ holder[Step(t).res] = Free
        /\ UNCHANGED <<bInitRequired, selected, device, value>>
    BY DEF Take
  <1>7. holder \in [{"PORT", "TW"} -> Tasks \cup {Free}] /\ Free \notin Tasks
    BY FacesAssumption DEF FacesInv, TypeOK
  <1>8. TypeOK'
    BY <1>1, <1>5, <1>6, <1>7 DEF FacesInv, TypeOK, Moved, Placed, device
  <1>9. LocksKnown'
    BY <1>2, <1>5, <1>6, <1>7, TypesOf DEF LocksKnown
  <1>10. FaceKnown' /\ OutputsKnown' /\ ModesRead' /\ OutputsAsAsked'
    BY <1>2, <1>4, <1>6, TypesOf, KeepFace, KeepRead DEF device
  <1> QED BY <1>1, <1>8, <1>9, <1>10 DEF FacesInv, Moved, Placed

\* unlock().
LEMMA GiveInv ==
  ASSUME Disciplined, FacesInv, NEW t \in Tasks, Give(t) PROVE FacesInv'
  <1>1. Moved(t)
    BY TypesOf, AdvanceMoves DEF Give, At, Placed, InitInPlace
  <1>2. /\ \A u \in Tasks : Here(u) \in Points /\ Here(u)' \in Points
        /\ \A u \in Tasks : u # t => Here(u)' = Here(u)
    BY <1>1, TypesOf, After
  <1>3. Leads(Here(t), Step(t), Here(t)') /\ Step(t).op = "unlock"
    BY <1>1 DEF Moved, Give, At
  <1>4. Here(t)'.face \subseteq Here(t).face /\ Here(t)'.read = Here(t).read
    BY <1>2, <1>3, UnlockBy
  <1>5. \/ Step(t).res = "TW" /\ Here(t).held = "both" /\ Here(t)'.held = "PORT"
        \/ Step(t).res = "PORT" /\ Here(t).held = "PORT" /\ Here(t)'.held = "none"
    BY <1>2, <1>3, UnlockBy
  <1>6. /\ holder' = [holder EXCEPT ![Step(t).res] = Free]
        /\ UNCHANGED <<bInitRequired, selected, device, value>>
    BY DEF Give
  <1>7. holder \in [{"PORT", "TW"} -> Tasks \cup {Free}] /\ Free \notin Tasks
    BY FacesAssumption DEF FacesInv, TypeOK
  <1>8. TypeOK'
    BY <1>1, <1>5, <1>6, <1>7 DEF FacesInv, TypeOK, Moved, Placed, device
  <1>9. LocksKnown'
    BY <1>2, <1>5, <1>6, <1>7, TypesOf DEF LocksKnown
  <1>10. FaceKnown'
    BY <1>2, <1>4, <1>6, TypesOf DEF FaceKnown
  <1>11. OutputsKnown' /\ ModesRead' /\ OutputsAsAsked'
    BY <1>2, <1>4, <1>6, TypesOf, KeepRead DEF device
  <1> QED BY <1>1, <1>8, <1>9, <1>10, <1>11 DEF FacesInv, Moved, Placed

\* SelectPort(): no other task knew anything of the multiplexer, it is under the lock.
LEMMA SelectInv ==
  ASSUME Disciplined, FacesInv, NEW t \in Tasks, Select(t) PROVE FacesInv'
  <1>1. Moved(t)
    BY TypesOf, AdvanceMoves DEF Select, At, Placed, InitInPlace
  <1>2. /\ \A u \in Tasks : Here(u) \in Points /\ Here(u)' \in Points
        /\ \A u \in Tasks : u # t => Here(u)' = Here(u)
    BY <1>1, TypesOf, After
  <1>3. /\ Step(t).port \in Targets /\ Here(t).held # "none"
        /\ Here(t)' = [Here(t) EXCEPT !.face = {Step(t).port}]
    BY <1>1, LeadsBy DEF Moved, Select, At
  <1>4. /\ Here(t)'.face = {Step(t).port} /\ Here(t)'.read = Here(t).read
        /\ Here(t)'.held = Here(t).held
    BY <1>2, <1>3, Fields
  <1>5. selected' = Step(t).port /\ UNCHANGED <<holder, bInitRequired, device, value>>
    BY DEF Select
  <1>6. TypeOK'
    BY <1>1, <1>3, <1>5 DEF FacesInv, TypeOK, Moved, Placed, device, Targets
  <1>7. FaceKnown'
    <2>1. ASSUME NEW u \in Tasks, u # t PROVE Here(u)'.face = {}
      BY <1>2, <1>3, <2>1, TypesOf, Alone
    <2> QED BY <1>4, <1>5, <2>1 DEF FaceKnown
  <1>8. LocksKnown' /\ OutputsKnown' /\ ModesRead' /\ OutputsAsAsked'
    BY <1>2, <1>4, <1>5, TypesOf, KeepLocks, KeepRead DEF device
  <1> QED BY <1>1, <1>6, <1>7, <1>8 DEF FacesInv, Moved, Placed

\* A task that ends a transaction is alone, and on the device it means.
LEMMA Ending ==
  ASSUME Disciplined, FacesInv, NEW t \in Tasks, At(t, "end"), Advance(t),
         DOMAIN value' = Tasks
  PROVE  /\ Moved(t)
         /\ Here(t) \in Points /\ Here(t)' \in Points
         /\ Effected(Here(t), Step(t).port, Effect(t), Here(t)')
         /\ Reach(t) = Step(t).port /\ Step(t).port \in Targets
         /\ \A u \in Tasks : u # t => Here(u)' = Here(u) /\ Here(u).read # ReadOutputs
  <1>1. Moved(t)
    BY TypesOf, AdvanceMoves DEF At, Placed, InitInPlace
  <1>2. /\ \A u \in Tasks : Here(u) \in Points /\ Here(u)' \in Points
        /\ \A u \in Tasks : u # t => Here(u)' = Here(u)
    BY <1>1, TypesOf, After
  <1>3. Leads(Here(t), Step(t), Here(t)') /\ Step(t).op = "end"
    BY <1>1 DEF Moved, At
  <1>4. /\ Step(t).port \in Targets /\ Here(t).held = "both"
        /\ Step(t).port # NULLPORT => Here(t).face = {Step(t).port}
        /\ Effected(Here(t), Step(t).port, Step(t).effect, Here(t)')
    BY <1>2, <1>3, EndBy
  <1>5. Reach(t) = Step(t).port
    BY <1>4, TypesOf DEF Reach, FaceKnown
  <1>6. \A u \in Tasks : u # t => Here(u).read # ReadOutputs
    BY <1>4, TypesOf, Alone
  <1> QED BY <1>1, <1>2, <1>4, <1>5, <1>6 DEF Effect

\* What is left to show of the end of a transaction.
LEMMA EndInv ==
  ASSUME Disciplined, FacesInv, NEW t \in Tasks, At(t, "end"), Advance(t),
         UNCHANGED <<holder, bInitRequired, selected>>,
         outputs' \subseteq Ports,
         modes' \in [Ports -> [0 .. PACKS - 1 -> [Channels -> Modes]]],
         asked' \in [Ports -> {"on", "off", "any"}],
         wanted' \in [Ports -> [Leds -> Modes \cup {"any"}]],
         DOMAIN value' = Tasks, \A u \in Tasks : u # t => value'[u] = value[u],
         Here(t)'.read = ReadOutputs =>
           /\ value'[t].byte \subseteq Ports /\ value'[t].true \in BOOLEAN
           /\ value'[t].true => value'[t].byte = outputs',
         \A p \in Ports, r \in Registers : Here(t)'.read = ReadModes(p, r) =>
           value'[t].byte \in [Channels -> Modes] /\ value'[t].true \in BOOLEAN,
         OutputsAsAsked'
  PROVE  FacesInv'
  <1>1. /\ Moved(t) /\ Here(t)'.held = Here(t).held /\ Here(t)'.face = Here(t).face
        /\ \A u \in Tasks : u # t => Here(u)' = Here(u) /\ Here(u).read # ReadOutputs
    BY Ending DEF Effected
  <1>2. TypeOK'
    BY <1>1 DEF FacesInv, TypeOK, Moved, Placed
  <1>3. LocksKnown' /\ FaceKnown'
    BY <1>1, TypesOf, KeepLocks, KeepFace
  <1>4. OutputsKnown'
    BY <1>1 DEF OutputsKnown
  <1>5. ModesRead'
    BY <1>1, TypesOf DEF ModesRead
  <1> QED BY <1>1, <1>2, <1>3, <1>4, <1>5 DEF FacesInv, Moved, Placed

\* A register is read: the reset register, or that of the face that is meant.
LEMMA ReadRegisterInv ==
  ASSUME Disciplined, FacesInv, NEW t \in Tasks, ReadRegister(t) PROVE FacesInv'
  <1>1. /\ At(t, "end") /\ Advance(t) /\ Effect(t).do \in {"read outputs", "read modes"}
        /\ UNCHANGED <<holder, bInitRequired, selected, outputs, modes, asked, wanted>>
    BY DEF ReadRegister, device
  <1>2. /\ outputs \subseteq Ports
        /\ modes \in [Ports -> [0 .. PACKS - 1 -> [Channels -> Modes]]]
        /\ asked \in [Ports -> {"on", "off", "any"}]
        /\ wanted \in [Ports -> [Leds -> Modes \cup {"any"}]]
        /\ DOMAIN value = Tasks
    BY DEF FacesInv, TypeOK, InitInPlace
  <1>3. /\ DOMAIN value' = Tasks /\ \A u \in Tasks : u # t => value'[u] = value[u]
        /\ value'[t].true = TRUE
        /\ value'[t].byte =
             IF Effect(t).do = "read outputs" THEN outputs ELSE modes[Reach(t)][Effect(t).reg]
    BY <1>2 DEF ReadRegister
  <1>4. CASE Effect(t).do = "read outputs"
    <2>1. Here(t)'.read = ReadOutputs
      BY <1>1, <1>4, <1>3, Ending DEF Effected
    <2>2. \A p, r : Here(t)'.read # ReadModes(p, r)
      BY <2>1, Distinct
    <2> QED BY <1>1, <1>2, <1>3, <1>4, <2>1, <2>2, TypesOf, EndInv DEF OutputsAsAsked
  <1>5. CASE Effect(t).do = "read modes"
    <2>1. /\ Effect(t).reg \in Registers /\ Step(t).port \in Ports /\ Reach(t) = Step(t).port
          /\ Here(t)'.read = ReadModes(Step(t).port, Effect(t).reg)
      BY <1>1, <1>5, <1>3, Ending, Fields DEF Effected
    <2>2. Here(t)'.read # ReadOutputs
      BY <2>1, Distinct
    <2>3. value'[t].byte \in [Channels -> Modes]
      <3>1. modes[Step(t).port] \in [Registers -> [Channels -> Modes]]
        BY <1>2, <2>1 DEF Registers
      <3>2. modes[Step(t).port][Effect(t).reg] \in [Channels -> Modes]
        BY <2>1, <3>1
      <3> QED BY <1>3, <1>5, <2>1, <3>2
    <2> QED BY <1>1, <1>2, <1>3, <2>2, <2>3, TypesOf, EndInv DEF OutputsAsAsked
  <1> QED BY <1>1, <1>4, <1>5

\* A register is read and something else is received.
LEMMA MisreadInv ==
  ASSUME Disciplined, FacesInv, NEW t \in Tasks, Misread(t) PROVE FacesInv'
  <1>1. /\ At(t, "end") /\ Advance(t) /\ Effect(t).do \in {"read outputs", "read modes"}
        /\ UNCHANGED <<holder, bInitRequired, selected, outputs, modes, asked, wanted>>
    BY DEF Misread
  <1>2. /\ outputs \subseteq Ports
        /\ modes \in [Ports -> [0 .. PACKS - 1 -> [Channels -> Modes]]]
        /\ asked \in [Ports -> {"on", "off", "any"}]
        /\ wanted \in [Ports -> [Leds -> Modes \cup {"any"}]]
        /\ DOMAIN value = Tasks
    BY DEF FacesInv, TypeOK, InitInPlace
  <1>3. /\ DOMAIN value' = Tasks /\ \A u \in Tasks : u # t => value'[u] = value[u]
        /\ value'[t].true = FALSE
        /\ value'[t].byte \in
             IF Effect(t).do = "read outputs" THEN {Ports, {}} ELSE {All("BLINK"), All("OFF")}
    <2>1. PICK byte \in IF Effect(t).do = "read outputs" THEN {Ports, {}} ELSE {All("BLINK"), All("OFF")} :
            value' = [value EXCEPT ![t] = [byte |-> byte, true |-> FALSE]]
      BY DEF Misread
    <2>2. value'[t] = [byte |-> byte, true |-> FALSE]
      BY <1>2, <2>1
    <2> QED BY <1>2, <2>1, <2>2
  <1>4. CASE Effect(t).do = "read outputs"
    <2>1. Here(t)'.read = ReadOutputs
      BY <1>1, <1>4, <1>3, Ending DEF Effected
    <2>2. \A p, r : Here(t)'.read # ReadModes(p, r)
      BY <2>1, Distinct
    <2> QED BY <1>1, <1>2, <1>3, <1>4, <2>1, <2>2, TypesOf, EndInv DEF OutputsAsAsked
  <1>5. CASE Effect(t).do = "read modes"
    <2>1. Here(t)'.read = ReadModes(Step(t).port, Effect(t).reg)
      BY <1>1, <1>5, <1>3, Ending DEF Effected
    <2>2. Here(t)'.read # ReadOutputs
      BY <2>1, Distinct
    <2>3. value'[t].byte \in [Channels -> Modes]
      BY <1>3, <1>5 DEF All, Modes
    <2> QED BY <1>1, <1>2, <1>3, <2>2, <2>3, TypesOf, EndInv DEF OutputsAsAsked
  <1> QED BY <1>1, <1>4, <1>5

\* The reset register is written back: nobody else has between the two sections.
LEMMA WriteOutputsInv ==
  ASSUME Disciplined, FacesInv, NEW t \in Tasks, WriteOutputs(t) PROVE FacesInv'
  <1> DEFINE w == Effect(t).which
  <1>1. /\ At(t, "end") /\ Advance(t) /\ value' = [value EXCEPT ![t] = Nothing]
        /\ UNCHANGED <<holder, bInitRequired, selected, modes, wanted, failures>>
        /\ Effect(t).do \in {"enable", "disable"}
    BY DEF WriteOutputs
  <1>2. /\ modes \in [Ports -> [0 .. PACKS - 1 -> [Channels -> Modes]]]
        /\ asked \in [Ports -> {"on", "off", "any"}]
        /\ wanted \in [Ports -> [Leds -> Modes \cup {"any"}]]
        /\ DOMAIN value = Tasks
    BY DEF FacesInv, TypeOK, InitInPlace
  <1>3. DOMAIN value' = Tasks /\ \A u \in Tasks : u # t => value'[u] = value[u]
    BY <1>1, <1>2
  <1>4. w \in Ports /\ Here(t).read = ReadOutputs /\ Here(t)'.read = Nothing
    BY <1>1, <1>3, Ending DEF Effected
  <1>5. /\ value[t].byte \subseteq Ports /\ value[t].true \in BOOLEAN
        /\ value[t].true => value[t].byte = outputs
    BY <1>4, TypesOf DEF OutputsKnown
  <1>6. /\ Here(t)'.read # ReadOutputs
        /\ \A p, r : Here(t)'.read # ReadModes(p, r)
    BY <1>4, Distinct
  <1>7. \/ /\ outputs' = value[t].byte \cup {w}
           /\ asked' = [[p \in Ports |-> Rest(t, asked[p])] EXCEPT ![w] = "on"]
        \/ /\ outputs' = value[t].byte \ {w}
           /\ asked' = [[p \in Ports |-> Rest(t, asked[p])] EXCEPT ![w] = "off"]
    BY DEF WriteOutputs
  <1>8. \A p \in Ports : /\ Rest(t, asked[p]) \in {"on", "off", "any"}
                         /\ Rest(t, asked[p]) \in {IF p \in value[t].byte THEN "on" ELSE "off", "any"}
    BY <1>2, <1>5, TypesOf DEF Rest, OutputsAsAsked
  <1> HIDE DEF w
  <1>9. outputs' \subseteq Ports /\ asked' \in [Ports -> {"on", "off", "any"}]
    BY <1>4, <1>5, <1>7, <1>8
  <1>10. OutputsAsAsked'
    BY <1>4, <1>7, <1>8 DEF OutputsAsAsked
  <1> QED BY <1>1, <1>2, <1>3, <1>6, <1>9, <1>10, EndInv

\* A mode register is written back.
LEMMA WriteModeInv ==
  ASSUME Disciplined, FacesInv, NEW t \in Tasks, WriteMode(t) PROVE FacesInv'
  <1> DEFINE p == Step(t).port
             r == Effect(t).reg
  <1>1. /\ At(t, "end") /\ Advance(t) /\ value' = [value EXCEPT ![t] = Nothing]
        /\ UNCHANGED <<holder, bInitRequired, selected, outputs, asked, failures>>
        /\ Effect(t).do = "write mode"
    BY DEF WriteMode
  <1>2. /\ outputs \subseteq Ports /\ asked \in [Ports -> {"on", "off", "any"}]
        /\ modes \in [Ports -> [Registers -> [Channels -> Modes]]]
        /\ wanted \in [Ports -> [Leds -> Modes \cup {"any"}]]
        /\ DOMAIN value = Tasks
    BY DEF FacesInv, TypeOK, InitInPlace, Registers
  <1>3. DOMAIN value' = Tasks /\ \A u \in Tasks : u # t => value'[u] = value[u]
    BY <1>1, <1>2
  <1>4. /\ p \in Here(t).own /\ Here(t) \in Points /\ Reach(t) = p
        /\ Effect(t).led \in Leds /\ Effect(t).mode \in Modes /\ r = Effect(t).led \div 4
        /\ Here(t).read = ReadModes(p, r) /\ Here(t)'.read = Nothing
    BY <1>1, <1>3, Ending DEF Effected
  <1>5. p \in Ports /\ r \in Registers /\ Effect(t).led % 4 \in Channels
    BY <1>4, Fields, LEDAssumption DEF Leds, Registers, Channels
  <1>6. /\ Here(t)'.read # ReadOutputs
        /\ \A q, s : Here(t)'.read # ReadModes(q, s)
    BY <1>4, Distinct
  <1>7. value[t].byte \in [Channels -> Modes] /\ value[t].true \in BOOLEAN
    BY <1>4, <1>5, TypesOf DEF ModesRead
  <1>8. modes' \in [Ports -> [0 .. PACKS - 1 -> [Channels -> Modes]]]
    <2> DEFINE b == [value[t].byte EXCEPT ![Effect(t).led % 4] = Effect(t).mode]
    <2>1. b \in [Channels -> Modes]
      BY <1>4, <1>5, <1>7
    <2>2. modes' = [modes EXCEPT ![p] = [modes[p] EXCEPT ![r] = b]]
      BY <1>4 DEF WriteMode
    <2> HIDE DEF b, p, r
    <2>3. modes' \in [Ports -> [Registers -> [Channels -> Modes]]]
      BY <1>2, <1>5, <2>1, <2>2
    <2> QED BY <2>3 DEF Registers
  <1>9. wanted' \in [Ports -> [Leds -> Modes \cup {"any"}]]
    <2> DEFINE ws == [led \in Leds |-> CASE led = Effect(t).led              -> Effect(t).mode
                                         [] led \div 4 # Effect(t).led \div 4 -> wanted[p][led]
                                         [] OTHER                            -> Rest(t, wanted[p][led])]
    <2>1. ASSUME NEW led \in Leds PROVE ws[led] \in Modes \cup {"any"}
      <3>1. wanted[p][led] \in Modes \cup {"any"}
        BY <1>2, <1>5
      <3> QED BY <1>4, <3>1 DEF Rest
    <2>2. wanted' = [wanted EXCEPT ![p] = ws]
      BY DEF WriteMode
    <2>3. ws \in [Leds -> Modes \cup {"any"}]
      <3>1. ws = [led \in Leds |-> ws[led]]
        OBVIOUS
      <3> HIDE DEF ws
      <3> QED BY <2>1, <3>1
    <2> HIDE DEF ws, p
    <2> QED BY <1>2, <1>5, <2>2, <2>3
  <1>10. OutputsAsAsked'
    BY <1>1, TypesOf DEF OutputsAsAsked
  <1> QED BY <1>1, <1>2, <1>3, <1>6, <1>8, <1>9, <1>10, EndInv

\* A light driver is reset.
LEMMA ResetInv ==
  ASSUME Disciplined, FacesInv, NEW t \in Tasks, Reset(t) PROVE FacesInv'
  <1>1. /\ At(t, "end") /\ Advance(t) /\ Effect(t).do = "reset"
        /\ UNCHANGED <<holder, bInitRequired, selected, outputs, asked, failures, value>>
    BY DEF Reset
  <1>2. /\ outputs \subseteq Ports /\ asked \in [Ports -> {"on", "off", "any"}]
        /\ modes \in [Ports -> [0 .. PACKS - 1 -> [Channels -> Modes]]]
        /\ wanted \in [Ports -> [Leds -> Modes \cup {"any"}]]
        /\ DOMAIN value' = Tasks
    BY <1>1 DEF FacesInv, TypeOK, InitInPlace
  <1>3. Here(t)'.read = Nothing
    BY <1>1, <1>2, Ending DEF Effected
  <1>4. /\ Here(t)'.read # ReadOutputs
        /\ \A p, r : Here(t)'.read # ReadModes(p, r)
    BY <1>3, Distinct
  <1>5. modes' \in [Ports -> [0 .. PACKS - 1 -> [Channels -> Modes]]]
    <2>1. [r \in 0 .. PACKS - 1 |-> All("OFF")] \in [0 .. PACKS - 1 -> [Channels -> Modes]]
      BY DEF All, Modes
    <2>2. modes' = [modes EXCEPT ![Reach(t)] = [r \in 0 .. PACKS - 1 |-> All("OFF")]]
      BY DEF Reset
    <2> QED BY <1>2, <2>1, <2>2
  <1>6. wanted' \in [Ports -> [Leds -> Modes \cup {"any"}]]
    <2>1. [led \in Leds |-> "OFF"] \in [Leds -> Modes \cup {"any"}]
      BY DEF Modes
    <2>2. wanted' = [wanted EXCEPT ![Step(t).port] = [led \in Leds |-> "OFF"]]
      BY DEF Reset
    <2> QED BY <1>2, <2>1, <2>2
  <1>7. OutputsAsAsked'
    BY <1>1, TypesOf DEF OutputsAsAsked
  <1> QED BY <1>1, <1>2, <1>4, <1>5, <1>6, <1>7, EndInv

\* A write that the device does not acknowledge.
LEMMA UnheardInv ==
  ASSUME Disciplined, FacesInv, NEW t \in Tasks, Unheard(t) PROVE FacesInv'
  <1> DEFINE p == Step(t).port
  <1>1. /\ At(t, "end") /\ Advance(t) /\ value' = [value EXCEPT ![t] = Nothing]
        /\ UNCHANGED <<holder, bInitRequired, selected, outputs, modes>>
        /\ Effect(t).do \in {"enable", "disable", "write mode", "reset"}
    BY DEF Unheard
  <1>2. /\ outputs \subseteq Ports /\ asked \in [Ports -> {"on", "off", "any"}]
        /\ modes \in [Ports -> [0 .. PACKS - 1 -> [Channels -> Modes]]]
        /\ wanted \in [Ports -> [Leds -> Modes \cup {"any"}]]
        /\ DOMAIN value = Tasks
    BY DEF FacesInv, TypeOK, InitInPlace
  <1>3. DOMAIN value' = Tasks /\ \A u \in Tasks : u # t => value'[u] = value[u]
    BY <1>1, <1>2
  <1>4. Here(t)'.read = Nothing
    <2>1. Effected(Here(t), Step(t).port, Effect(t), Here(t)')
      BY <1>1, <1>3, Ending
    <2> QED BY <1>1, <2>1 DEF Effected
  <1>5. /\ Here(t)'.read # ReadOutputs
        /\ \A q, r : Here(t)'.read # ReadModes(q, r)
    BY <1>4, Distinct
  <1>6. asked' = asked \/ asked' = [asked EXCEPT ![Effect(t).which] = "any"]
    BY DEF Unheard
  <1>7. \/ wanted' = wanted
        \/ wanted' = [wanted EXCEPT ![p] = [wanted[p] EXCEPT ![Effect(t).led] = "any"]]
        \/ wanted' = [wanted EXCEPT ![p] = [led \in Leds |-> "any"]]
    BY DEF Unheard
  <1> HIDE DEF p
  <1>8. asked' \in [Ports -> {"on", "off", "any"}]
    BY <1>2, <1>6
  <1>9. wanted' \in [Ports -> [Leds -> Modes \cup {"any"}]]
    <2>1. ASSUME NEW ws, NEW q \in Ports, ws \in [Leds -> Modes \cup {"any"}]
          PROVE  [wanted EXCEPT ![q] = ws] \in [Ports -> [Leds -> Modes \cup {"any"}]]
      BY <1>2, <2>1
    <2>2. [led \in Leds |-> "any"] \in [Leds -> Modes \cup {"any"}]
      OBVIOUS
    <2>3. p \in Ports => [wanted[p] EXCEPT ![Effect(t).led] = "any"] \in [Leds -> Modes \cup {"any"}]
      BY <1>2
    <2>4. CASE p \in Ports
      BY <1>2, <1>7, <2>1, <2>2, <2>3, <2>4
    <2>5. CASE p \notin Ports
      BY <1>2, <1>7, <2>5
    <2> QED BY <2>4, <2>5
  <1>10. OutputsAsAsked'
    <2>1. \A q \in Ports : asked'[q] \in {asked[q], "any"}
      BY <1>2, <1>6
    <2> QED BY <1>1, <2>1, TypesOf DEF OutputsAsAsked
  <1> QED BY <1>1, <1>2, <1>3, <1>5, <1>8, <1>9, <1>10, EndInv

\* The initial states.
LEMMA InitInv ==
  ASSUME Disciplined, FacesInit PROVE FacesInv
  <1>1. /\ at \in [Tasks -> Nat] /\ \A t \in Tasks : at[t] \in {1, Len(Code[t]) + 1}
    <2>1. PICK setting \in Settings :
            at = [t \in Tasks |-> IF t \in setting.tasks THEN 1 ELSE Len(Program[t]) + 1]
      BY DEF FacesInit
    <2>2. \A t \in Tasks : Len(Code[t]) \in Nat /\ Program[t] = Code[t]
      BY OutlineIs DEF Code
    <2> QED BY <2>1, <2>2
  <1>2. \A t \in Tasks : Outline[t][at[t]] = Idle(Owns[t]) /\ Len(Code[t]) \in Nat
    BY <1>1, OutlineIs
  <1>3. /\ init = [t \in Tasks |-> <<>>] /\ DOMAIN value = Tasks
        /\ holder = [r \in {"PORT", "TW"} |-> Free] /\ bInitRequired = TRUE
        /\ selected = NULLPORT /\ outputs = Ports /\ asked = [p \in Ports |-> "on"]
        /\ modes = [p \in Ports |-> [r \in 0 .. PACKS - 1 |-> All("OFF")]]
        /\ wanted = [p \in Ports |-> [led \in Leds |-> "OFF"]]
    BY DEF FacesInit
  <1>4. Len(Init) \in Nat /\ Len(<<>>) = 0
    BY InitIsFlat
  <1>5. InitInPlace
    <2>1. init \in [Tasks -> Seq(Range(Init))]
      BY <1>3
    <2>2. \A t \in Tasks : Len(init[t]) = 0 /\ init[t] = <<>>
      BY <1>3
    <2> QED BY <1>1, <1>3, <1>4, <2>1, <2>2 DEF InitInPlace
  <1>6. \A t \in Tasks : Here(t) = Idle(Owns[t])
    BY <1>2, <1>3 DEF Here
  <1>7. \A t \in Tasks : /\ Here(t).held = "none" /\ Here(t).face = {}
                         /\ Here(t).read = Nothing
    BY <1>6 DEF Idle
  <1>8. LocksKnown /\ FaceKnown
    BY <1>3, <1>7, FacesAssumption DEF LocksKnown, FaceKnown
  <1>9. OutputsKnown /\ ModesRead
    BY <1>7, Distinct DEF OutputsKnown, ModesRead
  <1>10. OutputsAsAsked
    BY <1>3 DEF OutputsAsAsked
  <1>11. TypeOK
    <2>1. \A t \in Tasks : at[t] \in 1 .. Len(Code[t]) + 1 /\ Len(init[t]) <= Len(Init)
      BY <1>1, <1>2, <1>3, <1>4
    <2>2. modes \in [Ports -> [0 .. PACKS - 1 -> [Channels -> Modes]]]
      BY <1>3 DEF All, Modes
    <2>3. wanted \in [Ports -> [Leds -> Modes \cup {"any"}]]
      BY <1>3 DEF Modes
    <2> QED BY <1>3, <2>1, <2>2, <2>3 DEF TypeOK
  <1> QED BY <1>5, <1>8, <1>9, <1>10, <1>11 DEF FacesInv

\* A step that changes nothing.
LEMMA StutterInv ==
  ASSUME FacesInv, UNCHANGED vars PROVE FacesInv'
  <1>1. UNCHANGED <<at, init, holder, bInitRequired, selected, outputs, modes, asked, wanted, value>>
    BY DEF vars, device
  <1>2. \A t \in Tasks : Here(t)' = Here(t)
    BY <1>1 DEF Here
  <1>3. TypeOK'
    BY <1>1 DEF FacesInv, TypeOK
  <1>4. InitInPlace'
    BY <1>1 DEF FacesInv, InitInPlace
  <1>5. LocksKnown' /\ FaceKnown' /\ OutputsKnown' /\ ModesRead' /\ OutputsAsAsked'
    BY <1>1, <1>2 DEF FacesInv, LocksKnown, FaceKnown, OutputsKnown, ModesRead, OutputsAsAsked
  <1> QED BY <1>3, <1>4, <1>5 DEF FacesInv

\* Every step keeps the invariant.
LEMMA NextInv ==
  ASSUME Disciplined, FacesInv, [Next]_vars PROVE FacesInv'
  <1>1. CASE UNCHANGED vars
    BY <1>1, StutterInv
  <1>2. CASE AllFinished
    BY <1>2, StutterInv DEF AllFinished
  <1>3. ASSUME NEW t \in Tasks,
               \/ Instance(t) \/ Initialised(t) \/ Take(t) \/ Give(t)
               \/ Select(t) \/ Drive(t) \/ ReadRegister(t) \/ WriteOutputs(t)
               \/ WriteMode(t) \/ Reset(t) \/ WriteOther(t) \/ Misread(t) \/ Unheard(t)
        PROVE  FacesInv'
    BY <1>3, InstanceInv, InitialisedInv, TakeInv, GiveInv, SelectInv, DriveInv, ReadRegisterInv,
       WriteOutputsInv, WriteModeInv, ResetInv, WriteOtherInv, MisreadInv, UnheardInv
  <1> QED BY <1>1, <1>2, <1>3 DEF Next

-----------------------------------------------------------------------------
(* The modes of the leds, if a face is the business of one task.            *)

\* No step changes whose face it is.
LEMMA SameOwner ==
  ASSUME NEW h \in Points, NEW s, NEW g, Leads(h, s, g) PROVE g.own = h.own
  <1>1. CASE s.op = "end"
    <2>1. Effected(h, s.port, s.effect, g)
      BY <1>1, EndBy
    <2> QED BY <2>1 DEF Effected
  <1>2. CASE s.op = "lock"
    BY <1>2, LockBy
  <1>3. CASE s.op = "unlock"
    BY <1>3, UnlockBy
  <1>4. CASE s.op \notin {"end", "lock", "unlock"}
    <2>1. g = h \/ \E p \in Targets : g = [h EXCEPT !.face = {p}]
      BY <1>4 DEF Leads
    <2> QED BY <2>1 DEF Points
  <1> QED BY <1>1, <1>2, <1>3, <1>4

\* So each task keeps its faces.
LEMMA OwnKept ==
  ASSUME Disciplined, Placed, OwnKnown, NEW t \in Tasks, Moved(t) PROVE OwnKnown'
  <1>1. Here(t)'.own = Here(t).own
    BY HerePoint, SameOwner DEF Moved
  <1> QED BY <1>1 DEF OwnKnown, Moved

\* A step that leaves the registers of the light drivers, and what of them is known, as they are.
LEMMA KeepModes ==
  ASSUME ModesKnown, ModesAsSet, UNCHANGED <<modes, wanted>>,
         \A u \in Tasks, p \in Ports, r \in Registers : Here(u)'.read = ReadModes(p, r) =>
           Here(u).read = ReadModes(p, r) /\ value'[u] = value[u]
  PROVE  ModesKnown' /\ ModesAsSet'
  BY DEF ModesKnown, ModesAsSet

\* The steps that neither read nor write a register whose value is known.
LEMMA QuietModes ==
  ASSUME Disciplined, FacesModesInv, NEW t \in Tasks,
         \/ Instance(t) \/ Initialised(t) \/ Take(t) \/ Give(t) \/ Select(t) \/ Drive(t) \/ WriteOther(t)
  PROVE  OwnKnown' /\ ModesKnown' /\ ModesAsSet'
  <1>1. UNCHANGED <<modes, wanted, value>>
    BY DEF Instance, Initialised, Take, Give, Select, Drive, WriteOther, device
  <1>2. Moved(t)
    <2>1. FacesInv /\ DOMAIN value = Tasks
      BY DEF FacesModesInv, FacesInv, InitInPlace
    <2>2. CASE Instance(t)
      BY <2>1, <2>2, TypesOf, InstanceMoves
    <2>3. CASE ~Instance(t)
      BY <1>1, <2>1, <2>3, TypesOf, AdvanceMoves
         DEF At, Initialised, Take, Give, Select, Drive, WriteOther
    <2> QED BY <2>2, <2>3
  <1>3. Here(t)'.read = Here(t).read
    <2>1. Here(t) \in Points /\ Leads(Here(t), Step(t), Here(t)')
      BY <1>2, TypesOf, HerePoint DEF FacesModesInv, Moved
    <2>2. \/ Step(t).op \in {"instance", "initialised", "lock", "unlock", "select", "start", "pulse"}
          \/ Step(t).op = "end" /\ Step(t).effect.do = "nothing"
      BY DEF Instance, Initialised, Take, Give, Select, Drive, WriteOther, At, Effect
    <2>3. CASE Step(t).op = "end" /\ Step(t).effect.do = "nothing"
      <3>1. Effected(Here(t), Step(t).port, Step(t).effect, Here(t)')
        BY <2>1, <2>3, EndBy
      <3> QED BY <2>3, <3>1 DEF Effected
    <2>4. CASE Step(t).op \in {"instance", "initialised", "select", "start", "pulse"}
      <3>1. Here(t)' = Here(t) \/ \E p \in Targets : Here(t)' = [Here(t) EXCEPT !.face = {p}]
        BY <2>1, <2>4 DEF Leads
      <3> QED BY <2>1, <3>1 DEF Points
    <2>5. CASE Step(t).op \in {"lock", "unlock"}
      BY <2>1, <2>5, LockBy, UnlockBy
    <2> QED BY <2>2, <2>3, <2>4, <2>5
  <1>4. \A u \in Tasks : Here(u)'.read = Here(u).read
    BY <1>2, <1>3 DEF Moved
  <1> QED BY <1>1, <1>2, <1>4, TypesOf, KeepModes, OwnKept DEF FacesModesInv

\* The steps that read a register, or write the reset register back.
LEMMA ReadModesModes ==
  ASSUME Disciplined, FacesModesInv, NEW t \in Tasks,
         \/ ReadRegister(t) \/ Misread(t) \/ WriteOutputs(t)
  PROVE  OwnKnown' /\ ModesKnown' /\ ModesAsSet'
  <1>1. /\ At(t, "end") /\ Advance(t) /\ UNCHANGED <<modes, wanted>>
        /\ Effect(t).do \in {"read outputs", "read modes", "enable", "disable"}
    BY DEF ReadRegister, Misread, WriteOutputs, device
  <1>2. DOMAIN value = Tasks
    BY DEF FacesModesInv, FacesInv, InitInPlace
  <1>3. DOMAIN value' = Tasks /\ \A u \in Tasks : u # t => value'[u] = value[u]
    BY <1>2 DEF ReadRegister, Misread, WriteOutputs
  <1>4. /\ Moved(t) /\ Here(t) \in Points /\ Reach(t) = Step(t).port
        /\ Effected(Here(t), Step(t).port, Effect(t), Here(t)')
        /\ \A u \in Tasks : u # t => Here(u)' = Here(u)
    BY <1>1, <1>3, Ending DEF FacesModesInv
  <1>5. OwnKnown'
    BY <1>4, TypesOf, OwnKept DEF FacesModesInv
  <1>6. ModesAsSet'
    BY <1>1 DEF FacesModesInv, ModesAsSet
  <1>7. ASSUME NEW p \in Ports, NEW r \in Registers, Here(t)'.read = ReadModes(p, r)
        PROVE  p \in Owns[t] /\ (value'[t].true => value'[t].byte = modes'[p][r])
    <2>1. Effect(t).do = "read modes"
      <3>1. Here(t)'.read # Nothing /\ Here(t)'.read # ReadOutputs
        BY <1>7, Distinct
      <3>2. Effected(Here(t), Step(t).port, Effect(t), Here(t)')
        BY <1>4
      <3> QED BY <1>1, <3>1, <3>2 DEF Effected
    <2>2. p \in Here(t).own /\ p = Reach(t) /\ r = Effect(t).reg
      <3>1. Effected(Here(t), Step(t).port, Effect(t), Here(t)')
        BY <1>4
      <3>2. /\ Here(t)'.read = ReadModes(Step(t).port, Effect(t).reg)
            /\ Step(t).port \in Here(t).own
        BY <2>1, <3>1 DEF Effected
      <3>3. p = Step(t).port /\ r = Effect(t).reg
        <4>1. ReadModes(p, r) = ReadModes(Step(t).port, Effect(t).reg)
          BY <1>7, <3>2
        <4> QED BY <4>1, Distinct
      <3> QED BY <1>4, <3>2, <3>3
    <2>3. value'[t].true => value'[t].byte = modes[Reach(t)][Effect(t).reg]
      <3>1. CASE ReadRegister(t)
        BY <1>2, <2>1, <3>1 DEF ReadRegister
      <3>2. CASE Misread(t)
        <4>1. PICK byte : value' = [value EXCEPT ![t] = [byte |-> byte, true |-> FALSE]]
          BY <3>2 DEF Misread
        <4> QED BY <1>2, <4>1
      <3>3. ~WriteOutputs(t)
        BY <2>1 DEF WriteOutputs
      <3> QED BY <3>1, <3>2, <3>3
    <2> QED BY <1>1, <2>2, <2>3 DEF FacesModesInv, OwnKnown
  <1>8. ModesKnown'
    <2>1. ASSUME NEW u \in Tasks, u # t, NEW p \in Ports, NEW r \in Registers,
                 Here(u)'.read = ReadModes(p, r)
          PROVE  p \in Owns[u] /\ (value'[u].true => value'[u].byte = modes'[p][r])
      <3>1. Here(u).read = ReadModes(p, r) /\ value'[u] = value[u] /\ modes' = modes
        BY <1>1, <1>3, <1>4, <2>1
      <3> QED BY <3>1 DEF FacesModesInv, ModesKnown
    <2> QED BY <1>7, <2>1 DEF ModesKnown
  <1> QED BY <1>5, <1>6, <1>8

\* A write to a light driver on p, by the task whose face it is, does not
\* matter to a task that has read a register.
LEMMA OthersModes ==
  ASSUME ModesOwned, OwnKnown, ModesKnown, NEW t \in Tasks, NEW q \in Ports, q \in Owns[t],
         \A u \in Tasks : u # t => Here(u)' = Here(u) /\ value'[u] = value[u],
         \A p \in Ports : p # q => modes'[p] = modes[p],
         Here(t)'.read = Nothing
  PROVE  ModesKnown'
  <1>1. ASSUME NEW u \in Tasks, NEW p \in Ports, NEW r \in Registers, Here(u)'.read = ReadModes(p, r)
        PROVE  p \in Owns[u] /\ (value'[u].true => value'[u].byte = modes'[p][r])
    <2>1. u # t
      BY <1>1, Distinct
    <2>2. p \in Owns[u] /\ (value[u].true => value[u].byte = modes[p][r])
      BY <1>1, <2>1 DEF ModesKnown
    <2>3. p # q
      BY <2>1, <2>2 DEF ModesOwned
    <2> QED BY <2>1, <2>2, <2>3
  <1> QED BY <1>1 DEF ModesKnown

\* A mode register is written back: it was read by this task, and has not changed since.
LEMMA WriteModeModes ==
  ASSUME Disciplined, ModesOwned, FacesModesInv, NEW t \in Tasks, WriteMode(t)
  PROVE  OwnKnown' /\ ModesKnown' /\ ModesAsSet'
  <1> DEFINE p == Step(t).port
             r == Effect(t).reg
             e == Effect(t)
             c == e.led % 4
  <1>1. /\ At(t, "end") /\ Advance(t) /\ value' = [value EXCEPT ![t] = Nothing]
        /\ Effect(t).do = "write mode"
    BY DEF WriteMode
  <1>2. /\ modes \in [Ports -> [Registers -> [Channels -> Modes]]]
        /\ wanted \in [Ports -> [Leds -> Modes \cup {"any"}]]
        /\ DOMAIN value = Tasks
    BY DEF FacesModesInv, FacesInv, TypeOK, InitInPlace, Registers
  <1>3. DOMAIN value' = Tasks /\ \A u \in Tasks : u # t => value'[u] = value[u]
    BY <1>1, <1>2
  <1>4. /\ Moved(t) /\ Here(t) \in Points /\ Reach(t) = Step(t).port
        /\ Effected(Here(t), Step(t).port, Effect(t), Here(t)')
        /\ \A u \in Tasks : u # t => Here(u)' = Here(u)
    BY <1>1, <1>3, Ending DEF FacesModesInv
  <1>5. /\ p \in Here(t).own
        /\ e.led \in Leds /\ e.mode \in Modes /\ r = e.led \div 4
        /\ Here(t).read = ReadModes(p, r) /\ Here(t)'.read = Nothing
    BY <1>1, <1>4 DEF Effected
  <1>6. p \in Ports /\ r \in Registers /\ c \in Channels /\ p \in Owns[t]
    <2>1. p \in Ports
      BY <1>4, <1>5, Fields
    <2>2. r \in Registers /\ c \in Channels
      BY <1>5, LEDAssumption DEF Leds, Registers, Channels
    <2> QED BY <1>5, <2>1, <2>2 DEF FacesModesInv, OwnKnown
  <1>7. value[t].byte \in [Channels -> Modes] /\ (value[t].true => value[t].byte = modes[p][r])
    BY <1>5, <1>6 DEF FacesModesInv, FacesInv, ModesRead, ModesKnown
  <1>8. OwnKnown'
    BY <1>4, TypesOf, OwnKept DEF FacesModesInv
  <1> DEFINE b == [value[t].byte EXCEPT ![c] = e.mode]
             ws == [led \in Leds |-> CASE led = e.led               -> e.mode
                                       [] led \div 4 # e.led \div 4 -> wanted[p][led]
                                       [] OTHER                     -> Rest(t, wanted[p][led])]
  <1>9. /\ modes' = [modes EXCEPT ![p] = [modes[p] EXCEPT ![r] = b]]
        /\ wanted' = [wanted EXCEPT ![p] = ws]
    BY <1>4 DEF WriteMode
  <1>10. /\ modes'[p] = [modes[p] EXCEPT ![r] = b] /\ wanted'[p] = ws
         /\ \A q \in Ports : q # p => modes'[q] = modes[q] /\ wanted'[q] = wanted[q]
    <2> HIDE DEF p, b, ws
    <2> QED BY <1>2, <1>6, <1>9
  <1>11. ModesKnown'
    BY <1>3, <1>4, <1>5, <1>6, <1>10, OthersModes DEF FacesModesInv
  <1>12. ASSUME NEW led \in Leds PROVE wanted'[p][led] \in {modes'[p][led \div 4][led % 4], "any"}
    <2>1. led \div 4 \in Registers /\ led % 4 \in Channels
      BY LEDAssumption DEF Leds, Registers, Channels
    <2>2. wanted[p][led] \in {modes[p][led \div 4][led % 4], "any"}
      BY <1>6 DEF FacesModesInv, ModesAsSet
    <2>3. modes[p] \in [Registers -> [Channels -> Modes]]
      BY <1>2, <1>6
    <2>4. modes'[p][led \div 4] = IF led \div 4 = r THEN b ELSE modes[p][led \div 4]
      BY <1>10, <2>1, <2>3
    <2>5. b[led % 4] = IF led % 4 = c THEN e.mode ELSE value[t].byte[led % 4]
      BY <1>7, <2>1
    <2>6. CASE led = e.led
      <3>1. ws[led] = e.mode
        BY <1>5, <2>6
      <3>2. modes'[p][led \div 4][led % 4] = e.mode
        BY <1>5, <2>4, <2>5, <2>6
      <3> QED BY <1>10, <3>1, <3>2
    <2>7. CASE led # e.led /\ led \div 4 = e.led \div 4
      <3>1. led % 4 # c
        BY <1>5, <2>7 DEF Leds
      <3>2. ws[led] = IF value[t].true THEN wanted[p][led] ELSE "any"
        BY <1>5, <2>7 DEF Rest
      <3>3. modes'[p][led \div 4][led % 4] = value[t].byte[led % 4]
        BY <1>5, <2>4, <2>5, <2>7, <3>1
      <3> QED BY <1>5, <1>7, <1>10, <2>2, <2>7, <3>2, <3>3
    <2>8. CASE led \div 4 # e.led \div 4
      <3>1. ws[led] = wanted[p][led]
        BY <2>8
      <3> QED BY <1>5, <1>10, <2>2, <2>4, <2>8, <3>1
    <2> QED BY <2>6, <2>7, <2>8
  <1>13. ModesAsSet'
    <2> HIDE DEF p
    <2> QED BY <1>10, <1>12 DEF FacesModesInv, ModesAsSet
  <1> QED BY <1>8, <1>11, <1>13

\* A light driver is reset: all its leds are off.
LEMMA ResetModes ==
  ASSUME Disciplined, ModesOwned, FacesModesInv, NEW t \in Tasks, Reset(t)
  PROVE  OwnKnown' /\ ModesKnown' /\ ModesAsSet'
  <1> DEFINE p == Step(t).port
             off == [r \in 0 .. PACKS - 1 |-> All("OFF")]
  <1>1. At(t, "end") /\ Advance(t) /\ value' = value /\ Effect(t).do = "reset"
    BY DEF Reset
  <1>2. /\ modes \in [Ports -> [0 .. PACKS - 1 -> [Channels -> Modes]]]
        /\ wanted \in [Ports -> [Leds -> Modes \cup {"any"}]]
        /\ DOMAIN value' = Tasks
    BY <1>1 DEF FacesModesInv, FacesInv, TypeOK, InitInPlace
  <1>3. /\ Moved(t) /\ Here(t) \in Points /\ Reach(t) = Step(t).port
        /\ Effected(Here(t), Step(t).port, Effect(t), Here(t)')
        /\ \A u \in Tasks : u # t => Here(u)' = Here(u)
    BY <1>1, <1>2, Ending DEF FacesModesInv
  <1>4. p \in Here(t).own /\ Here(t)'.read = Nothing
    BY <1>1, <1>3 DEF Effected
  <1>5. p \in Ports /\ p \in Owns[t]
    <2>1. p \in Ports
      BY <1>3, <1>4, Fields
    <2> QED BY <1>4, <2>1 DEF FacesModesInv, OwnKnown
  <1>6. OwnKnown'
    BY <1>3, TypesOf, OwnKept DEF FacesModesInv
  <1>7. /\ modes' = [modes EXCEPT ![p] = off]
        /\ wanted' = [wanted EXCEPT ![p] = [led \in Leds |-> "OFF"]]
    BY <1>3 DEF Reset
  <1>8. /\ modes'[p] = off /\ wanted'[p] = [led \in Leds |-> "OFF"]
        /\ \A q \in Ports : q # p => modes'[q] = modes[q] /\ wanted'[q] = wanted[q]
    <2> HIDE DEF p, off
    <2> QED BY <1>2, <1>5, <1>7
  <1>9. ModesKnown'
    BY <1>1, <1>3, <1>4, <1>5, <1>8, OthersModes DEF FacesModesInv
  <1>10. ASSUME NEW led \in Leds PROVE wanted'[p][led] = modes'[p][led \div 4][led % 4]
    <2>1. led \div 4 \in 0 .. PACKS - 1 /\ led % 4 \in Channels
      BY LEDAssumption DEF Leds, Channels
    <2> QED BY <1>8, <2>1 DEF All
  <1>11. ModesAsSet'
    <2> HIDE DEF p
    <2> QED BY <1>8, <1>10 DEF FacesModesInv, ModesAsSet
  <1> QED BY <1>6, <1>9, <1>11

\* A write that is not heard spoils what is wanted, and changes nothing.
LEMMA UnheardModes ==
  ASSUME Disciplined, FacesModesInv, NEW t \in Tasks, Unheard(t)
  PROVE  OwnKnown' /\ ModesKnown' /\ ModesAsSet'
  <1> DEFINE p == Step(t).port
  <1>1. /\ At(t, "end") /\ Advance(t) /\ value' = [value EXCEPT ![t] = Nothing] /\ modes' = modes
        /\ Effect(t).do \in {"enable", "disable", "write mode", "reset"}
    BY DEF Unheard
  <1>2. wanted \in [Ports -> [Leds -> Modes \cup {"any"}]] /\ DOMAIN value = Tasks
    BY DEF FacesModesInv, FacesInv, TypeOK, InitInPlace
  <1>3. DOMAIN value' = Tasks /\ \A u \in Tasks : u # t => value'[u] = value[u]
    BY <1>1, <1>2
  <1>4. /\ Moved(t) /\ Effected(Here(t), Step(t).port, Effect(t), Here(t)')
        /\ \A u \in Tasks : u # t => Here(u)' = Here(u)
    BY <1>1, <1>3, Ending DEF FacesModesInv
  <1>5. Here(t)'.read = Nothing
    BY <1>1, <1>4 DEF Effected
  <1>6. OwnKnown'
    BY <1>4, TypesOf, OwnKept DEF FacesModesInv
  <1>7. \A q \in Ports, led \in Leds : wanted'[q][led] \in {wanted[q][led], "any"}
    <2>1. \/ wanted' = wanted
          \/ wanted' = [wanted EXCEPT ![p] = [wanted[p] EXCEPT ![Effect(t).led] = "any"]]
          \/ wanted' = [wanted EXCEPT ![p] = [led \in Leds |-> "any"]]
      BY DEF Unheard
    <2> HIDE DEF p
    <2>2. \A q \in Ports : wanted[q] \in [Leds -> Modes \cup {"any"}]
      BY <1>2
    <2> QED BY <1>2, <2>1, <2>2
  <1>8. ModesAsSet'
    BY <1>1, <1>7 DEF FacesModesInv, ModesAsSet
  <1>9. ModesKnown'
    <2>1. ASSUME NEW u \in Tasks, NEW q \in Ports, NEW r \in Registers, Here(u)'.read = ReadModes(q, r)
          PROVE  Here(u).read = ReadModes(q, r) /\ value'[u] = value[u] /\ modes' = modes
      <3>1. u # t
        BY <1>5, <2>1, Distinct
      <3> QED BY <1>1, <1>3, <1>4, <2>1, <3>1
    <2> QED BY <2>1 DEF FacesModesInv, ModesKnown
  <1> QED BY <1>6, <1>8, <1>9

\* Every step keeps the invariant of the modes.
LEMMA NextModes ==
  ASSUME Disciplined, ModesOwned, FacesModesInv, [Next]_vars PROVE FacesModesInv'
  <1>1. FacesInv'
    BY NextInv DEF FacesModesInv
  <1>2. OwnKnown' /\ ModesKnown' /\ ModesAsSet'
    <2>1. CASE UNCHANGED vars
      <3>1. UNCHANGED <<at, init, modes, wanted, value>>
        BY <2>1 DEF vars, device
      <3>2. \A t \in Tasks : Here(t)' = Here(t)
        BY <3>1 DEF Here
      <3> QED BY <3>1, <3>2 DEF FacesModesInv, OwnKnown, ModesKnown, ModesAsSet
    <2>2. ASSUME NEW t \in Tasks,
                 \/ Instance(t) \/ Initialised(t) \/ Take(t) \/ Give(t)
                 \/ Select(t) \/ Drive(t) \/ ReadRegister(t) \/ WriteOutputs(t)
                 \/ WriteMode(t) \/ Reset(t) \/ WriteOther(t) \/ Misread(t) \/ Unheard(t)
          PROVE  OwnKnown' /\ ModesKnown' /\ ModesAsSet'
      BY <2>2, QuietModes, ReadModesModes, WriteModeModes, ResetModes, UnheardModes
    <2> QED BY <2>1, <2>2 DEF Next, AllFinished
  <1> QED BY <1>1, <1>2 DEF FacesModesInv

\* The initial states.
LEMMA InitModes ==
  ASSUME Disciplined, FacesInit PROVE FacesModesInv
  <1>1. FacesInv
    BY InitInv
  <1>2. \A t \in Tasks : Here(t) = Idle(Owns[t])
    <2>1. PICK setting \in Settings :
            at = [t \in Tasks |-> IF t \in setting.tasks THEN 1 ELSE Len(Program[t]) + 1]
      BY DEF FacesInit
    <2>2. init = [t \in Tasks |-> <<>>]
      BY DEF FacesInit
    <2> QED BY <2>1, <2>2, OutlineIs DEF Here, Code
  <1>3. OwnKnown /\ ModesKnown
    BY <1>2, Distinct DEF OwnKnown, ModesKnown, Idle
  <1>4. ModesAsSet
    <2>1. /\ modes = [p \in Ports |-> [r \in 0 .. PACKS - 1 |-> All("OFF")]]
          /\ wanted = [p \in Ports |-> [led \in Leds |-> "OFF"]]
      BY DEF FacesInit
    <2>2. \A led \in Leds : led \div 4 \in 0 .. PACKS - 1 /\ led % 4 \in Channels
      BY LEDAssumption DEF Leds, Channels
    <2> QED BY <2>1, <2>2 DEF ModesAsSet, All
  <1> QED BY <1>1, <1>3, <1>4 DEF FacesModesInv

-----------------------------------------------------------------------------
(* The theorems.                                                            *)

\* Whatever a task knows, it may rely on: an invariant of every program that
\* keeps the discipline.
THEOREM Invariance ==
  ASSUME Disciplined PROVE Spec => []FacesInv
  <1>1. FacesInit => FacesInv
    BY InitInv
  <1>2. FacesInv /\ [Next]_vars => FacesInv'
    BY NextInv
  <1> QED BY <1>1, <1>2, PTL DEF Spec

\* Every state of Faces has the type that is stated for it.
THEOREM TypeCorrect ==
  ASSUME Disciplined PROVE Spec => []TypeOK
  <1>1. FacesInv => TypeOK
    BY DEF FacesInv
  <1> QED BY <1>1, Invariance, PTL

\* What a task that is at the end of a transaction, or at a pulse, may rely on.
LEMMA OnBus ==
  ASSUME Disciplined, FacesInv, NEW t \in Tasks
  PROVE  /\ Transacting(t) =>
              Here(t).held = "both" /\ (Step(t).port # NULLPORT => Here(t).face = {Step(t).port})
         /\ At(t, "pulse") => Here(t).held # "none"
  <1>1. Here(t) \in Points
    BY TypesOf, HerePoint
  <1>2. CASE Transacting(t)
    <2>1. PICK g : Leads(Here(t), Step(t), g)
      BY <1>2, TypesOf, NextLeads DEF Transacting, At
    <2>2. Step(t).op = "end" /\ Step(t).op # "pulse"
      BY <1>2 DEF Transacting, At
    <2> QED BY <1>1, <2>1, <2>2, EndBy DEF At
  <1>3. CASE At(t, "pulse")
    <2>1. PICK g : Leads(Here(t), Step(t), g)
      BY <1>3, TypesOf, NextLeads DEF At
    <2>2. Step(t).op = "pulse" /\ Step(t).op # "end"
      BY <1>3 DEF At
    <2> QED BY <2>1, <2>2, LeadsBy DEF Transacting, At
  <1> QED BY <1>2, <1>3

\* From its start to its end, a transaction meant for a face has the
\* multiplexer on it (port_controller.cpp, SelectPort() and instance()).
THEOREM OnTheRightFace ==
  ASSUME Disciplined PROVE Spec => []RightFace
  <1>1. ASSUME FacesInv PROVE RightFace
    <2>1. ASSUME NEW t \in Tasks, Transacting(t), Step(t).port # NULLPORT PROVE selected = Step(t).port
      <3>1. Step(t).port \in Here(t).face
        BY <1>1, <2>1, OnBus
      <3> QED BY <1>1, <3>1 DEF FacesInv, FaceKnown
    <2> QED BY <2>1 DEF RightFace
  <1> QED BY <1>1, Invariance, PTL

\* Nobody is in a transaction, or drives the clock line, while another task
\* is (port_controller.cpp:177, IsPortConnected()).
THEOREM AloneOnTheBus ==
  ASSUME Disciplined PROVE Spec => []BusAlone
  <1>1. ASSUME FacesInv PROVE BusAlone
    <2>1. ASSUME NEW t \in Tasks, NEW u \in Tasks, t # u, Transacting(t) \/ At(t, "pulse")
          PROVE  ~Transacting(u) /\ ~At(u, "pulse")
      <3>1. Here(t).held # "none"
        BY <1>1, <2>1, OnBus
      <3>2. Here(u).held = "none"
        BY <1>1, <2>1, <3>1, TypesOf, Alone
      <3> QED BY <1>1, <3>2, OnBus
    <2> QED BY <2>1 DEF BusAlone
  <1> QED BY <1>1, Invariance, PTL

\* The faces enabled are those that the calls of EnablePort() and
\* DisablePort() have left enabled, although each reads the register in one
\* locked section of the bus and writes it back in another.
THEOREM OutputsKept ==
  ASSUME Disciplined PROVE Spec => []OutputsAsAsked
  <1>1. FacesInv => OutputsAsAsked
    BY DEF FacesInv
  <1> QED BY <1>1, Invariance, PTL

\* No led loses its mode to a call for another led, though a register of four
\* modes is read in one locked section of the controller and written back in
\* another (led_controller.cpp, SetMode()): each face is one task's business.
THEOREM ModesKept ==
  ASSUME Disciplined, ModesOwned PROVE Spec => []ModesAsSet
  <1>1. FacesInit => FacesModesInv
    BY InitModes
  <1>2. FacesModesInv /\ [Next]_vars => FacesModesInv'
    BY NextModes
  <1>3. FacesModesInv => ModesAsSet
    BY DEF FacesModesInv
  <1> QED BY <1>1, <1>2, <1>3, PTL DEF Spec

\* Some task that is not finished is not kept waiting: it is at no lock, or at a free one.
SomeoneGoesOn ==
  (\E t \in Tasks : ~Finished(t)) =>
    \E t \in Tasks : ~Finished(t) /\ (Step(t).op = "lock" => holder[Step(t).res] = Free)

\* The tasks never all wait for each other's locks: each takes the controller
\* before the bus, and has given both up when it is finished.
THEOREM NoDeadlock ==
  ASSUME Disciplined PROVE Spec => []SomeoneGoesOn
  <1>1. ASSUME FacesInv, NEW s \in Tasks, ~Finished(s)
        PROVE  \E t \in Tasks : ~Finished(t) /\ (Step(t).op = "lock" => holder[Step(t).res] = Free)
    <2>1. ASSUME NEW t \in Tasks, ~Finished(t)
          PROVE  /\ Here(t) \in Points
                 /\ Step(t).op = "lock" =>
                      \/ Step(t).res = "PORT" /\ Here(t).held = "none"
                      \/ Step(t).res = "TW" /\ Here(t).held = "PORT"
      <3>1. Here(t) \in Points
        BY <1>1, TypesOf, HerePoint
      <3>2. PICK g : Leads(Here(t), Step(t), g)
        BY <1>1, <2>1, TypesOf, NextLeads
      <3> QED BY <3>1, <3>2, LockBy
    <2>2. ASSUME NEW t \in Tasks, Here(t).held # "none" PROVE ~Finished(t)
      <3>1. Finished(t) => Here(t) = Idle(Owns[t])
        BY <1>1, TypesOf, HerePoint
      <3> QED BY <2>2, <3>1 DEF Idle
    <2>3. /\ \A t \in Tasks : (holder["PORT"] = t <=> Here(t).held # "none")
          /\ \A t \in Tasks : (holder["TW"] = t <=> Here(t).held = "both")
      BY <1>1 DEF FacesInv, LocksKnown
    <2>4. holder["PORT"] \in Tasks \cup {Free} /\ holder["TW"] \in Tasks \cup {Free}
      BY <1>1 DEF FacesInv, TypeOK
    <2>5. CASE holder["TW"] # Free
      <3>1. holder["TW"] \in Tasks /\ Here(holder["TW"]).held = "both"
        BY <2>3, <2>4, <2>5
      <3> QED BY <2>1, <2>2, <3>1
    <2>6. CASE holder["TW"] = Free /\ holder["PORT"] # Free
      <3>1. holder["PORT"] \in Tasks /\ Here(holder["PORT"]).held # "none"
        BY <2>3, <2>4, <2>6
      <3> QED BY <2>1, <2>2, <2>6, <3>1
    <2>7. CASE holder["TW"] = Free /\ holder["PORT"] = Free
      BY <1>1, <2>1, <2>7
    <2> QED BY <2>5, <2>6, <2>7
  <1>2. FacesInv => SomeoneGoesOn
    BY <1>1 DEF SomeoneGoesOn
  <1> QED BY <1>2, Invariance, PTL

\* The discipline is that of the code: each call of main.cpp keeps it, with
\* the modes of its own faces to set, and so does one call after another.
THEOREM CallsKeepTheDiscipline ==
  ASSUME NEW own \in SUBSET Ports
  PROVE  /\ \A ports \in Seq(Ports) : Keeps(own, InitPortController(ports))
         /\ \A list \in Seq(Targets) :
              Keeps(own, InitNFC(list)) /\ (FacesOf(list) \subseteq own => Keeps(own, InitLEDs(list)))
         /\ \A p \in Ports : Keeps(own, NFCReact(p)) /\ Keeps(own, Retire(p))
         /\ \A p \in own, led \in Leds, mode \in Modes : Keeps(own, SetMode(p, led, mode))
         /\ \A s, r : Keeps(own, s) /\ Keeps(own, r) => Keeps(own, s \o r)
  BY ProbingKeeps, InitNFCKeeps, InitLEDsKeeps, CommandKeeps, SetModeKeeps, KeepsThen

\* The hypotheses of the theorems hold of the programs that TLC runs (MCFaces).
THEOREM TheInstance ==
  ASSUME Ports = TwoPorts, Tasks = ThreeTasks, Program = ThePrograms,
         N # E, leds # nfc, leds # scanner, nfc # scanner,
         Owns = [t \in ThreeTasks |-> CASE t = leds    -> {E}
                                        [] t = nfc     -> {N}
                                        [] t = scanner -> {}]
  PROVE  Disciplined /\ ModesOwned
  <1>1. Owns[leds] = {E} /\ Owns[nfc] = {N} /\ Owns[scanner] = {}
    BY DEF ThreeTasks
  <1>2. Owns \in [Tasks -> SUBSET Ports]
    <2>1. \A t \in Tasks : Owns[t] \in SUBSET Ports
      BY <1>1 DEF ThreeTasks, TwoPorts
    <2> QED BY <2>1
  <1>3. ModesOwned
    BY <1>1 DEF ModesOwned, ThreeTasks
  <1>4. N \in Ports /\ E \in Ports /\ NULLPORT \notin Ports /\ 0 \in Leds /\ "BLINK" \in Modes
    BY PortAssumption, LEDAssumption DEF TwoPorts, Leds, Modes
  <1>5. <<E>> \in Seq(Targets) /\ <<N, NULLPORT>> \in Seq(Targets) /\ <<N, E>> \in Seq(Ports)
    <2>1. ASSUME NEW A, NEW a \in A, NEW b \in A PROVE <<a>> \in Seq(A) /\ <<a, b>> \in Seq(A)
      BY <2>1
    <2> QED BY <1>4, <2>1 DEF Targets
  <1>6. Keeps(Owns[leds], Code[leds])
    <2>1. FacesOf(<<E>>) \subseteq {E}
      BY <1>4 DEF FacesOf
    <2>2. Code[leds] = InitLEDs(<<E>>)
      BY DEF Code, ThePrograms, ThreeTasks
    <2>3. {E} \in SUBSET Ports
      BY <1>4
    <2>4. Keeps({E}, InitLEDs(<<E>>))
      BY <1>5, <2>1, <2>3, InitLEDsKeeps
    <2> QED BY <1>1, <2>2, <2>4
  <1>7. Keeps(Owns[nfc], Code[nfc])
    <2>1. /\ Keeps({N}, InitNFC(<<N, NULLPORT>>)) /\ Keeps({N}, NFCReact(N))
          /\ Keeps({N}, SetMode(N, 0, "BLINK")) /\ Keeps({N}, Retire(N))
      BY <1>4, <1>5, CallsKeepTheDiscipline
    <2>2. Code[nfc] = InitNFC(<<N, NULLPORT>>) \o NFCReact(N) \o SetMode(N, 0, "BLINK") \o Retire(N)
      BY DEF Code, ThePrograms, ThreeTasks
    <2>3. Keeps({N}, InitNFC(<<N, NULLPORT>>) \o NFCReact(N))
      BY <2>1, KeepsThen
    <2>4. Keeps({N}, InitNFC(<<N, NULLPORT>>) \o NFCReact(N) \o SetMode(N, 0, "BLINK"))
      BY <2>1, <2>3, KeepsThen
    <2>5. Keeps({N}, InitNFC(<<N, NULLPORT>>) \o NFCReact(N) \o SetMode(N, 0, "BLINK") \o Retire(N))
      BY <2>1, <2>4, KeepsThen
    <2> QED BY <1>1, <2>2, <2>5
  <1>8. Keeps(Owns[scanner], Code[scanner])
    <2>1. /\ Keeps({}, InitPortController(<<N, E>>)) /\ Keeps({}, Retire(E))
          /\ Keeps({}, InitNFC(<<E>>))
      BY <1>4, <1>5, CallsKeepTheDiscipline
    <2>2. Code[scanner] = InitPortController(<<N, E>>) \o Retire(E) \o InitNFC(<<E>>)
      BY DEF Code, ThePrograms, ThreeTasks
    <2>3. Keeps({}, InitPortController(<<N, E>>) \o Retire(E))
      BY <2>1, KeepsThen
    <2>4. Keeps({}, InitPortController(<<N, E>>) \o Retire(E) \o InitNFC(<<E>>))
      BY <2>1, <2>3, KeepsThen
    <2> QED BY <1>1, <2>2, <2>4
  <1> QED BY <1>2, <1>3, <1>6, <1>7, <1>8 DEF Disciplined, ThreeTasks
====
