------------------------ MODULE PanelRequests_proofs ------------------------
(***************************************************************************)
(* What requests of the panel leave behind that run while others do: the   *)
(* versions a recording becomes, whatever the user does, however often,    *)
(* and however many requests stop it (TeachSession), and the links of      *)
(* robots to credentials (RobotSecrets), in the second half.  A workflow   *)
(* is made of the events by a recursive function; what it computes is      *)
(* proved by induction over the number of events, from the                 *)
(* well-foundedness of < on the naturals.                                  *)
(***************************************************************************)
EXTENDS TeachSession, RobotSecrets, WellFoundedInduction, FiniteSetTheorems, TLAPS

(***************************************************************************)
(* Induction over the naturals, for sets.                                  *)
(***************************************************************************)
Below == {s \in Nat \X Nat : s[1] < s[2]}

LEMMA Least ==
  ASSUME NEW T, T \subseteq Nat, T # {}
  PROVE  \E x \in T : \A y \in T : x <= y
<1>1. IsWellFoundedOn(Below, Nat)
  BY NatLessThanWellFounded DEF OpToRel, Below
<1>2. PICK x \in T : \A y \in T : ~ (<<y, x>> \in Below)
  BY <1>1, WFMin
<1>3. \A y \in T : ~(y < x)
  BY <1>2 DEF Below
<1>. QED  BY <1>3

LEMMA Induction ==
  ASSUME NEW T, 0 \in T, \A n \in Nat : n \in T => n + 1 \in T
  PROVE  Nat \subseteq T
<1>. SUFFICES ASSUME Nat \ T # {} PROVE FALSE
  OBVIOUS
<1>1. PICK x \in Nat \ T : \A y \in Nat \ T : x <= y
  BY Least
<1>2. x - 1 \in Nat
  OBVIOUS
<1>3. x - 1 \in T
  BY <1>1, <1>2
<1>. QED  BY <1>1, <1>2, <1>3

(***************************************************************************)
(* The recursive functions exist.                                          *)
(***************************************************************************)
\* The workflow after each of the events.
After(s) == CHOOSE f : f = [n \in 0..Len(s) |->
                              IF n = 0 THEN Nothing ELSE AddEvent(f[n - 1], s[n])]

LEMMA AfterIs ==
  ASSUME NEW S, NEW s \in Seq(S)
  PROVE  /\ Workflow(s) = After(s)[Len(s)]
         /\ After(s)[0] = Nothing
         /\ \A n \in 1..Len(s) : After(s)[n] = AddEvent(After(s)[n - 1], s[n])
<1>. DEFINE IsUpTo(f, n) == f = [i \in 0..n |-> IF i = 0 THEN Nothing ELSE AddEvent(f[i - 1], s[i])]
            T == {n \in Nat : \E f : IsUpTo(f, n)}
<1>1. 0 \in T
  <2>1. IsUpTo([i \in 0..0 |-> Nothing], 0)
    OBVIOUS
  <2>. QED  BY <2>1
<1>2. ASSUME NEW n \in T PROVE n + 1 \in T
  <2>1. PICK f : IsUpTo(f, n)
    OBVIOUS
  <2>. DEFINE g == [i \in 0..n + 1 |-> IF i = n + 1 THEN AddEvent(f[n], s[n + 1]) ELSE f[i]]
              h == [i \in 0..n + 1 |-> IF i = 0 THEN Nothing ELSE AddEvent(g[i - 1], s[i])]
  <2>2. ASSUME NEW i \in 0..n + 1 PROVE g[i] = h[i]
    <3>1. CASE i = n + 1
      BY <3>1
    <3>2. CASE i # n + 1
      <4>1. i \in 0..n /\ g[i] = f[i]
        BY <3>2
      <4>2. f[i] = IF i = 0 THEN Nothing ELSE AddEvent(f[i - 1], s[i])
        BY <2>1, <4>1
      <4>3. i # 0 => g[i - 1] = f[i - 1]
        BY <3>2
      <4>. QED  BY <4>1, <4>2, <4>3
    <3>. QED  BY <3>1, <3>2
  <2>3. g = h
    BY <2>2
  <2>4. n + 1 \in Nat /\ IsUpTo(g, n + 1)
    BY <2>3
  <2>. QED  BY <2>4
<1>3. Len(s) \in T
  <2>1. T \subseteq Nat /\ \A n \in T : n + 1 \in T
    BY <1>2
  <2>. HIDE DEF T
  <2>2. Nat \subseteq T
    BY <1>1, <2>1, Induction
  <2>. QED  BY <2>2
<1>4. IsUpTo(After(s), Len(s))
  BY <1>3 DEF After
<1>5. Len(s) \in Nat
  OBVIOUS
<1>6. /\ After(s)[0] = Nothing
      /\ \A n \in 1..Len(s) : After(s)[n] = AddEvent(After(s)[n - 1], s[n])
  BY <1>4, <1>5
<1>7. Workflow(s) = After(s)[Len(s)]
  BY DEF Workflow, After
<1>. QED  BY <1>6, <1>7

\* The events without repetitions, after each of them.
UpTo(s) == CHOOSE f : f = [n \in 0..Len(s) |->
                             IF n = 0 THEN <<>>
                             ELSE IF n > 1 /\ s[n].raw = s[n - 1].raw THEN f[n - 1]
                             ELSE Append(f[n - 1], s[n].raw)]

Once(s) == UpTo(s)[Len(s)]

LEMMA UpToIs ==
  ASSUME NEW S, NEW s \in Seq(S)
  PROVE  /\ Once(s) = UpTo(s)[Len(s)]
         /\ UpTo(s)[0] = <<>>
         /\ \A n \in 1..Len(s) :
              UpTo(s)[n] = IF n > 1 /\ s[n].raw = s[n - 1].raw THEN UpTo(s)[n - 1]
                           ELSE Append(UpTo(s)[n - 1], s[n].raw)
<1>. DEFINE Next1(x, n) == IF n > 1 /\ s[n].raw = s[n - 1].raw THEN x ELSE Append(x, s[n].raw)
            IsUpTo(f, n) == f = [i \in 0..n |-> IF i = 0 THEN <<>> ELSE Next1(f[i - 1], i)]
            T == {n \in Nat : \E f : IsUpTo(f, n)}
<1>0. UpTo(s) = CHOOSE f : IsUpTo(f, Len(s))
  BY DEF UpTo
<1>a. Once(s) = UpTo(s)[Len(s)]
  BY DEF Once
<1>. HIDE DEF Next1
<1>1. 0 \in T
  <2>1. IsUpTo([i \in 0..0 |-> <<>>], 0)
    OBVIOUS
  <2>. QED  BY <2>1
<1>2. ASSUME NEW n \in T PROVE n + 1 \in T
  <2>1. PICK f : IsUpTo(f, n)
    OBVIOUS
  <2>. DEFINE g == [i \in 0..n + 1 |-> IF i = n + 1 THEN Next1(f[n], n + 1) ELSE f[i]]
              h == [i \in 0..n + 1 |-> IF i = 0 THEN <<>> ELSE Next1(g[i - 1], i)]
  <2>2. ASSUME NEW i \in 0..n + 1 PROVE g[i] = h[i]
    <3>1. CASE i = n + 1
      BY <3>1
    <3>2. CASE i # n + 1
      <4>1. i \in 0..n /\ g[i] = f[i]
        BY <3>2
      <4>2. f[i] = IF i = 0 THEN <<>> ELSE Next1(f[i - 1], i)
        BY <2>1, <4>1
      <4>3. i # 0 => g[i - 1] = f[i - 1]
        BY <3>2
      <4>. QED  BY <4>1, <4>2, <4>3
    <3>. QED  BY <3>1, <3>2
  <2>3. g = h
    BY <2>2
  <2>4. n + 1 \in Nat /\ IsUpTo(g, n + 1)
    BY <2>3
  <2>. QED  BY <2>4
<1>3. Len(s) \in T
  <2>1. T \subseteq Nat /\ \A n \in T : n + 1 \in T
    BY <1>2
  <2>. HIDE DEF T
  <2>2. Nat \subseteq T
    BY <1>1, <2>1, Induction
  <2>. QED  BY <2>2
<1>4. IsUpTo(UpTo(s), Len(s))
  BY <1>0, <1>3
<1>5. Len(s) \in Nat
  OBVIOUS
<1>6. /\ UpTo(s)[0] = <<>>
      /\ \A n \in 1..Len(s) : UpTo(s)[n] = Next1(UpTo(s)[n - 1], n)
  BY <1>4, <1>5
<1>. QED  BY <1>a, <1>6 DEF Next1

(***************************************************************************)
(* Names of inputs.                                                        *)
(***************************************************************************)
\* The literals are named, as the provers do not know that they are strings.
Text == STRING \cup {"campo", "nothing"}
Name == Seq(Text \cup Nat)

\* One of the names that the loop tries is new, as it tries more than are used
\* and each of them is longer than the one before: the loop ends.
LEMMA FreshIsFresh ==
  ASSUME NEW name \in Name, name # <<>>, NEW n \in Nat,
         NEW used \in SUBSET Name, IsFiniteSet(used)
  PROVE  LET f == FreshName(name, n, used)
         IN  f.name \in Name /\ f.name # <<>> /\ f.name \notin used /\ f.counter \in Nat
<1>. DEFINE try(m) == name \o [j \in 1..m |-> n + j]
            K == Cardinality(used)
            T == {m \in 0..K : try(m) \notin used}
            Ok(m) == try(m) \notin used /\ \A l \in 0..m - 1 : try(l) \in used
            m0 == CHOOSE m \in 0..K : Ok(m)
<1>1. K \in Nat
  BY FS_CardinalityType
<1>2. ASSUME NEW m \in 0..K PROVE try(m) \in Name /\ Len(try(m)) = Len(name) + m
  <2>1. [j \in 1..m |-> n + j] \in Seq(Text \cup Nat) /\ Len([j \in 1..m |-> n + j]) = m
    BY <1>1
  <2>. QED  BY <2>1 DEF Name
<1>3. T # {}
  <2>. SUFFICES ASSUME \A m \in 0..K : try(m) \in used PROVE FALSE
    OBVIOUS
  <2>. DEFINE f == [m \in 0..K |-> try(m)]
  <2>1. f \in Injection(0..K, used)
    <3>1. ASSUME NEW a \in 0..K, NEW b \in 0..K, f[a] = f[b] PROVE a = b
      <4>1. Len(try(a)) = Len(try(b))
        BY <3>1
      <4>2. Len(name) \in Nat
        BY DEF Name
      <4>. HIDE DEF try
      <4>. QED  BY <1>1, <1>2, <4>1, <4>2
    <3>. HIDE DEF try
    <3>. QED  BY <3>1 DEF Injection, IsInjective
  <2>2. IsFiniteSet(0..K) /\ Cardinality(0..K) = K + 1
    BY <1>1, FS_Interval
  <2>. HIDE DEF f
  <2>3. Cardinality(0..K) <= K
    BY <2>1, FS_Injection
  <2>. QED  BY <1>1, <2>2, <2>3
<1>4. PICK x \in T : \A y \in T : x <= y
  <2>1. T \subseteq Nat
    BY <1>1
  <2>. HIDE DEF T
  <2>. QED  BY <1>3, <2>1, Least
<1>5. x \in 0..K /\ Ok(x)
  <2>1. x \in 0..K /\ try(x) \notin used
    OBVIOUS
  <2>2. ASSUME NEW l \in 0..x - 1 PROVE try(l) \in used
    <3>. HIDE DEF try
    <3>1. l \in 0..K /\ ~(x <= l)
      BY <1>1, <2>1
    <3>2. l \notin T
      BY <1>4, <3>1
    <3>. QED  BY <3>1, <3>2
  <2>. QED  BY <2>1, <2>2
<1>6. m0 \in 0..K /\ Ok(m0)
  <2>. HIDE DEF Ok
  <2>. QED  BY <1>5
<1>7. FreshName(name, n, used) = [name |-> try(m0), counter |-> n + m0]
  BY DEF FreshName
<1>8. try(m0) # <<>>
  <2>. HIDE DEF try, m0
  <2>1. Len(name) # 0 /\ Len(name) \in Nat
    BY DEF Name
  <2>2. Len(try(m0)) # 0
    BY <1>1, <1>2, <1>6, <2>1
  <2>. QED  BY <2>2
<1>9. try(m0) \in Name /\ try(m0) \notin used
  <2>. HIDE DEF try, m0
  <2>. QED  BY <1>2, <1>6 DEF Ok
<1>10. n + m0 \in Nat
  <2>. HIDE DEF try, m0
  <2>. QED  BY <1>1, <1>6
<1>. HIDE DEF try, m0
<1>. QED  BY <1>7, <1>8, <1>9, <1>10

(***************************************************************************)
(* Workflows.                                                              *)
(***************************************************************************)
Step == [raw : Text, var : Name]
Acc  == [steps : Seq(Step), inputs : SUBSET Name, counter : Nat, previous : Text]

InputSteps(w) == {j \in 1..Len(w.steps) : w.steps[j].var # <<>>}

\* OwnVariable of one workflow.
Own(w) == /\ \A j, l \in InputSteps(w) : w.steps[j].var = w.steps[l].var => j = l
          /\ w.inputs = {w.steps[j].var : j \in InputSteps(w)}

LEMMA NothingIs == Nothing \in Acc /\ Own(Nothing) /\ IsFiniteSet(Nothing.inputs) /\ Raws(Nothing) = <<>>
<1>1. Nothing \in Acc
  BY DEF Nothing, Acc, Text
<1>3. Raws(Nothing) = <<>>
  <2>1. Nothing.steps = <<>> /\ 1..Len(Nothing.steps) = {}
    BY DEF Nothing
  <2>2. Raws(Nothing) \in Seq({}) /\ Len(Raws(Nothing)) = 0
    BY <2>1 DEF Raws
  <2>. QED  BY <2>2
<1>2. Own(Nothing) /\ IsFiniteSet(Nothing.inputs)
  BY FS_EmptySet DEF Nothing, Own, InputSteps
<1>. QED  BY <1>1, <1>2, <1>3

LEMMA AddEventIs ==
  ASSUME NEW acc \in Acc, Own(acc), IsFiniteSet(acc.inputs), NEW e \in Events
  PROVE  LET new == AddEvent(acc, e)
         IN  /\ new \in Acc /\ Own(new) /\ IsFiniteSet(new.inputs) /\ new.previous = e.raw
             /\ Raws(new) = IF acc.previous = e.raw THEN Raws(acc) ELSE Append(Raws(acc), e.raw)
<1>. DEFINE new == AddEvent(acc, e)
<1>1. e.raw \in Text /\ e.label \in Text
  BY TeachAssumption DEF Event, Text
<1>a. /\ acc.steps \in Seq(Step) /\ acc.inputs \in SUBSET Name /\ acc.counter \in Nat
      /\ acc.previous \in Text /\ Len(acc.steps) \in Nat
      /\ \A j \in 1..Len(acc.steps) : acc.steps[j] \in Step
  BY DEF Acc
<1>2. CASE Repeats(acc, e)
  BY <1>2 DEF AddEvent, Repeats
<1>3. ASSUME NEW v \in Name, new.steps = Append(acc.steps, [raw |-> e.raw, var |-> v])
      PROVE  /\ new.steps \in Seq(Step)
             /\ Raws(new) = Append(Raws(acc), e.raw)
             /\ InputSteps(new) = InputSteps(acc) \cup (IF v = <<>> THEN {} ELSE {Len(acc.steps) + 1})
             /\ \A j \in InputSteps(acc) : new.steps[j] = acc.steps[j]
             /\ new.steps[Len(acc.steps) + 1].var = v
  <2>. HIDE DEF new
  <2>1. [raw |-> e.raw, var |-> v] \in Step
    BY <1>1 DEF Step
  <2>2. /\ new.steps \in Seq(Step) /\ Len(new.steps) = Len(acc.steps) + 1
        /\ \A j \in 1..Len(acc.steps) : new.steps[j] = acc.steps[j]
        /\ new.steps[Len(acc.steps) + 1] = [raw |-> e.raw, var |-> v]
    BY <1>a, <1>3, <2>1
  <2>3. Raws(new) = Append(Raws(acc), e.raw)
    <3>1. Raws(acc) \in Seq(Text) /\ Len(Raws(acc)) = Len(acc.steps)
      BY <1>a DEF Raws, Step
    <3>2. Raws(new) = [j \in 1..Len(acc.steps) + 1 |-> new.steps[j].raw]
      BY <2>2 DEF Raws
    <3>3. Append(Raws(acc), e.raw)
            = [j \in 1..Len(acc.steps) + 1 |-> IF j = Len(acc.steps) + 1 THEN e.raw ELSE acc.steps[j].raw]
      BY <1>1, <1>a, <3>1 DEF Raws
    <3>4. \A j \in 1..Len(acc.steps) + 1 :
            new.steps[j].raw = IF j = Len(acc.steps) + 1 THEN e.raw ELSE acc.steps[j].raw
      BY <1>a, <2>2
    <3>. QED  BY <3>2, <3>3, <3>4
  <2>. QED  BY <1>a, <2>2, <2>3 DEF InputSteps
<1>4. CASE ~Repeats(acc, e) /\ e.label = NotInput
  <2>1. /\ new.steps = Append(acc.steps, [raw |-> e.raw, var |-> <<>>])
        /\ new.inputs = acc.inputs /\ new.counter = acc.counter /\ new.previous = e.raw
        /\ new = [steps |-> new.steps, inputs |-> new.inputs, counter |-> new.counter,
                  previous |-> new.previous]
    BY <1>4 DEF AddEvent, Acc
  <2>. HIDE DEF new
  <2>2. <<>> \in Name
    BY DEF Name
  <2>3. /\ new.steps \in Seq(Step) /\ Raws(new) = Append(Raws(acc), e.raw)
        /\ InputSteps(new) = InputSteps(acc)
        /\ \A j \in InputSteps(acc) : new.steps[j] = acc.steps[j]
    BY <1>3, <2>1, <2>2
  <2>4. new \in Acc
    BY <1>1, <1>a, <2>1, <2>3 DEF Acc
  <2>5. Own(new)
    <3>1. \A j, l \in InputSteps(new) : new.steps[j].var = new.steps[l].var => j = l
      BY <2>3 DEF Own
    <3>2. {new.steps[j].var : j \in InputSteps(new)} = {acc.steps[j].var : j \in InputSteps(acc)}
      BY <2>3
    <3>. QED  BY <2>1, <3>1, <3>2 DEF Own
  <2>6. acc.previous # e.raw
    BY <1>4 DEF Repeats
  <2>. QED  BY <2>1, <2>3, <2>4, <2>5, <2>6 DEF new
<1>5. CASE ~Repeats(acc, e) /\ e.label # NotInput
  <2>. DEFINE name == InputName(e.label, acc.counter + 1)
              f == FreshName(name, acc.counter + 1, acc.inputs)
  <2>1. name \in Name /\ name # <<>>
    <3>1. \A x, y \in Text \cup Nat : /\ <<x, y>> \in Seq(Text \cup Nat) /\ <<x, y>> # <<>>
                                       /\ <<x>> \in Seq(Text \cup Nat) /\ <<x>> # <<>>
      OBVIOUS
    <3>2. "campo" \in Text \cup Nat /\ acc.counter + 1 \in Text \cup Nat
          /\ e.label \in Text \cup Nat
      BY <1>1, <1>a DEF Text
    <3>. QED  BY <3>1, <3>2 DEF InputName, Name
  <2>2. f.name \in Name /\ f.name # <<>> /\ f.name \notin acc.inputs /\ f.counter \in Nat
    <3>. HIDE DEF name
    <3>. QED  BY <1>a, <2>1, FreshIsFresh
  <2>3. new = [steps    |-> Append(acc.steps, [raw |-> e.raw, var |-> f.name]),
               inputs   |-> acc.inputs \cup {f.name},
               counter  |-> f.counter,
               previous |-> e.raw]
    BY <1>5 DEF AddEvent
  <2>. HIDE DEF new, f
  <2>4. /\ new.steps \in Seq(Step) /\ Raws(new) = Append(Raws(acc), e.raw)
        /\ InputSteps(new) = InputSteps(acc) \cup {Len(acc.steps) + 1}
        /\ \A j \in InputSteps(acc) : new.steps[j] = acc.steps[j]
        /\ new.steps[Len(acc.steps) + 1].var = f.name
    BY <1>3, <2>2, <2>3
  <2>5. new \in Acc
    BY <1>1, <1>a, <2>2, <2>3, <2>4 DEF Acc
  <2>6. Own(new)
    <3>1. \A j \in InputSteps(acc) : new.steps[j].var \in acc.inputs
      BY <2>4 DEF Own
    <3>2. \A j, l \in InputSteps(new) : new.steps[j].var = new.steps[l].var => j = l
      BY <2>2, <2>4, <3>1 DEF Own
    <3>3. new.inputs = {new.steps[j].var : j \in InputSteps(new)}
      <4>1. new.inputs = acc.inputs \cup {f.name}
        BY <2>3
      <4>2. acc.inputs = {new.steps[j].var : j \in InputSteps(acc)}
        BY <2>4 DEF Own
      <4>. QED  BY <2>4, <4>1, <4>2
    <3>. QED  BY <3>2, <3>3 DEF Own
  <2>7. IsFiniteSet(new.inputs)
    BY <2>3, FS_AddElement
  <2>8. acc.previous # e.raw /\ new.previous = e.raw
    BY <1>5, <2>3 DEF Repeats
  <2>. QED  BY <2>4, <2>5, <2>6, <2>7, <2>8 DEF new
<1>. QED  BY <1>2, <1>4, <1>5

\* The workflow of any events: every input has a variable of its own, and the
\* steps are the events without repetitions.
LEMMA WorkflowIs ==
  ASSUME NEW s \in Seq(Events)
  PROVE  Workflow(s) \in Acc /\ Own(Workflow(s)) /\ Raws(Workflow(s)) = Once(s)
<1>. DEFINE A == After(s)
            U == UpTo(s)
            Good(n) == /\ A[n] \in Acc /\ Own(A[n]) /\ IsFiniteSet(A[n].inputs)
                       /\ Raws(A[n]) = U[n]
                       /\ A[n].previous = IF n = 0 THEN "nothing" ELSE s[n].raw
            T == {n \in Nat : n <= Len(s) => Good(n)}
<1>. HIDE DEF A, U
<1>1. /\ Workflow(s) = A[Len(s)] /\ Once(s) = U[Len(s)]
      /\ A[0] = Nothing /\ U[0] = <<>>
      /\ \A n \in 1..Len(s) : A[n] = AddEvent(A[n - 1], s[n])
      /\ \A n \in 1..Len(s) : U[n] = IF n > 1 /\ s[n].raw = s[n - 1].raw THEN U[n - 1]
                                   ELSE Append(U[n - 1], s[n].raw)
  BY AfterIs, UpToIs DEF A, U
<1>2. 0 \in T
  <2>1. Nothing.previous = "nothing"
    BY DEF Nothing
  <2>2. Good(0)
    BY <1>1, <2>1, NothingIs
  <2>. QED  BY <2>2
<1>3. ASSUME NEW n \in Nat, n \in T PROVE n + 1 \in T
  <2>. SUFFICES ASSUME n + 1 <= Len(s) PROVE Good(n + 1)
    OBVIOUS
  <2>1. Good(n) /\ n + 1 \in 1..Len(s) /\ (n + 1) - 1 = n
    BY <1>3
  <2>2. s[n + 1] \in Events
    BY <2>1
  <2>3. A[n + 1] = AddEvent(A[n], s[n + 1])
    BY <1>1, <2>1
  <2>4. /\ A[n + 1] \in Acc /\ Own(A[n + 1]) /\ IsFiniteSet(A[n + 1].inputs)
        /\ A[n + 1].previous = s[n + 1].raw
        /\ Raws(A[n + 1]) = IF A[n].previous = s[n + 1].raw THEN Raws(A[n])
                           ELSE Append(Raws(A[n]), s[n + 1].raw)
    BY <2>1, <2>2, <2>3, AddEventIs
  <2>5. U[n + 1] = IF n + 1 > 1 /\ s[n + 1].raw = s[n].raw THEN U[n] ELSE Append(U[n], s[n + 1].raw)
    BY <1>1, <2>1
  <2>6. A[n].previous = s[n + 1].raw <=> n + 1 > 1 /\ s[n + 1].raw = s[n].raw
    BY <2>1, <2>2, TeachAssumption
  <2>7. Raws(A[n + 1]) = U[n + 1]
    BY <2>1, <2>4, <2>5, <2>6
  <2>. QED  BY <2>4, <2>7
<1>4. Len(s) \in T
  <2>. HIDE DEF T
  <2>1. Nat \subseteq T
    BY <1>2, <1>3, Induction
  <2>. QED  BY <2>1
<1>. QED  BY <1>1, <1>4

(***************************************************************************)
(* The steps of a workflow, as a selection of the events.                  *)
(***************************************************************************)
\* q says of each step which of the first g events it comes from; each of
\* these says what the last step up to it says.
Picks(s, u, q, g) ==
  /\ u \in Seq(Text) /\ q \in [1..Len(u) -> 1..g]
  /\ \A i \in 1..Len(u) : u[i] = s[q[i]].raw
  /\ \A i \in 1..Len(u) - 1 : q[i] < q[i + 1] /\ u[i] # u[i + 1]
  /\ \A n \in 1..g : \E i \in 1..Len(u) : /\ q[i] <= n /\ (i < Len(u) => n < q[i + 1])
                                          /\ u[i] = s[n].raw

LEMMA PicksAre ==
  ASSUME NEW s, NEW u, NEW q, NEW g \in Nat, Picks(s, u, q, g)
  PROVE  /\ u \in Seq(Text) /\ Len(u) \in Nat /\ q \in [1..Len(u) -> 1..g]
         /\ \A i \in 1..Len(u) : q[i] \in 1..g /\ u[i] = s[q[i]].raw
         /\ \A i \in 1..Len(u) - 1 : q[i] < q[i + 1] /\ u[i] # u[i + 1]
         /\ \A n \in 1..g : \E i \in 1..Len(u) : /\ q[i] <= n /\ (i < Len(u) => n < q[i + 1])
                                                 /\ u[i] = s[n].raw
<1>1. u \in Seq(Text) /\ q \in [1..Len(u) -> 1..g]
  BY DEF Picks
<1>2. \A i \in 1..Len(u) : u[i] = s[q[i]].raw
  BY DEF Picks
<1>3. \A i \in 1..Len(u) - 1 : q[i] < q[i + 1] /\ u[i] # u[i + 1]
  BY DEF Picks
<1>4. \A n \in 1..g : \E i \in 1..Len(u) : /\ q[i] <= n /\ (i < Len(u) => n < q[i + 1])
                                           /\ u[i] = s[n].raw
  BY Zenon DEF Picks
<1>5. Len(u) \in Nat /\ \A i \in 1..Len(u) : q[i] \in 1..g
  BY <1>1
<1>. QED  BY <1>1, <1>2, <1>3, <1>4, <1>5, Zenon

LEMMA LastPicked ==
  ASSUME NEW s, NEW u, NEW q, NEW g \in Nat, Picks(s, u, q, g)
  PROVE  IF g = 0 THEN Len(u) = 0 ELSE Len(u) > 0 /\ u[Len(u)] = s[g].raw
<1>1. Len(u) \in Nat /\ \A i \in 1..Len(u) : q[i] \in 1..g
  BY DEF Picks
<1>2. CASE g = 0
  BY <1>1, <1>2
<1>3. CASE g # 0
  <2>1. PICK i \in 1..Len(u) : (i < Len(u) => g < q[i + 1]) /\ u[i] = s[g].raw
    BY <1>3 DEF Picks
  <2>2. i = Len(u)
    <3>1. i < Len(u) => i + 1 \in 1..Len(u)
      BY <1>1
    <3>. QED  BY <1>1, <2>1, <3>1
  <2>. QED  BY <1>3, <2>1, <2>2
<1>. QED  BY <1>2, <1>3

LEMMA OnceIs ==
  ASSUME NEW s \in Seq(Events)
  PROVE  \E q : Picks(s, Once(s), q, Len(s))
<1>. DEFINE T == {n \in Nat : n <= Len(s) => \E q : Picks(s, UpTo(s)[n], q, n)}
<1>1. 0 \in T
  <2>1. Picks(s, <<>>, [i \in 1..0 |-> 1], 0)
    BY DEF Picks
  <2>. QED  BY <2>1, UpToIs
<1>2. ASSUME NEW n \in Nat, n \in T PROVE n + 1 \in T
  <2>. SUFFICES ASSUME n + 1 <= Len(s) PROVE \E q : Picks(s, UpTo(s)[n + 1], q, n + 1)
    OBVIOUS
  <2>. DEFINE u == UpTo(s)[n]
              v == UpTo(s)[n + 1]
              raw == s[n + 1].raw
  <2>1. n \in T /\ n + 1 \in 1..Len(s) /\ (n + 1) - 1 = n /\ s[n + 1] \in Events
    BY <1>2
  <2>2. PICK q : Picks(s, u, q, n)
    BY <2>1
  <2>3. v = IF n + 1 > 1 /\ raw = s[n].raw THEN u ELSE Append(u, raw)
    BY <2>1, UpToIs
  <2>4. IF n = 0 THEN Len(u) = 0 ELSE Len(u) > 0 /\ u[Len(u)] = s[n].raw
    BY <2>2, LastPicked
  <2>5. raw \in Text
    BY <2>1, TeachAssumption DEF Event, Text
  <2>. HIDE DEF u, v, raw
  <2>6. /\ u \in Seq(Text) /\ Len(u) \in Nat /\ q \in [1..Len(u) -> 1..n]
        /\ \A i \in 1..Len(u) : q[i] \in 1..n /\ u[i] = s[q[i]].raw
        /\ \A i \in 1..Len(u) - 1 : q[i] < q[i + 1] /\ u[i] # u[i + 1]
        /\ \A m \in 1..n : \E i \in 1..Len(u) : /\ q[i] <= m /\ (i < Len(u) => m < q[i + 1])
                                                /\ u[i] = s[m].raw
    BY <2>2, PicksAre
  <2>7. CASE n + 1 > 1 /\ raw = s[n].raw
    <3>1. v = u /\ Len(u) \in 1..Len(u) /\ u[Len(u)] = raw
      BY <2>3, <2>4, <2>6, <2>7
    <3>2. q \in [1..Len(u) -> 1..n + 1]
      BY <2>6
    <3>3. ASSUME NEW m \in 1..n + 1
          PROVE  \E i \in 1..Len(u) : /\ q[i] <= m /\ (i < Len(u) => m < q[i + 1])
                                      /\ u[i] = s[m].raw
      <4>1. CASE m = n + 1
        <5>1. q[Len(u)] \in 1..n
          BY <2>6, <3>1
        <5>2. q[Len(u)] <= m /\ ~(Len(u) < Len(u))
          BY <2>6, <4>1, <5>1
        <5>3. u[Len(u)] = s[m].raw
          BY <3>1, <4>1 DEF raw
        <5>. QED  BY <3>1, <5>2, <5>3
      <4>2. CASE m # n + 1
        <5>1. m \in 1..n
          BY <4>2
        <5>. QED  BY <2>6, <5>1
      <4>. QED  BY <4>1, <4>2
    <3>4. Picks(s, u, q, n + 1)
      BY <2>6, <3>2, <3>3 DEF Picks
    <3>. QED  BY <3>1, <3>4 DEF v
  <2>8. CASE ~(n + 1 > 1 /\ raw = s[n].raw)
    <3>. DEFINE k == Len(u) + 1
                r == [i \in 1..k |-> IF i = k THEN n + 1 ELSE q[i]]
    <3>1. /\ v \in Seq(Text) /\ Len(v) = k /\ k \in Nat /\ v[k] = raw
          /\ \A i \in 1..Len(u) : v[i] = u[i]
      BY <2>3, <2>5, <2>6, <2>8
    <3>2. r[k] = n + 1 /\ \A i \in 1..Len(u) : r[i] = q[i] /\ r[i] \in 1..n
      BY <2>6
    <3>3. r \in [1..k -> 1..n + 1]
      BY <2>6
    <3>. HIDE DEF r
    <3>4. ASSUME NEW i \in 1..k PROVE v[i] = s[r[i]].raw
      <4>1. i = k \/ i \in 1..Len(u)
        BY <2>6
      <4>. QED  BY <2>6, <3>1, <3>2, <4>1 DEF raw
    <3>5. ASSUME NEW i \in 1..k - 1 PROVE r[i] < r[i + 1] /\ v[i] # v[i + 1]
      <4>1. i \in 1..Len(u)
        BY <2>6
      <4>2. CASE i = Len(u)
        <5>1. n # 0 /\ u[i] # raw
          BY <2>4, <2>6, <2>8, <4>1, <4>2
        <5>2. i + 1 = k
          BY <4>2
        <5>3. r[i] < r[i + 1]
          BY <3>2, <4>1, <5>2
        <5>. QED  BY <3>1, <4>1, <5>1, <5>2, <5>3
      <4>3. CASE i # Len(u)
        <5>1. i \in 1..Len(u) - 1 /\ i + 1 \in 1..Len(u)
          BY <2>6, <4>1, <4>3
        <5>. QED  BY <2>6, <3>1, <3>2, <4>1, <5>1
      <4>. QED  BY <4>2, <4>3
    <3>6. ASSUME NEW m \in 1..n + 1
          PROVE  \E i \in 1..k : r[i] <= m /\ (i < k => m < r[i + 1]) /\ v[i] = s[m].raw
      <4>1. CASE m = n + 1
        <5>1. k \in 1..k /\ r[k] <= m /\ v[k] = s[m].raw
          BY <2>6, <3>1, <3>2, <4>1 DEF raw
        <5>. QED  BY <5>1
      <4>2. CASE m # n + 1
        <5>1. m \in 1..n
          BY <4>2
        <5>2. PICK i \in 1..Len(u) : /\ q[i] <= m /\ (i < Len(u) => m < q[i + 1])
                                     /\ u[i] = s[m].raw
          BY <2>6, <5>1
        <5>3. i < k => m < r[i + 1]
          <6>1. CASE i < Len(u)
            <7>1. i + 1 \in 1..Len(u)
              BY <2>6, <6>1
            <7>. QED  BY <3>2, <5>2, <6>1, <7>1
          <6>2. CASE i = Len(u)
            BY <3>2, <5>1, <6>2
          <6>. QED  BY <2>6, <6>1, <6>2
        <5>4. i \in 1..k /\ r[i] <= m /\ v[i] = s[m].raw
          BY <2>6, <3>1, <3>2, <5>2
        <5>. QED  BY <5>3, <5>4
      <4>. QED  BY <4>1, <4>2
    <3>7. Picks(s, v, r, n + 1)
      BY <3>1, <3>3, <3>4, <3>5, <3>6 DEF Picks
    <3>. QED  BY <3>7 DEF v
  <2>. QED  BY <2>7, <2>8
<1>3. Len(s) \in T
  <2>. HIDE DEF T
  <2>1. Nat \subseteq T
    BY <1>1, <1>2, Induction
  <2>. QED  BY <2>1
<1>. QED  BY <1>3 DEF Once

(***************************************************************************)
(* Types, and the variables of the inputs.                                 *)
(***************************************************************************)
Draft == [num : Nat, workflow : Acc]
Saved == [workflow : Acc, late : BOOLEAN]

\* What was received is a beginning of what was reported.
Shape ==
  /\ TypeOK /\ draft \in [Clients -> Draft] /\ saved \in Seq(Saved)
  /\ Len(got) <= Len(sent) /\ \A i \in 1..Len(got) : got[i] = sent[i]

Owns == /\ \A c \in Clients : Own(draft[c].workflow)
        /\ \A n \in 1..Len(saved) : Own(saved[n].workflow)

LEMMA NoDraftIs == NoDraft \in Draft /\ NoDraft.num = 0 /\ NoDraft.workflow = Nothing
BY NothingIs DEF NoDraft, Draft

LEMMA InitShape == Init => Shape /\ Owns
<1>. SUFFICES ASSUME Init PROVE Shape /\ Owns
  OBVIOUS
<1>1. draft \in [Clients -> Draft] /\ \A c \in Clients : draft[c] = NoDraft
  BY NoDraftIs DEF Init
<1>2. saved \in Seq(Saved) /\ Len(saved) = 0
  BY DEF Init
<1>3. TypeOK
  <2>1. /\ thread = "launch" /\ status = "starting" /\ {stopped, shown, listed} \subseteq BOOLEAN
    BY DEF Init
  <2>2. /\ acted \in Seq(Action) /\ last \in [Frames -> Events \cup {NoEvent}]
        /\ sent \in Seq(Events) /\ got \in Seq(Events)
    BY DEF Init
  <2>3. /\ pc \in [Clients -> {"idle", "join", "pop", "number", "insert", "done"}]
        /\ \A c \in Clients : pc[c] # "insert"
    BY DEF Init
  <2>4. timedOut \in [Clients -> BOOLEAN]
    BY DEF Init
  <2>. QED  BY <1>1, <1>2, <2>1, <2>2, <2>3, <2>4, NoDraftIs DEF TypeOK
<1>4. Len(got) <= Len(sent) /\ \A i \in 1..Len(got) : got[i] = sent[i]
  BY DEF Init
<1>5. Owns
  BY <1>1, <1>2, NoDraftIs, NothingIs DEF Owns
<1>. QED  BY <1>1, <1>2, <1>3, <1>4, <1>5 DEF Shape

\* The steps, by what they do to drafts and versions.
LEMMA Inserted ==
  ASSUME Shape, NEW c \in Clients, InsertVersion(c)
  PROVE  /\ draft' = [draft EXCEPT ![c] = NoDraft] /\ UNCHANGED <<thread, status, page, timedOut>>
         /\ \/ saved' = saved
            \/ /\ saved' \in Seq(Saved) /\ Len(saved') = Len(saved) + 1
               /\ \A n \in 1..Len(saved) : saved'[n] = saved[n]
               /\ saved'[Len(saved) + 1] = [workflow |-> draft[c].workflow, late |-> timedOut[c]]
<1>. DEFINE row == [workflow |-> draft[c].workflow, late |-> timedOut[c]]
<1>1. row \in Saved
  BY DEF Shape, TypeOK, Draft, Saved
<1>2. saved' = saved \/ saved' = Append(saved, row)
  BY DEF InsertVersion
<1>3. saved \in Seq(Saved)
  BY DEF Shape
<1>4. draft' = [draft EXCEPT ![c] = NoDraft] /\ UNCHANGED <<thread, status, page, timedOut>>
  BY DEF InsertVersion
<1>. HIDE DEF row
<1>5. saved' = saved \/ /\ saved' \in Seq(Saved) /\ Len(saved') = Len(saved) + 1
                        /\ \A n \in 1..Len(saved) : saved'[n] = saved[n]
                        /\ saved'[Len(saved) + 1] = row
  BY <1>1, <1>2, <1>3
<1>. QED  BY <1>4, <1>5 DEF row

LEMMA Drafted ==
  ASSUME Shape, NEW c \in Clients, MakeDraft(c)
  PROVE  /\ pc[c] = "number" /\ UNCHANGED <<thread, status, stopped, listed, page, timedOut, saved>>
         /\ \/ pc' = [pc EXCEPT ![c] = "done"] /\ draft' = draft
            \/ /\ pc' = [pc EXCEPT ![c] = "insert"]
               /\ draft' \in [Clients -> Draft]
               /\ \A d \in Clients : d # c => draft'[d] = draft[d]
               /\ draft'[c].workflow = Workflow(got) /\ draft'[c].num # 0
<1>. DEFINE new == [num |-> Len(saved) + 1, workflow |-> Workflow(got)]
<1>1. /\ pc[c] = "number" /\ UNCHANGED <<thread, status, stopped, listed, page, timedOut, saved>>
      /\ \/ pc' = [pc EXCEPT ![c] = "done"] /\ draft' = draft
         \/ pc' = [pc EXCEPT ![c] = "insert"] /\ draft' = [draft EXCEPT ![c] = new]
  BY DEF MakeDraft, Goto
<1>2. Workflow(got) \in Acc
  BY WorkflowIs DEF Shape, TypeOK
<1>3. Len(saved) \in Nat
  BY DEF Shape
<1>4. new \in Draft /\ new.num # 0 /\ new.workflow = Workflow(got)
  BY <1>2, <1>3 DEF Draft
<1>. HIDE DEF new
<1>. QED  BY <1>1, <1>4 DEF Shape

LEMMA StepShape == Shape /\ [Next]_vars => Shape'
<1>. SUFFICES ASSUME Shape, [Next]_vars PROVE Shape'
  OBVIOUS
<1>. USE DEF Shape
<1>1. CASE Recorder
  <2>1. /\ thread' \in {"launch", "loop", "closing", "ended"}
        /\ (status' = "starting" <=> thread' = "launch") /\ (status' = "recording" <=> thread' = "loop")
        /\ (status' = "stopping" <=> thread' = "closing")
        /\ (status' \in {"finished", "failed"} <=> thread' = "ended")
    BY <1>1 DEF Recorder, LaunchFails, Opened, SeesStop, CloseBrowser
  <2>2. UNCHANGED <<stopped, listed, acted, last, sent, got, request>> /\ shown' \in BOOLEAN
    BY <1>1 DEF Recorder, LaunchFails, Opened, SeesStop, CloseBrowser, TypeOK, page
  <2>. QED  BY <2>1, <2>2 DEF TypeOK, request
<1>2. CASE PageShown \/ UserCloses
  BY <1>2 DEF PageShown, UserCloses, TypeOK, request
<1>3. CASE UserActs
  <2>1. PICK f \in Frames, e \in Events :
          /\ acted' = Append(acted, [frame |-> f, event |-> e])
          /\ last' = [last EXCEPT ![f] = e]
          /\ sent' = IF last[f] = e THEN sent ELSE Append(sent, e)
    BY <1>3 DEF UserActs
  <2>a. acted \in Seq(Action) /\ sent \in Seq(Events) /\ got \in Seq(Events)
    BY DEF TypeOK
  <2>2. /\ acted' \in Seq(Action) /\ sent' \in Seq(Events)
        /\ last' \in [Frames -> Events \cup {NoEvent}]
        /\ Len(got) <= Len(sent') /\ \A i \in 1..Len(got) : got[i] = sent'[i]
    <3>1. acted' \in Seq(Action)
      BY <2>1, <2>a DEF Action
    <3>2. /\ sent' \in Seq(Events) /\ Len(sent) <= Len(sent')
          /\ \A i \in 1..Len(sent) : sent'[i] = sent[i]
      <4>1. CASE sent' = Append(sent, e)
        BY <2>a, <4>1
      <4>2. CASE sent' = sent
        BY <2>a, <4>2
      <4>. QED  BY <2>1, <4>1, <4>2
    <3>3. Len(got) \in Nat /\ Len(sent) \in Nat /\ Len(sent') \in Nat
      BY <2>a, <3>2
    <3>4. last' \in [Frames -> Events \cup {NoEvent}]
      BY <2>1 DEF TypeOK
    <3>. QED  BY <3>1, <3>2, <3>3, <3>4
  <2>3. UNCHANGED <<thread, status, stopped, shown, listed, got, request>>
    BY <1>3 DEF UserActs
  <2>. QED  BY <2>2, <2>3 DEF TypeOK, request
<1>7. CASE Navigate
  BY <1>7 DEF Navigate, TypeOK, request
<1>4. CASE Deliver
  <2>1. Len(got) + 1 \in 1..Len(sent) /\ got' = Append(got, sent[Len(got) + 1])
    BY <1>4 DEF Deliver, TypeOK
  <2>2. /\ got' \in Seq(Events) /\ Len(got') <= Len(sent)
        /\ \A i \in 1..Len(got') : got'[i] = sent[i]
    BY <2>1 DEF TypeOK
  <2>. QED  BY <1>4, <2>2 DEF Deliver, TypeOK, request
<1>5. ASSUME NEW c \in Clients, StopRequest(c) PROVE Shape'
  <2>1. CASE Stop(c) \/ Join(c) \/ JoinTimesOut(c) \/ Pop(c)
    <3>1. PICK where \in {"join", "pop", "number", "done"} : pc' = [pc EXCEPT ![c] = where]
      BY <2>1 DEF Stop, Join, JoinTimesOut, Pop, Goto
    <3>2. pc[c] # "insert"
      BY <2>1 DEF Stop, Join, JoinTimesOut, Pop
    <3>3. UNCHANGED <<thread, status, page, draft, saved>>
      BY <2>1 DEF Stop, Join, JoinTimesOut, Pop
    <3>4. {stopped, shown, listed}' \subseteq BOOLEAN /\ timedOut' \in [Clients -> BOOLEAN]
      BY <2>1 DEF Stop, Join, JoinTimesOut, Pop, TypeOK, page
    <3>5. /\ pc' \in [Clients -> {"idle", "join", "pop", "number", "insert", "done"}]
          /\ \A d \in Clients : pc'[d] = "insert" <=> pc[d] = "insert"
      BY <3>1, <3>2 DEF TypeOK
    <3>. QED  BY <3>3, <3>4, <3>5 DEF TypeOK, page
  <2>2. CASE MakeDraft(c)
    <3>1. UNCHANGED <<thread, status, stopped, listed, page, timedOut, saved>> /\ pc[c] = "number"
      BY <2>2, Drafted
    <3>2. /\ draft' \in [Clients -> Draft]
          /\ pc' \in [Clients -> {"idle", "join", "pop", "number", "insert", "done"}]
          /\ \A d \in Clients : draft'[d] # NoDraft <=> pc'[d] = "insert"
      BY <2>2, <3>1, Drafted, NoDraftIs DEF TypeOK
    <3>3. \A d \in Clients : draft'[d].num \in Nat
      BY <3>2 DEF Draft
    <3>. QED  BY <3>1, <3>2, <3>3 DEF TypeOK, page
  <2>3. CASE InsertVersion(c)
    <3>1. pc' = [pc EXCEPT ![c] = "done"] /\ UNCHANGED <<thread, status, stopped, listed, page, timedOut>>
      BY <2>3 DEF InsertVersion, Goto
    <3>2. draft' \in [Clients -> Draft] /\ draft' = [draft EXCEPT ![c] = NoDraft]
      BY <2>3, Inserted, NoDraftIs
    <3>3. saved' \in Seq(Saved)
      BY <2>3, Inserted
    <3>4. \A n \in 1..Len(saved') : saved'[n].late \in BOOLEAN
      <4>1. \A n \in 1..Len(saved') : saved'[n] \in Saved
        BY <3>3
      <4>. QED  BY <4>1 DEF Saved
    <3>. QED  BY <3>1, <3>2, <3>3, <3>4, NoDraftIs DEF TypeOK, page
  <2>. QED  BY <1>5, <2>1, <2>2, <2>3 DEF StopRequest
<1>6. CASE UNCHANGED vars
  BY <1>6 DEF vars, TypeOK
<1>. QED  BY <1>1, <1>2, <1>3, <1>4, <1>5, <1>6, <1>7 DEF Next

LEMMA StepOwns == Shape /\ Owns /\ [Next]_vars => Owns'
<1>. SUFFICES ASSUME Shape, Owns, [Next]_vars PROVE Owns'
  OBVIOUS
<1>1. CASE UNCHANGED <<draft, saved>>
  BY <1>1 DEF Owns
<1>2. ASSUME NEW c \in Clients, MakeDraft(c) PROVE Owns'
  <2>1. saved' = saved /\ (draft' = draft \/ draft'[c].workflow = Workflow(got))
        /\ \A d \in Clients : d # c => draft'[d] = draft[d]
    BY <1>2, Drafted
  <2>2. Own(Workflow(got))
    BY WorkflowIs DEF Shape, TypeOK
  <2>. QED  BY <2>1, <2>2 DEF Owns
<1>3. ASSUME NEW c \in Clients, InsertVersion(c) PROVE Owns'
  <2>1. \A d \in Clients : Own(draft'[d].workflow)
    BY <1>3, Inserted, NoDraftIs, NothingIs DEF Owns, Shape
  <2>2. CASE saved' = saved
    BY <2>1, <2>2 DEF Owns
  <2>3. CASE saved' # saved
    <3>1. /\ Len(saved') = Len(saved) + 1 /\ Len(saved) \in Nat
          /\ \A n \in 1..Len(saved) : saved'[n] = saved[n]
          /\ saved'[Len(saved) + 1] = [workflow |-> draft[c].workflow, late |-> timedOut[c]]
      BY <1>3, <2>3, Inserted DEF Shape
    <3>a. saved'[Len(saved) + 1].workflow = draft[c].workflow
      BY <3>1
    <3>2. ASSUME NEW n \in 1..Len(saved') PROVE Own(saved'[n].workflow)
      <4>1. n \in 1..Len(saved) \/ n = Len(saved) + 1
        BY <3>1
      <4>. QED  BY <3>1, <3>a, <4>1 DEF Owns
    <3>. QED  BY <2>1, <3>2 DEF Owns
  <2>. QED  BY <2>2, <2>3
<1>. QED
  BY <1>1, <1>2, <1>3
  DEF Next, Recorder, LaunchFails, Opened, SeesStop, CloseBrowser, PageShown, UserActs, Navigate, UserCloses,
      Deliver, StopRequest, Stop, Join, JoinTimesOut, Pop, request, vars

\* A version made from a recording can be filled in: every input it records
\* has a variable of its own, whatever the labels in the page and however
\* often they occur, as the loop of parameterize_events goes on until the name
\* is new.
THEOREM VersionsAreUsable == Spec => []VersionIsUsable
<1>1. Init => Shape /\ Owns
  BY InitShape
<1>2. Shape /\ Owns /\ [Next]_vars => (Shape /\ Owns)'
  BY StepShape, StepOwns
<1>3. Shape /\ Owns => VersionIsUsable
  BY DEF Shape, Owns, VersionIsUsable, OwnVariable, Own, InputSteps
<1>. QED  BY <1>1, <1>2, <1>3, PTL DEF Spec

(***************************************************************************)
(* What was done.                                                          *)
(***************************************************************************)
\* The workflow is what SavedIsWhatWasDone says of it, up to some moment.
Reached(w) ==
  LET steps == Raws(w)
  IN /\ \A i \in 1..Len(steps) - 1 : steps[i] # steps[i + 1]
     /\ \E m \in 0..Len(acted) : \E at \in [1..Len(steps) -> 1..m] : Repeat(steps, at, m)

\* p says which action each report is of; the others were said before.
Reports(p) ==
  /\ p \in [1..Len(sent) -> 1..Len(acted)]
  /\ \A i \in 1..Len(sent) : sent[i] = acted[p[i]].event
  /\ \A i, j \in 1..Len(sent) : i < j => p[i] < p[j]
  /\ \A n \in 1..Len(acted) : (\E i \in 1..Len(sent) : p[i] = n) \/ SaidBefore(n)

\* A document remembers the last action of its frame.
LastIs ==
  \A f \in Frames : last[f] # NoEvent =>
    \E l \in 1..Len(acted) : /\ acted[l] = [frame |-> f, event |-> last[f]]
                             /\ \A j \in l + 1..Len(acted) : acted[j].frame # f

Follows == LastIs /\ \E p : Reports(p)

Made == /\ \A c \in Clients : Reached(draft[c].workflow)
        /\ \A n \in 1..Len(saved) : Reached(saved[n].workflow)

LEMMA NothingReached == ASSUME Shape PROVE Reached(Nothing)
<1>1. Raws(Nothing) = <<>> /\ Len(<<>>) = 0
  BY NothingIs
<1>2. 0 \in 0..Len(acted)
  BY DEF Shape, TypeOK
<1>3. [i \in 1..0 |-> 1] \in [1..0 -> 1..0] /\ Repeat(<<>>, [i \in 1..0 |-> 1], 0)
  BY DEF Repeat
<1>4. \A i \in 1..Len(<<>>) - 1 : FALSE
  BY <1>1
<1>5. \E m \in 0..Len(acted) : \E at \in [1..Len(<<>>) -> 1..m] : Repeat(<<>>, at, m)
  BY <1>1, <1>2, <1>3
<1>. QED  BY <1>1, <1>4, <1>5, Zenon DEF Reached

LEMMA InitFollows == Init => Follows /\ Made
<1>. SUFFICES ASSUME Init PROVE Follows /\ Made
  OBVIOUS
<1>1. acted = <<>> /\ sent = <<>> /\ saved = <<>> /\ Len(acted) = 0 /\ Len(sent) = 0 /\ Len(saved) = 0
  BY DEF Init
<1>2. LastIs
  BY DEF Init, LastIs
<1>3. Reports([i \in 1..0 |-> 1])
  BY <1>1 DEF Reports
<1>4. \A c \in Clients : draft[c].workflow = Nothing
  BY NoDraftIs DEF Init
<1>5. Reached(Nothing)
  BY InitShape, NothingReached
<1>. QED  BY <1>1, <1>2, <1>3, <1>4, <1>5 DEF Made, Follows

\* What was said of an action before does not depend on the later ones.
LEMMA ActsKeep ==
  ASSUME Shape, UserActs
  PROVE  /\ Len(acted') = Len(acted) + 1 /\ Len(acted) \in Nat
         /\ \A i \in 1..Len(acted) : acted'[i] = acted[i]
         /\ \A n \in 1..Len(acted) : SaidBefore(n) => SaidBefore(n)'
         /\ \A w : Reached(w) => Reached(w)'
<1>1. PICK f \in Frames, e \in Events : acted' = Append(acted, [frame |-> f, event |-> e])
  BY DEF UserActs
<1>2. acted \in Seq(Action)
  BY DEF Shape, TypeOK
<1>3. /\ Len(acted') = Len(acted) + 1 /\ Len(acted) \in Nat
      /\ \A i \in 1..Len(acted) : acted'[i] = acted[i]
  BY <1>1, <1>2
<1>4. ASSUME NEW n \in 1..Len(acted), SaidBefore(n) PROVE SaidBefore(n)'
  <2>1. PICK l \in 1..n - 1 : /\ acted[l] = acted[n]
                              /\ \A j \in l + 1..n - 1 : acted[j].frame # acted[n].frame
    BY <1>4 DEF SaidBefore
  <2>2. l \in 1..Len(acted) /\ \A j \in l + 1..n - 1 : j \in 1..Len(acted)
    BY <1>3
  <2>. QED  BY <1>3, <2>1, <2>2 DEF SaidBefore
<1>5. ASSUME NEW steps, NEW m \in 0..Len(acted), NEW at \in [1..Len(steps) -> 1..m],
             Repeat(steps, at, m)
      PROVE  Repeat(steps, at, m)'
  <2>1. \A n \in 1..m : n \in 1..Len(acted) /\ acted'[n] = acted[n]
    BY <1>3
  <2>2. \A i \in 1..Len(steps) : at[i] \in 1..m
    OBVIOUS
  <2>3. ASSUME NEW i \in 1..Len(steps)
        PROVE  steps[i] = acted'[at[i]].event.raw /\ (i < Len(steps) => at[i] < at[i + 1])
    <3>1. steps[i] = acted[at[i]].event.raw /\ (i < Len(steps) => at[i] < at[i + 1])
      BY <1>5, Zenon DEF Repeat
    <3>2. acted'[at[i]] = acted[at[i]]
      BY <2>1, <2>2
    <3>. QED  BY <3>1, <3>2
  <2>4. ASSUME NEW n \in 1..m
        PROVE  \/ \E i \in 1..Len(steps) : at[i] = n
               \/ SaidBefore(n)'
               \/ \E i \in 1..Len(steps) : /\ at[i] < n /\ (i < Len(steps) => n < at[i + 1])
                                          /\ steps[i] = acted'[n].event.raw
    <3>1. \/ \E i \in 1..Len(steps) : at[i] = n
          \/ SaidBefore(n)
          \/ \E i \in 1..Len(steps) : /\ at[i] < n /\ (i < Len(steps) => n < at[i + 1])
                                     /\ steps[i] = acted[n].event.raw
      BY <1>5, Zenon DEF Repeat
    <3>2. acted'[n] = acted[n] /\ (SaidBefore(n) => SaidBefore(n)')
      BY <1>4, <2>1
    <3>. QED  BY <3>1, <3>2
  <2>. QED  BY <2>3, <2>4, Zenon DEF Repeat
<1>6. 0..Len(acted) \subseteq 0..Len(acted')
  BY <1>3
<1>7. ASSUME NEW w, Reached(w) PROVE Reached(w)'
  <2>1. PICK steps : steps = Raws(w)
    OBVIOUS
  <2>2. PICK m \in 0..Len(acted) : \E at \in [1..Len(steps) -> 1..m] : Repeat(steps, at, m)
    BY <1>7, <2>1, Zenon DEF Reached
  <2>3. PICK at \in [1..Len(steps) -> 1..m] : Repeat(steps, at, m)
    BY <2>2
  <2>4. Repeat(steps, at, m)' /\ m \in 0..Len(acted')
    BY <1>5, <1>6, <2>3
  <2>5. \A i \in 1..Len(steps) - 1 : steps[i] # steps[i + 1]
    BY <1>7, <2>1 DEF Reached
  <2>. QED  BY <2>1, <2>3, <2>4, <2>5, Zenon DEF Reached
<1>. QED  BY <1>3, <1>4, <1>7

LEMMA ActsFollow ==
  ASSUME Shape, Follows, UserActs
  PROVE  Follows'
<1>a. acted \in Seq(Action) /\ sent \in Seq(Events) /\ last \in [Frames -> Events \cup {NoEvent}]
      /\ Len(acted) \in Nat /\ Len(sent) \in Nat
  BY DEF Shape, TypeOK
<1>b. PICK N \in Nat : N = Len(acted) + 1
  BY <1>a
<1>c. PICK K \in Nat : K = Len(sent)
  BY <1>a
<1>1. PICK f \in Frames, e \in Events :
        /\ acted' = Append(acted, [frame |-> f, event |-> e])
        /\ last' = [last EXCEPT ![f] = e]
        /\ sent' = IF last[f] = e THEN sent ELSE Append(sent, e)
  BY DEF UserActs
<1>2. /\ Len(acted') = N /\ acted'[N] = [frame |-> f, event |-> e]
      /\ \A i \in 1..Len(acted) : acted'[i] = acted[i] /\ (SaidBefore(i) => SaidBefore(i)')
  BY <1>a, <1>b, <1>c, <1>1, ActsKeep
<1>3. PICK p : Reports(p)
  BY DEF Follows
<1>4. LastIs'
  <2>. SUFFICES ASSUME NEW g \in Frames, last'[g] # NoEvent
                PROVE  \E l \in 1..N : /\ acted'[l] = [frame |-> g, event |-> last'[g]]
                                       /\ \A j \in l + 1..N : acted'[j].frame # g
    BY <1>b, <1>2 DEF LastIs
  <2>1. CASE g = f
    <3>1. N \in 1..N /\ acted'[N] = [frame |-> g, event |-> last'[g]] /\ N + 1..N = {}
      BY <1>a, <1>b, <1>c, <1>1, <1>2, <2>1
    <3>. QED  BY <3>1
  <2>2. CASE g # f
    <3>1. last'[g] = last[g]
      BY <1>a, <1>b, <1>c, <1>1, <2>2
    <3>2. PICK l \in 1..Len(acted) : /\ acted[l] = [frame |-> g, event |-> last[g]]
                                     /\ \A j \in l + 1..Len(acted) : acted[j].frame # g
      BY <2>2, <3>1 DEF Follows, LastIs
    <3>3. ASSUME NEW j \in l + 1..N PROVE acted'[j].frame # g
      <4>1. CASE j = N
        BY <1>2, <2>2, <4>1
      <4>2. CASE j # N
        <5>1. j \in l + 1..Len(acted) /\ j \in 1..Len(acted)
          BY <1>a, <1>b, <1>c, <4>2
        <5>. QED  BY <1>2, <3>2, <5>1
      <4>. QED  BY <4>1, <4>2
    <3>4. l \in 1..N /\ acted'[l] = [frame |-> g, event |-> last'[g]]
      BY <1>a, <1>b, <1>c, <1>2, <3>1, <3>2
    <3>. QED  BY <3>3, <3>4
  <2>. QED  BY <2>1, <2>2
<1>5. /\ p \in [1..K -> 1..Len(acted)]
      /\ \A i \in 1..K : p[i] \in 1..Len(acted) /\ sent[i] = acted'[p[i]].event
      /\ \A i, j \in 1..K : i < j => p[i] < p[j]
      /\ \A n \in 1..Len(acted) : (\E i \in 1..K : p[i] = n) \/ SaidBefore(n)'
  BY <1>c, <1>2, <1>3 DEF Reports
<1>6. CASE last[f] = e
  <2>1. sent' = sent /\ last[f] # NoEvent
    BY <1>1, <1>6, TeachAssumption DEF NoEvent
  <2>2. PICK l \in 1..Len(acted) : /\ acted[l] = [frame |-> f, event |-> e]
                                   /\ \A j \in l + 1..Len(acted) : acted[j].frame # f
    BY <1>6, <2>1 DEF Follows, LastIs
  <2>3. SaidBefore(N)'
    <3>1. l \in 1..N - 1 /\ acted'[l] = acted'[N] /\ acted'[N].frame = f
      BY <1>a, <1>b, <1>c, <1>2, <2>2
    <3>2. ASSUME NEW j \in l + 1..N - 1 PROVE acted'[j].frame # f
      <4>1. j \in l + 1..Len(acted) /\ j \in 1..Len(acted)
        BY <1>a, <1>b, <1>c
      <4>. QED  BY <1>2, <2>2, <4>1
    <3>. QED  BY <3>1, <3>2 DEF SaidBefore
  <2>4. \A n \in 1..N : (\E i \in 1..K : p[i] = n) \/ SaidBefore(n)'
    BY <1>a, <1>b, <1>c, <1>5, <2>3
  <2>5. p \in [1..K -> 1..N]
    BY <1>a, <1>b, <1>c, <1>5
  <2>6. Reports(p)'
    BY <1>c, <1>2, <1>5, <2>1, <2>4, <2>5 DEF Reports
  <2>. QED  BY <1>4, <2>6 DEF Follows
<1>7. CASE last[f] # e
  <2>0. PICK r : r = [i \in 1..K + 1 |-> IF i = K + 1 THEN N ELSE p[i]]
    OBVIOUS
  <2>1. Len(sent') = K + 1 /\ sent'[K + 1] = e /\ \A i \in 1..K : sent'[i] = sent[i]
    BY <1>a, <1>b, <1>c, <1>1, <1>7
  <2>2. r[K + 1] = N /\ r \in [1..K + 1 -> 1..N] /\ \A i \in 1..K : r[i] = p[i]
    BY <1>a, <1>b, <1>c, <1>5, <2>0
  <2>3. ASSUME NEW i \in 1..K + 1 PROVE sent'[i] = acted'[r[i]].event
    <3>1. i = K + 1 \/ i \in 1..K
      BY <1>a, <1>b, <1>c
    <3>. QED  BY <1>2, <1>5, <2>1, <2>2, <3>1
  <2>4. ASSUME NEW i \in 1..K + 1, NEW j \in 1..K + 1, i < j PROVE r[i] < r[j]
    <3>1. i \in 1..K /\ (j = K + 1 \/ j \in 1..K)
      BY <1>a, <1>b, <1>c, <2>4
    <3>. QED  BY <1>a, <1>b, <1>c, <1>5, <2>2, <2>4, <3>1
  <2>5. ASSUME NEW n \in 1..N PROVE (\E i \in 1..K + 1 : r[i] = n) \/ SaidBefore(n)'
    <3>1. CASE n = N
      BY <1>a, <1>b, <1>c, <2>2, <3>1
    <3>2. CASE n # N
      <4>1. n \in 1..Len(acted) /\ \A i \in 1..K : i \in 1..K + 1
        BY <1>a, <1>b, <1>c, <3>2
      <4>. QED  BY <1>5, <2>2, <4>1
    <3>. QED  BY <3>1, <3>2
  <2>6. Reports(r)'
    BY <1>2, <2>1, <2>2, <2>3, <2>4, <2>5 DEF Reports
  <2>. QED  BY <1>4, <2>6 DEF Follows
<1>. QED  BY <1>6, <1>7

\* A workflow of what was received, which is a beginning of what was reported,
\* or all of it.
LEMMA GotReached ==
  ASSUME Shape, Follows
  PROVE  LET steps == Raws(Workflow(got))
         IN /\ \A i \in 1..Len(steps) - 1 : steps[i] # steps[i + 1]
            /\ \E m \in IF got = sent THEN {Len(acted)} ELSE 0..Len(acted) :
                 \E at \in [1..Len(steps) -> 1..m] : Repeat(steps, at, m)
<1>. DEFINE u == Once(got)
            g == Len(got)
            k == Len(u)
<1>1. /\ got \in Seq(Events) /\ sent \in Seq(Events) /\ g \in Nat /\ Len(sent) \in Nat
      /\ g <= Len(sent) /\ \A i \in 1..g : i \in 1..Len(sent) /\ got[i] = sent[i]
      /\ Len(acted) \in Nat
  <2>1. got \in Seq(Events) /\ sent \in Seq(Events) /\ acted \in Seq(Action)
    BY DEF Shape, TypeOK
  <2>2. Len(got) \in Nat /\ Len(sent) \in Nat /\ Len(acted) \in Nat
    BY <2>1
  <2>3. Len(got) <= Len(sent) /\ \A i \in 1..Len(got) : got[i] = sent[i]
    BY DEF Shape
  <2>. QED  BY <2>1, <2>2, <2>3
<1>2. Raws(Workflow(got)) = u
  BY <1>1, WorkflowIs
<1>3. PICK p : Reports(p)
  BY DEF Follows
<1>4. PICK q : Picks(got, u, q, g)
  BY <1>1, OnceIs
<1>. HIDE DEF u
<1>5. /\ k \in Nat /\ q \in [1..k -> 1..g]
      /\ \A i \in 1..k : q[i] \in 1..g /\ u[i] = got[q[i]].raw
      /\ \A i \in 1..k - 1 : q[i] < q[i + 1] /\ u[i] # u[i + 1]
      /\ \A n \in 1..g : \E i \in 1..k : /\ q[i] <= n /\ (i < k => n < q[i + 1])
                                        /\ u[i] = got[n].raw
  <2>1. /\ u \in Seq(Text) /\ q \in [1..k -> 1..g]
        /\ \A i \in 1..k : u[i] = got[q[i]].raw
        /\ \A i \in 1..k - 1 : q[i] < q[i + 1] /\ u[i] # u[i + 1]
    BY <1>4 DEF Picks
  <2>2. \A n \in 1..g : \E i \in 1..k : /\ q[i] <= n /\ (i < k => n < q[i + 1])
                                        /\ u[i] = got[n].raw
    BY <1>4, Zenon DEF Picks
  <2>3. k \in Nat /\ \A i \in 1..k : q[i] \in 1..g
    BY <2>1
  <2>. QED  BY <2>1, <2>2, <2>3, Zenon
<1>6. /\ \A i \in 1..g : p[i] \in 1..Len(acted) /\ got[i] = acted[p[i]].event
      /\ \A i, j \in 1..Len(sent) : i < j => p[i] < p[j]
      /\ \A n \in 1..Len(acted) : (\E i \in 1..Len(sent) : p[i] = n) \/ SaidBefore(n)
      /\ \A i \in 1..Len(sent) : p[i] \in 1..Len(acted)
  BY <1>1, <1>3 DEF Reports
<1>. DEFINE m == IF got = sent THEN Len(acted) ELSE IF g = 0 THEN 0 ELSE p[g]
            at == [i \in 1..k |-> p[q[i]]]
<1>7. /\ m \in IF got = sent THEN {Len(acted)} ELSE 0..Len(acted)
      /\ m \in 0..Len(acted) /\ \A i \in 1..g : p[i] \in 1..m
  <2>1. CASE got = sent
    BY <1>1, <1>6, <2>1
  <2>2. CASE got # sent /\ g = 0
    BY <1>1, <2>2
  <2>3. CASE got # sent /\ g # 0
    <3>1. g \in 1..g /\ m = p[g]
      BY <1>1, <2>3
    <3>2. ASSUME NEW i \in 1..g PROVE p[i] <= p[g]
      <4>1. i = g \/ i < g
        BY <1>1
      <4>. QED  BY <1>1, <1>6, <3>1, <4>1
    <3>. QED  BY <1>6, <2>3, <3>1, <3>2
  <2>. QED  BY <2>1, <2>2, <2>3
<1>8. at \in [1..k -> 1..m] /\ \A i \in 1..k : at[i] = p[q[i]] /\ at[i] \in 1..m
  BY <1>5, <1>7
<1>9. ASSUME NEW n \in 1..m
      PROVE  \/ \E i \in 1..k : at[i] = n
             \/ SaidBefore(n)
             \/ \E i \in 1..k : /\ at[i] < n /\ (i < k => n < at[i + 1])
                               /\ u[i] = acted[n].event.raw
  <2>1. n \in 1..Len(acted) /\ (got # sent => g # 0 /\ n <= p[g])
    BY <1>7
  <2>2. CASE SaidBefore(n)
    BY <2>2
  <2>3. CASE ~SaidBefore(n)
    <3>1. PICK j \in 1..Len(sent) : p[j] = n
      BY <1>6, <2>1, <2>3
    <3>2. j \in 1..g
      <4>1. CASE got = sent
        BY <4>1
      <4>2. CASE got # sent
        <5>1. g \in 1..Len(sent) /\ p[g] \in Nat /\ p[j] \in Nat
          BY <1>1, <1>6, <2>1, <4>2
        <5>2. ~(g < j)
          BY <1>6, <2>1, <3>1, <4>2, <5>1
        <5>. QED  BY <5>1, <5>2
      <4>. QED  BY <4>1, <4>2
    <3>3. PICK i \in 1..k : /\ q[i] <= j /\ (i < k => j < q[i + 1])
                            /\ u[i] = got[j].raw
      BY <1>5, <3>2
    <3>4. u[i] = acted[n].event.raw
      BY <1>6, <3>1, <3>2, <3>3
    <3>5. i < k => n < at[i + 1]
      <4>. SUFFICES ASSUME i < k PROVE n < at[i + 1]
        OBVIOUS
      <4>1. i + 1 \in 1..k /\ q[i + 1] \in 1..g /\ j < q[i + 1]
        BY <1>5, <3>3
      <4>2. p[j] < p[q[i + 1]]
        BY <1>1, <1>6, <4>1
      <4>. QED  BY <1>8, <3>1, <4>1, <4>2
    <3>6. CASE q[i] = j
      BY <1>8, <3>1, <3>6
    <3>7. CASE q[i] # j
      <4>1. q[i] \in 1..Len(sent) /\ q[i] < j
        BY <1>1, <1>5, <3>2, <3>3, <3>7
      <4>2. at[i] < n
        BY <1>6, <1>8, <3>1, <4>1
      <4>. QED  BY <3>4, <3>5, <4>2
    <3>. QED  BY <3>6, <3>7
  <2>. QED  BY <2>2, <2>3
<1>10. ASSUME NEW i \in 1..k
       PROVE  u[i] = acted[at[i]].event.raw /\ (i < k => at[i] < at[i + 1])
  <2>1. u[i] = acted[at[i]].event.raw
    BY <1>5, <1>6, <1>8
  <2>2. i < k => at[i] < at[i + 1]
    <3>. SUFFICES ASSUME i < k PROVE at[i] < at[i + 1]
      OBVIOUS
    <3>1. i \in 1..k - 1 /\ i + 1 \in 1..k
      BY <1>5
    <3>2. q[i] \in 1..Len(sent) /\ q[i + 1] \in 1..Len(sent) /\ q[i] < q[i + 1]
      BY <1>1, <1>5, <3>1
    <3>. QED  BY <1>6, <1>8, <3>1, <3>2
  <2>. QED  BY <2>1, <2>2
<1>. HIDE DEF m, at
<1>11. Repeat(u, at, m)
  BY <1>9, <1>10 DEF Repeat
<1>. QED  BY <1>2, <1>5, <1>7, <1>8, <1>11

LEMMA StepMade == Shape /\ Follows /\ Made /\ [Next]_vars => (Follows /\ Made)'
<1>. SUFFICES ASSUME Shape, Follows, Made, [Next]_vars PROVE (Follows /\ Made)'
  OBVIOUS
<1>1. CASE UserActs
  <2>1. draft' = draft /\ saved' = saved
    BY <1>1 DEF UserActs, request
  <2>2. Made'
    BY <1>1, <2>1, ActsKeep DEF Made
  <2>. QED  BY <1>1, <2>2, ActsFollow
<1>2. UserActs \/ Navigate \/ UNCHANGED <<acted, last, sent>>
  BY DEF Next, Recorder, LaunchFails, Opened, SeesStop, CloseBrowser, PageShown, UserCloses,
         Deliver, StopRequest, Stop, Join, JoinTimesOut, Pop, MakeDraft, InsertVersion, page, vars
<1>4. ASSUME UNCHANGED acted PROVE \A w : Reached(w) => Reached(w)'
  BY <1>4 DEF Reached, Repeat, SaidBefore
<1>5. CASE Navigate
  <2>1. PICK f \in Frames : last' = [last EXCEPT ![f] = NoEvent]
    BY <1>5 DEF Navigate
  <2>2. UNCHANGED <<acted, sent, draft, saved>>
    BY <1>5 DEF Navigate, request
  <2>3. \A g \in Frames : last'[g] # NoEvent => last'[g] = last[g]
    BY <2>1 DEF Shape, TypeOK
  <2>4. LastIs'
    BY <2>2, <2>3 DEF Follows, LastIs
  <2>5. \A p : Reports(p) => Reports(p)'
    BY <2>2 DEF Reports, SaidBefore
  <2>6. Made'
    BY <1>4, <2>2 DEF Made
  <2>. QED  BY <2>4, <2>5, <2>6 DEF Follows
<1>3. CASE UNCHANGED <<acted, last, sent>>
  <2>1. Follows' /\ \A w : Reached(w) => Reached(w)'
    <3>1. LastIs'
      BY <1>3 DEF Follows, LastIs
    <3>2. \A n : SaidBefore(n)' = SaidBefore(n)
      BY <1>3 DEF SaidBefore
    <3>3. ASSUME NEW p, Reports(p) PROVE Reports(p)'
      BY <1>3, <3>2, <3>3 DEF Reports
    <3>. QED  BY <1>3, <1>4, <3>1, <3>3 DEF Follows
  <2>2. CASE UNCHANGED <<draft, saved>>
    BY <2>1, <2>2 DEF Made
  <2>3. ASSUME NEW c \in Clients, MakeDraft(c) PROVE Made'
    <3>1. saved' = saved /\ (draft' = draft \/ draft'[c].workflow = Workflow(got))
          /\ \A d \in Clients : d # c => draft'[d] = draft[d]
      BY <2>3, Drafted
    <3>6. Reached(Workflow(got))
      <4>1. Len(acted) \in 0..Len(acted)
        BY DEF Shape, TypeOK
      <4>. QED  BY <4>1, GotReached DEF Reached
    <3>7. \A d \in Clients : Reached(draft'[d].workflow)
      BY <3>1, <3>6 DEF Made
    <3>. QED  BY <2>1, <3>1, <3>7 DEF Made
  <2>4. ASSUME NEW c \in Clients, InsertVersion(c) PROVE Made'
    <3>1. Reached(Nothing)
      BY NothingReached
    <3>2. \A d \in Clients : Reached(draft'[d].workflow)
      BY <2>4, <3>1, Inserted, NoDraftIs DEF Made, Shape
    <3>3. ASSUME NEW n \in 1..Len(saved') PROVE Reached(saved'[n].workflow)
      <4>1. CASE saved' = saved
        BY <4>1 DEF Made
      <4>2. CASE saved' # saved
        <5>1. /\ Len(saved') = Len(saved) + 1 /\ Len(saved) \in Nat
              /\ \A i \in 1..Len(saved) : saved'[i] = saved[i]
              /\ saved'[Len(saved) + 1] = [workflow |-> draft[c].workflow, late |-> timedOut[c]]
          BY <2>4, <4>2, Inserted DEF Shape
        <5>a. saved'[Len(saved) + 1].workflow = draft[c].workflow
          BY <5>1
        <5>2. n \in 1..Len(saved) \/ n = Len(saved) + 1
          BY <5>1
        <5>. QED  BY <5>1, <5>a, <5>2 DEF Made
      <4>. QED  BY <4>1, <4>2
    <3>. QED  BY <2>1, <3>2, <3>3 DEF Made
  <2>5. Made'
    BY <2>2, <2>3, <2>4
    DEF Next, Recorder, LaunchFails, Opened, SeesStop, CloseBrowser, PageShown, UserActs, Navigate, UserCloses,
        Deliver, StopRequest, Stop, Join, JoinTimesOut, Pop, request, vars
  <2>. QED  BY <2>1, <2>5
<1>. QED  BY <1>1, <1>2, <1>3, <1>5

\* A saved version repeats, in order, what the user did up to some moment (up
\* to now, if nothing is on its way and nothing was received since), but for
\* what was said before: the action before it in its frame, or the step
\* before it, gave the same event.  However many frames and documents report
\* at once, however the reports are delivered while requests make workflows of
\* them, and although those on their way are lost when the browser closes.
THEOREM SavedIsDone == Spec => []SavedIsWhatWasDone
<1>. DEFINE I == Shape /\ Follows /\ Made
<1>1. Init => I
  BY InitShape, InitFollows
<1>2. I /\ [Next]_vars => I'
  BY StepShape, StepMade
<1>3. I => SavedIsWhatWasDone
  <2>. SUFFICES ASSUME I, NEW v \in 1..Len(saved)
                PROVE  LET steps == Raws(saved[v].workflow)
                           upToNow == got = sent /\ saved[v].workflow = Workflow(got)
                       IN /\ \A i \in 1..Len(steps) - 1 : steps[i] # steps[i + 1]
                          /\ \E m \in IF upToNow THEN {Len(acted)} ELSE 0..Len(acted) :
                               \E at \in [1..Len(steps) -> 1..m] : Repeat(steps, at, m)
    BY DEF SavedIsWhatWasDone
  <2>1. CASE got = sent /\ saved[v].workflow = Workflow(got)
    BY <2>1, GotReached
  <2>2. CASE ~(got = sent /\ saved[v].workflow = Workflow(got))
    BY <2>2 DEF Made, Reached
  <2>. QED  BY <2>1, <2>2
<1>. QED  BY <1>1, <1>2, <1>3, PTL DEF Spec

(***************************************************************************)
(* Whether it is all of it.                                                *)
(***************************************************************************)
\* A request that has waited for the thread finds the recording at its end,
\* after which nothing is delivered.
Waited ==
  /\ \A c \in Clients : ~timedOut[c] =>
       /\ pc[c] \in {"pop", "number", "insert"} => thread = "ended"
       /\ pc[c] \in {"number", "insert"} => status = "finished"
       /\ pc[c] = "insert" => draft[c].workflow = Workflow(got)
  /\ CompleteUnlessLate

\* Once the thread has ended, the status and the events stay.
LEMMA EndedStays ==
  ASSUME Shape, [Next]_vars, thread = "ended"
  PROVE  UNCHANGED <<thread, status, got>>
BY DEF Next, Recorder, LaunchFails, Opened, SeesStop, CloseBrowser, PageShown, UserActs, Navigate, UserCloses,
       Deliver, StopRequest, Stop, Join, JoinTimesOut, Pop, MakeDraft, InsertVersion, page, vars

LEMMA StepWaited == Shape /\ Shape' /\ Waited /\ [Next]_vars => Waited'
<1>. SUFFICES ASSUME Shape, Shape', Waited, [Next]_vars PROVE Waited'
  OBVIOUS
<1>. DEFINE Fine(d) == ~timedOut[d] =>
              /\ pc[d] \in {"pop", "number", "insert"} => thread = "ended"
              /\ pc[d] \in {"number", "insert"} => status = "finished"
              /\ pc[d] = "insert" => draft[d].workflow = Workflow(got)
<1>a. status = "finished" => thread = "ended"
  BY DEF Shape, TypeOK
<1>b. thread = "ended" => UNCHANGED <<thread, status, got>>
  BY EndedStays
<1>c. \A d \in Clients : pc[d] = "insert" /\ ~timedOut[d] => status = "finished" /\ thread = "ended"
  BY DEF Waited
<1>1. ASSUME NEW d \in Clients, UNCHANGED <<pc[d], timedOut[d], draft[d]>> PROVE Fine(d)'
  <2>1. Fine(d)
    BY DEF Waited
  <2>. QED  BY <1>1, <1>a, <1>b, <2>1
<1>2. ASSUME UNCHANGED saved PROVE CompleteUnlessLate'
  BY <1>2, <1>a, <1>b DEF Waited, CompleteUnlessLate
<1>3. ASSUME NEW c \in Clients, StopRequest(c) PROVE Waited'
  <2>1. \A d \in Clients : d # c => UNCHANGED <<pc[d], timedOut[d], draft[d]>>
    BY <1>3 DEF StopRequest, Stop, Join, JoinTimesOut, Pop, MakeDraft, InsertVersion, Goto, Shape,
                TypeOK, page
  <2>2. Fine(c)
    BY DEF Waited
  <2>3. CASE Stop(c) \/ Join(c) \/ JoinTimesOut(c) \/ Pop(c)
    <3>1. saved' = saved /\ draft' = draft
      BY <2>3 DEF Stop, Join, JoinTimesOut, Pop
    <3>2. Fine(c)'
      BY <2>2, <2>3, <1>a, <1>b DEF Stop, Join, JoinTimesOut, Pop, Goto, Shape, TypeOK
    <3>. QED  BY <1>1, <1>2, <2>1, <3>1, <3>2 DEF Waited
  <2>4. CASE MakeDraft(c)
    <3>1. /\ saved' = saved /\ pc[c] = "number" /\ UNCHANGED <<thread, status, got, timedOut>>
          /\ pc'[c] = "done" \/ (pc'[c] = "insert" /\ draft'[c].workflow = Workflow(got))
      BY <2>4, Drafted DEF Shape, TypeOK, page
    <3>2. Fine(c)'
      BY <2>2, <3>1
    <3>. QED  BY <1>1, <1>2, <2>1, <3>1, <3>2 DEF Waited
  <2>5. CASE InsertVersion(c)
    <3>1. pc'[c] = "done" /\ pc[c] = "insert"
      BY <2>5 DEF InsertVersion, Goto, Shape, TypeOK
    <3>2. Fine(c)'
      BY <3>1
    <3>3. UNCHANGED <<thread, status, got, timedOut>>
      BY <2>5, Inserted DEF page
    <3>4. ASSUME NEW n \in 1..Len(saved'), ~saved'[n].late
          PROVE  status' = "finished" /\ saved'[n].workflow = Workflow(got')
      <4>1. CASE saved' = saved
        BY <1>2, <3>4, <4>1 DEF CompleteUnlessLate
      <4>2. CASE saved' # saved
        <5>1. /\ Len(saved') = Len(saved) + 1 /\ Len(saved) \in Nat
              /\ \A i \in 1..Len(saved) : saved'[i] = saved[i]
              /\ saved'[Len(saved) + 1] = [workflow |-> draft[c].workflow, late |-> timedOut[c]]
          BY <2>5, <4>2, Inserted DEF Shape
        <5>2. CASE n \in 1..Len(saved)
          BY <3>3, <3>4, <5>1, <5>2 DEF Waited, CompleteUnlessLate
        <5>3. CASE n = Len(saved) + 1
          BY <2>2, <3>1, <3>3, <3>4, <5>1, <5>3
        <5>. QED  BY <5>1, <5>2, <5>3
      <4>. QED  BY <4>1, <4>2
    <3>5. CompleteUnlessLate'
      BY <3>4 DEF CompleteUnlessLate
    <3>. QED  BY <1>1, <2>1, <3>2, <3>5 DEF Waited
  <2>. QED  BY <1>3, <2>3, <2>4, <2>5 DEF StopRequest
<1>4. CASE UNCHANGED request
  BY <1>1, <1>2, <1>4 DEF Waited, request
<1>. QED
  BY <1>3, <1>4
  DEF Next, Recorder, LaunchFails, Opened, SeesStop, CloseBrowser, PageShown, UserActs, Navigate, UserCloses,
      Deliver, request, vars

\* A version whose stop request has waited for the thread holds all the events
\* that will ever be received: only a request whose join gave up makes a
\* version of a recording that goes on.
THEOREM CompleteOrLate == Spec => []CompleteUnlessLate
<1>. DEFINE I == Shape /\ Waited
<1>1. Init => I
  <2>. SUFFICES ASSUME Init PROVE Waited
    BY InitShape
  <2>1. (\A c \in Clients : pc[c] = "idle") /\ 1..Len(saved) = {}
    BY DEF Init
  <2>. QED  BY <2>1 DEF Waited, CompleteUnlessLate
<1>2. I /\ [Next]_vars => I'
  BY StepShape, StepWaited
<1>3. I => CompleteUnlessLate
  BY DEF Waited
<1>. QED  BY <1>1, <1>2, <1>3, PTL DEF Spec

(***************************************************************************)
(* The links of robots: what a request holds of the rows it has read.      *)
(***************************************************************************)
Req == [op : {"idle", "attach", "update", "detach"}, robot : RobotIds \cup {0},
        id : LinkIds \cup {0}, row : Link \cup {NoLink}, other : LinkIds \cup {0},
        kept : Aliases, secret : Secrets \cup {LeftOut}, alias : Aliases \cup {LeftOut}]

Fits(r) ==
  \/ r = Idle
  \/ /\ r.op # "idle" /\ r.robot \in RobotIds
     /\ r.op = "attach" => r.secret \in Secrets /\ r.alias \in Aliases /\ r.other = 0
     /\ r.op # "attach" => r.id # 0
     /\ r.op = "detach" => r.alias = LeftOut /\ r.other = 0
     /\ r.id # 0 => r.row \in Link /\ r.row.robot = r.robot

\* What a request read is still there.
Holds(r) ==
  r # Idle =>
    /\ r.robot \in robots
    /\ r.id # 0 => link[r.id] = r.row
    /\ r.other # 0 => link[r.other] \in Link /\ link[r.other].robot = r.robot

RequestsFit == req \in [Callers -> Req] /\ \A c \in Callers : Fits(req[c])
LinksShape  == LinksTypeOK /\ RequestsFit
RowsCurrent == ~overlapped => \A c \in Callers : Holds(req[c])

LEMMA LinkFacts ==
  /\ 0 \notin RobotIds /\ 0 \notin LinkIds /\ RobotIds \subseteq Nat /\ LinkIds \subseteq Nat
  /\ NoLink \notin Link /\ None \notin Names /\ LeftOut \notin Names
  /\ NoLink.alias = None /\ NoLink.robot = 0
  /\ \A x \in Link : x.robot \in RobotIds /\ x.secret \in Secrets /\ x.alias \in Aliases
BY LinkAssumption DEF NoLink, Link, Names, Aliases

LEMMA UsedIs ==
  ASSUME LinksTypeOK
  PROVE  /\ \A l \in Used : l \in LinkIds /\ link[l] \in Link
         /\ \A l \in LinkIds : link[l] \in Link <=> l \in Used
BY LinkFacts DEF LinksTypeOK, Used

LEMMA TheIdIs ==
  ASSUME NEW S
  PROVE  (S = {} /\ TheId(S) = 0) \/ TheId(S) \in S
BY DEF TheId

LEMMA IdleFits == Idle \in Req /\ Fits(Idle)
BY LinkFacts DEF Idle, Req, Fits, NoLink, Aliases

(***************************************************************************)
(* The steps, as they are seen from the other requests.                    *)
(***************************************************************************)
\* What a request starts with is what the tables hold.
LEMMA StartsWith ==
  ASSUME LinksShape, NEW c \in Callers,
         ReadForAttach(c) \/ ReadForUpdate(c) \/ ReadForDetach(c)
  PROVE  \E r \in Req : Starts(c, r) /\ Fits(r) /\ r # Idle /\ Holds(r)
<1>. USE LinkFacts DEF LinksShape
<1>0. robots \subseteq RobotIds
  BY DEF LinksTypeOK
<1>1. CASE ReadForAttach(c)
  <2>1. PICK b \in robots, s \in Secrets, a \in Aliases :
          Starts(c, [Idle EXCEPT !.op = "attach", !.robot = b, !.id = TheId(LinkTo(b, s)),
                                 !.row = RowOf(TheId(LinkTo(b, s))),
                                 !.secret = s, !.alias = a])
    BY <1>1 DEF ReadForAttach
  <2>. DEFINE l == TheId(LinkTo(b, s))
              r == [Idle EXCEPT !.op = "attach", !.robot = b, !.id = l, !.row = RowOf(l),
                                !.secret = s, !.alias = a]
  <2>2. Starts(c, r)
    BY <2>1
  <2>3. \/ l = 0 /\ RowOf(l) = NoLink
        \/ l \in LinkIds /\ RowOf(l) = link[l] /\ link[l] \in Link /\ link[l].robot = b
    BY TheIdIs, UsedIs DEF LinkTo, LinksOf, RowOf
  <2>. HIDE DEF l
  <2>4. RowOf(l) \in Link \cup {NoLink}
    BY <2>3
  <2>5. r \in Req
    BY <1>0, <2>3, <2>4, IdleFits DEF Req
  <2>6. /\ r.op = "attach" /\ r.robot = b /\ r.id = l /\ r.row = RowOf(l) /\ r.other = 0
        /\ r.secret = s /\ r.alias = a
    BY DEF Idle
  <2>7. Idle.op = "idle"
    BY DEF Idle
  <2>. HIDE DEF r
  <2>8. Fits(r) /\ r # Idle /\ Holds(r)
    BY <1>0, <2>3, <2>4, <2>6, <2>7 DEF Fits, Holds
  <2>. QED  BY <2>2, <2>5, <2>8
<1>2. CASE ReadForUpdate(c)
  <2>1. PICK b \in robots, s \in Secrets \cup {LeftOut}, a \in Aliases \cup {LeftOut} :
          \E l \in LinksOf(b) :
            Starts(c, [Idle EXCEPT !.op = "update", !.robot = b, !.id = l, !.row = link[l],
                                   !.other = TheId(LinkTo(b, s) \ {l}),
                                   !.kept = RowOf(TheId(LinkTo(b, s) \ {l})).alias,
                                   !.secret = s, !.alias = a])
    BY <1>2 DEF ReadForUpdate
  <2>2. PICK l \in LinksOf(b) :
            Starts(c, [Idle EXCEPT !.op = "update", !.robot = b, !.id = l, !.row = link[l],
                                   !.other = TheId(LinkTo(b, s) \ {l}),
                                   !.kept = RowOf(TheId(LinkTo(b, s) \ {l})).alias,
                                   !.secret = s, !.alias = a])
    BY <2>1
  <2>. DEFINE o == TheId(LinkTo(b, s) \ {l})
              k == RowOf(o).alias
              r == [Idle EXCEPT !.op = "update", !.robot = b, !.id = l, !.row = link[l],
                                !.other = o, !.kept = k, !.secret = s, !.alias = a]
  <2>3. Starts(c, r)
    BY <2>2
  <2>4. \/ o = 0 /\ RowOf(o) = NoLink
        \/ o \in LinkIds /\ RowOf(o) = link[o] /\ link[o] \in Link /\ link[o].robot = b
    BY TheIdIs, UsedIs DEF LinkTo, LinksOf, RowOf
  <2>5. l \in LinkIds /\ link[l] \in Link /\ link[l].robot = b
    BY UsedIs DEF LinksOf
  <2>6. k \in Aliases
    BY <2>4 DEF Aliases
  <2>. HIDE DEF o, k
  <2>7. r \in Req
    BY <1>0, <2>4, <2>5, <2>6, IdleFits DEF Req
  <2>8. r.op = "update" /\ r.robot = b /\ r.id = l /\ r.row = link[l] /\ r.other = o
    BY DEF Idle
  <2>9. Idle.op = "idle"
    BY DEF Idle
  <2>. HIDE DEF r
  <2>10. Fits(r) /\ r # Idle /\ Holds(r)
    BY <1>0, <2>4, <2>5, <2>8, <2>9 DEF Fits, Holds
  <2>. QED  BY <2>3, <2>7, <2>10
<1>3. CASE ReadForDetach(c)
  <2>0. PICK b \in robots : \E l \in LinksOf(b) :
          Starts(c, [Idle EXCEPT !.op = "detach", !.robot = b, !.id = l, !.row = link[l]])
    BY <1>3 DEF ReadForDetach
  <2>1. PICK l \in LinksOf(b) :
          Starts(c, [Idle EXCEPT !.op = "detach", !.robot = b, !.id = l, !.row = link[l]])
    BY <2>0
  <2>. DEFINE r == [Idle EXCEPT !.op = "detach", !.robot = b, !.id = l, !.row = link[l]]
  <2>2. Starts(c, r)
    BY <2>1
  <2>3. l \in LinkIds /\ link[l] \in Link /\ link[l].robot = b
    BY UsedIs DEF LinksOf
  <2>4. r \in Req
    BY <1>0, <2>3, IdleFits DEF Req
  <2>5. /\ r.op = "detach" /\ r.robot = b /\ r.id = l /\ r.row = link[l] /\ r.other = 0
        /\ r.alias = LeftOut
    BY DEF Idle
  <2>6. Idle.op = "idle"
    BY DEF Idle
  <2>. HIDE DEF r
  <2>7. Fits(r) /\ r # Idle /\ Holds(r)
    BY <1>0, <2>3, <2>5, <2>6 DEF Fits, Holds
  <2>. QED  BY <2>2, <2>4, <2>7
<1>. QED  BY <1>1, <1>2, <1>3

\* An UPDATE leaves the robot of a link as it is.
LEMMA ChangedIs ==
  ASSUME LinksTypeOK, NEW r \in Req, NEW s \in Secrets \cup {LeftOut}, link[r.id] \in Link
  PROVE  /\ Changed(r, s) \in Link
         /\ Changed(r, s).robot = link[r.id].robot
         /\ Changed(r, s).alias = IF r.alias \in {LeftOut, r.row.alias} THEN link[r.id].alias
                                  ELSE r.alias
<1>. DEFINE s1 == IF s \in {LeftOut, r.row.secret} THEN link[r.id].secret ELSE s
            a1 == IF r.alias \in {LeftOut, r.row.alias} THEN link[r.id].alias ELSE r.alias
<1>1. Changed(r, s) = [link[r.id] EXCEPT !.secret = s1, !.alias = a1]
  BY DEF Changed
<1>2. s1 \in Secrets /\ a1 \in Aliases
  BY LinkFacts DEF Req
<1>. HIDE DEF s1, a1
<1>3. /\ Changed(r, s) \in Link
      /\ Changed(r, s).robot = link[r.id].robot
      /\ Changed(r, s).alias = a1
  BY <1>1, <1>2 DEF Link
<1>. QED  BY <1>3 DEF a1

\* A write changes links it has read and never their robot, or inserts one of
\* its own robot.
Touches(c) ==
  /\ req[c] # Idle
  /\ link' \in [LinkIds -> Link \cup {NoLink}]
  /\ \A l \in LinkIds :
       \/ link'[l] = link[l]
       \/ /\ l \in LinksRead(c)
          /\ \/ link'[l] = NoLink
             \/ l \in Used /\ link'[l] \in Link /\ link'[l].robot = link[l].robot
       \/ l \notin Used /\ link'[l] \in Link /\ link'[l].robot = req[c].robot

LEMMA Written ==
  ASSUME LinksShape, NEW c \in Callers, WriteOf(c)
  PROVE  Touches(c) /\ \E gone : Write(c, gone)
<1>. DEFINE r == req[c]
<1>. USE LinkFacts
<1>0. r \in Req /\ Fits(r) /\ LinksTypeOK
  BY DEF LinksShape, RequestsFit
<1>1. link \in [LinkIds -> Link \cup {NoLink}]
  BY <1>0 DEF LinksTypeOK
<1>2. r # Idle
  BY DEF WriteOf, Insert, UpdateAlias, Update, Merge, Detach, Idle
<1>3. r.id \in LinkIds \cup {0} /\ r.other \in LinkIds \cup {0}
  BY <1>0 DEF Req
<1>4. \E gone : Write(c, gone)
  BY DEF WriteOf, Insert, UpdateAlias, Update, Merge, Detach
<1>5. CASE Insert(c)
  <2>. DEFINE new == [robot |-> r.robot, secret |-> r.secret, alias |-> r.alias]
  <2>1. new \in Link /\ new.robot = r.robot
    BY <1>0, <1>2, <1>5 DEF Insert, Fits, Link
  <2>2. PICK l \in LinkIds : NewId(l, Used) /\ (link' = [link EXCEPT ![l] = new] \/ link' = link)
    BY <1>5 DEF Insert
  <2>3. l \notin Used
    BY <2>2 DEF NewId
  <2>. HIDE DEF new
  <2>. QED  BY <1>1, <1>2, <1>4, <2>1, <2>2, <2>3 DEF Touches
<1>6. CASE UpdateAlias(c)
  <2>1. CASE link[r.id] = NoLink
    BY <2>1, <1>1, <1>2, <1>4, <1>6 DEF Touches, UpdateAlias
  <2>2. CASE link[r.id] # NoLink
    <3>1. r.id \in LinkIds /\ r.id \in LinksRead(c) /\ r.id \in Used /\ link[r.id] \in Link
      BY <2>2, <1>1, <1>3, <1>6 DEF UpdateAlias, LinksRead, Used
    <3>2. link' = [link EXCEPT ![r.id] = Changed(r, LeftOut)]
      BY <2>2, <1>6 DEF UpdateAlias
    <3>3. Changed(r, LeftOut) \in Link /\ Changed(r, LeftOut).robot = link[r.id].robot
      BY <3>1, <1>0, ChangedIs
    <3>. QED  BY <3>1, <3>2, <3>3, <1>1, <1>2, <1>4 DEF Touches
  <2>. QED  BY <2>1, <2>2
<1>7. CASE Update(c)
  <2>1. CASE link' = link
    BY <2>1, <1>1, <1>2, <1>4 DEF Touches
  <2>2. CASE link' # link
    <3>1. r.id \in Used /\ link' = [link EXCEPT ![r.id] = Changed(r, r.secret)]
      BY <2>2, <1>7 DEF Update
    <3>2. r.id \in LinkIds /\ r.id \in LinksRead(c) /\ link[r.id] \in Link
      BY <3>1, <1>0, UsedIs DEF LinksRead
    <3>3. Changed(r, r.secret) \in Link /\ Changed(r, r.secret).robot = link[r.id].robot
      BY <3>2, <1>0, ChangedIs DEF Req
    <3>. QED  BY <3>1, <3>2, <3>3, <1>1, <1>2, <1>4 DEF Touches
  <2>. QED  BY <2>1, <2>2
<1>8. CASE Merge(c)
  <2>1. CASE link' = link
    BY <2>1, <1>1, <1>2, <1>4 DEF Touches
  <2>2. CASE link' # link
    <3>. DEFINE o == r.other
    <3>1. r.op = "update" /\ o \in LinkIds /\ o \in LinksRead(c)
      BY <1>3, <1>8 DEF Merge, LinksRead
    <3>2. r.id \in LinkIds /\ r.id \in LinksRead(c)
      BY <3>1, <1>0, <1>2, <1>3 DEF Fits, LinksRead
    <3>3. PICK stays : /\ link' = [link EXCEPT ![o] = stays, ![r.id] = NoLink]
                       /\ \/ stays = link[o]
                          \/ /\ o \in Used /\ r.alias # LeftOut
                             /\ stays = [link[o] EXCEPT !.alias = r.alias]
      BY <2>2, <1>8, <3>1 DEF Merge, RowOf
    <3>4. stays = link[o] \/ (o \in Used /\ stays \in Link /\ stays.robot = link[o].robot)
      <4>1. r.alias \in Aliases \cup {LeftOut}
        BY <1>0 DEF Req
      <4>. QED  BY <3>3, <4>1, <1>0, UsedIs DEF Link
    <3>5. stays \in Link \cup {NoLink}
      BY <3>4, <3>1, <1>1
    <3>. HIDE DEF o
    <3>6. link' \in [LinkIds -> Link \cup {NoLink}]
      BY <3>1, <3>2, <3>3, <3>5, <1>1
    <3>7. \A l \in LinkIds : link'[l] = IF l = r.id THEN NoLink ELSE IF l = o THEN stays ELSE link[l]
      BY <3>1, <3>2, <3>3, <1>1
    <3>. QED  BY <3>1, <3>2, <3>4, <3>6, <3>7, <1>2, <1>4 DEF Touches
  <2>. QED  BY <2>1, <2>2
<1>9. CASE Detach(c)
  <2>1. r.id \in LinkIds /\ r.id \in LinksRead(c)
    BY <1>0, <1>2, <1>3, <1>9 DEF Detach, Fits, LinksRead
  <2>2. link' = [link EXCEPT ![r.id] = NoLink]
    BY <1>9 DEF Detach
  <2>. QED  BY <2>1, <2>2, <1>1, <1>2, <1>4 DEF Touches
<1>. QED  BY <1>5, <1>6, <1>7, <1>8, <1>9 DEF WriteOf

LEMMA FitsTyped ==
  \A r \in Req : Fits(r) => /\ r.op \in {"idle", "attach", "update", "detach"}
                            /\ {r.id, r.other} \subseteq LinkIds \cup {0}
                            /\ r.op # "idle" => r.robot \in RobotIds
BY DEF Req, Fits, Idle

\* What a write leaves of the other variables.
LEMMA WriteLeaves ==
  ASSUME LinksShape, NEW c \in Callers, NEW gone, Write(c, gone), Touches(c)
  PROVE  /\ robots' = robots /\ calls' = calls /\ deletions' = deletions
         /\ req' = [req EXCEPT ![c] = Idle]
         /\ served' \subseteq RobotIds \X Nicknames
         /\ overlapped' = (overlapped \/ \E d \in Callers \ {c} : LinksRead(c) \cap LinksRead(d) # {})
<1>1. req[c] \in Req /\ Fits(req[c]) /\ req[c] # Idle
  BY DEF LinksShape, RequestsFit, Touches
<1>2. req[c].robot \in RobotIds
  BY <1>1 DEF Fits
<1>3. served \subseteq RobotIds \X Nicknames
  BY DEF LinksShape, LinksTypeOK
<1>4. served' \subseteq RobotIds \X Nicknames
  BY <1>2, <1>3 DEF Write
<1>. QED  BY <1>4 DEF Write

LEMMA ShapeInit == LinksInit => LinksShape
<1>. SUFFICES ASSUME LinksInit PROVE LinksShape
  OBVIOUS
<1>1. RequestsFit
  BY IdleFits DEF LinksInit, RequestsFit
<1>2. LinksTypeOK
  <2>1. \A c \in Callers : req[c] = Idle
    BY DEF LinksInit
  <2>2. link \in [LinkIds -> Link \cup {NoLink}]
    BY DEF LinksInit
  <2>3. \A c \in Callers : /\ req[c].op \in {"idle", "attach", "update", "detach"}
                           /\ {req[c].id, req[c].other} \subseteq LinkIds \cup {0}
                           /\ req[c].op # "idle" => req[c].robot \in RobotIds
    <3>1. \A c \in Callers : req[c] \in Req /\ Fits(req[c])
      BY <2>1, IdleFits
    <3>. QED  BY <3>1, FitsTyped
  <2>4. robots \subseteq RobotIds /\ served \subseteq RobotIds \X Nicknames
    BY DEF LinksInit
  <2>5. {merged, overlapped} \subseteq BOOLEAN
    BY DEF LinksInit
  <2>6. {calls, deletions} \subseteq Nat
    BY DEF LinksInit
  <2>. QED  BY <2>2, <2>3, <2>4, <2>5, <2>6 DEF LinksTypeOK
<1>. QED  BY <1>1, <1>2 DEF LinksShape

LEMMA ShapeStep == LinksShape /\ [LinksNext]_linkVars => LinksShape'
<1>. SUFFICES ASSUME LinksShape, [LinksNext]_linkVars PROVE LinksShape'
  OBVIOUS
<1>. USE DEF LinksShape
<1>0. ASSUME RequestsFit',
             robots' \subseteq RobotIds, link' \in [LinkIds -> Link \cup {NoLink}],
             served' \subseteq RobotIds \X Nicknames,
             {merged', overlapped'} \subseteq BOOLEAN, {calls', deletions'} \subseteq Nat
      PROVE  LinksShape'
  <2>1. \A c \in Callers : req'[c] \in Req /\ Fits(req'[c])
    BY <1>0 DEF RequestsFit
  <2>. QED  BY <1>0, <2>1, FitsTyped DEF LinksTypeOK
<1>1. CASE UNCHANGED linkVars
  BY <1>1 DEF linkVars, LinksTypeOK, RequestsFit
<1>2. CASE CreateRobot
  <2>1. RequestsFit'
    BY <1>2 DEF CreateRobot, RequestsFit
  <2>. QED  BY <1>0, <1>2, <2>1 DEF CreateRobot, LinksTypeOK
<1>3. CASE DeleteRobot
  <2>1. RequestsFit'
    BY <1>3 DEF DeleteRobot, Removes, RequestsFit
  <2>2. link' \in [LinkIds -> Link \cup {NoLink}]
    BY <1>3 DEF DeleteRobot, LinksTypeOK
  <2>3. deletions' \in Nat /\ calls' \in Nat /\ overlapped' \in BOOLEAN /\ merged' \in BOOLEAN
    BY <1>3 DEF DeleteRobot, Removes, LinksTypeOK
  <2>4. robots' \subseteq RobotIds /\ served' \subseteq RobotIds \X Nicknames
    BY <1>3 DEF DeleteRobot, Removes, LinksTypeOK
  <2>. QED  BY <1>0, <2>1, <2>2, <2>3, <2>4
<1>4. ASSUME NEW c \in Callers, ReadForAttach(c) \/ ReadForUpdate(c) \/ ReadForDetach(c)
      PROVE  LinksShape'
  <2>1. PICK r \in Req : Starts(c, r) /\ Fits(r)
    BY <1>4, StartsWith
  <2>2. RequestsFit'
    BY <2>1 DEF Starts, RequestsFit
  <2>3. calls' \in Nat
    BY <2>1 DEF Starts, LinksTypeOK
  <2>. QED  BY <1>0, <2>1, <2>2, <2>3 DEF Starts, LinksTypeOK
<1>5. ASSUME NEW c \in Callers, WriteOf(c)
      PROVE  LinksShape'
  <2>1. PICK gone : Touches(c) /\ Write(c, gone)
    BY <1>5, Written
  <2>2. /\ robots' = robots /\ calls' = calls /\ deletions' = deletions
        /\ req' = [req EXCEPT ![c] = Idle]
        /\ served' \subseteq RobotIds \X Nicknames
        /\ overlapped' \in BOOLEAN
    BY <2>1, WriteLeaves DEF LinksTypeOK
  <2>3. RequestsFit'
    BY <2>2, IdleFits DEF RequestsFit
  <2>4. merged' \in BOOLEAN
    BY <1>5 DEF WriteOf, Insert, UpdateAlias, Update, Merge, Detach, LinksTypeOK
  <2>. QED  BY <1>0, <2>1, <2>2, <2>3, <2>4 DEF Touches, LinksTypeOK
<1>. QED  BY <1>1, <1>2, <1>3, <1>4, <1>5 DEF LinksNext

\* What a request read stays there while nobody meets it.
LEMMA CurrentStep == LinksShape /\ RowsCurrent /\ [LinksNext]_linkVars => RowsCurrent'
<1>. SUFFICES ASSUME LinksShape, RowsCurrent, [LinksNext]_linkVars, ~overlapped',
                     NEW d \in Callers, req'[d] # Idle
              PROVE  Holds(req[d])'
  BY DEF RowsCurrent, Holds
<1>0. req \in [Callers -> Req] /\ LinksTypeOK /\ link \in [LinkIds -> Link \cup {NoLink}]
  BY DEF LinksShape, RequestsFit, LinksTypeOK
<1>1. CASE UNCHANGED linkVars
  BY <1>1 DEF linkVars, RowsCurrent, Holds
<1>2. CASE CreateRobot
  BY <1>2 DEF CreateRobot, RowsCurrent, Holds
<1>3. CASE DeleteRobot
  <2>1. PICK b \in robots : /\ Removes(b)
                            /\ link' = [l \in LinkIds |-> IF l \in LinksOf(b) THEN NoLink ELSE link[l]]
    BY <1>3 DEF DeleteRobot
  <2>2. ~overlapped /\ req' = req /\ req[d].robot # b /\ robots' = robots \ {b}
    BY <2>1 DEF Removes
  <2>3. Holds(req[d]) /\ Fits(req[d]) /\ req[d] \in Req
    BY <2>2 DEF RowsCurrent, LinksShape, RequestsFit
  <2>4. \A l \in LinkIds : link[l].robot # b => link'[l] = link[l]
    BY <2>1 DEF LinksOf
  <2>5. req[d].id # 0 => req[d].id \in LinkIds /\ req[d].row.robot = req[d].robot
    BY <2>2, <2>3 DEF Fits, Req
  <2>6. req[d].other # 0 => req[d].other \in LinkIds
    BY <2>3 DEF Req
  <2>. QED  BY <2>2, <2>3, <2>4, <2>5, <2>6 DEF Holds
<1>4. ASSUME NEW c \in Callers, ReadForAttach(c) \/ ReadForUpdate(c) \/ ReadForDetach(c)
      PROVE  Holds(req[d])'
  <2>1. PICK r \in Req : Starts(c, r) /\ Holds(r)
    BY <1>4, StartsWith
  <2>2. link' = link /\ robots' = robots /\ ~overlapped
        /\ req'[d] = IF d = c THEN r ELSE req[d]
    BY <2>1, <1>0 DEF Starts
  <2>. QED  BY <2>1, <2>2 DEF Holds, RowsCurrent
<1>5. ASSUME NEW c \in Callers, WriteOf(c)
      PROVE  Holds(req[d])'
  <2>1. PICK gone : Touches(c) /\ Write(c, gone)
    BY <1>5, Written
  <2>2. /\ robots' = robots /\ req' = [req EXCEPT ![c] = Idle]
        /\ overlapped' = (overlapped \/ \E e \in Callers \ {c} : LinksRead(c) \cap LinksRead(e) # {})
    BY <2>1, WriteLeaves
  <2>3. d # c /\ req'[d] = req[d] /\ ~overlapped
    BY <2>2, <1>0
  <2>4. LinksRead(c) \cap LinksRead(d) = {}
    BY <2>2, <2>3
  <2>5. Holds(req[d]) /\ Fits(req[d]) /\ req[d] \in Req /\ req[d] # Idle
    BY <2>3 DEF RowsCurrent, LinksShape, RequestsFit
  <2>6. \A l \in LinksRead(d) : l \in LinkIds /\ link[l] \in Link
    BY <2>5 DEF LinksRead, Holds, Fits, Req
  <2>7. \A l \in LinksRead(d) : link'[l] = link[l]
    BY <2>1, <2>4, <2>6, <1>0, UsedIs DEF Touches
  <2>8. \A l \in {req[d].id, req[d].other} : l # 0 => link'[l] = link[l]
    BY <2>7 DEF LinksRead
  <2>. QED  BY <2>2, <2>3, <2>5, <2>8 DEF Holds
<1>. QED  BY <1>1, <1>2, <1>3, <1>4, <1>5 DEF LinksNext

\* A write of c that meets nobody leaves links of robots that exist.
LEMMA InheritStep ==
  LinksShape /\ LinksShape' /\ RowsCurrent /\ NoInheritedLinks /\ [LinksNext]_linkVars
    => NoInheritedLinks'
<1>. SUFFICES ASSUME LinksShape, LinksShape', RowsCurrent, NoInheritedLinks, [LinksNext]_linkVars,
                     ~overlapped', NEW l \in LinkIds, link'[l] # NoLink
              PROVE  link'[l].robot \in robots'
  BY DEF NoInheritedLinks, Used
<1>0. link \in [LinkIds -> Link \cup {NoLink}] /\ LinksTypeOK
  BY DEF LinksShape, LinksTypeOK
<1>1. CASE UNCHANGED linkVars
  BY <1>1 DEF linkVars, NoInheritedLinks, Used
<1>2. CASE CreateRobot
  BY <1>2 DEF CreateRobot, NoInheritedLinks, Used
<1>3. CASE DeleteRobot
  <2>1. PICK b \in robots : /\ Removes(b)
                            /\ link' = [k \in LinkIds |-> IF k \in LinksOf(b) THEN NoLink ELSE link[k]]
    BY <1>3 DEF DeleteRobot
  <2>2. ~overlapped /\ robots' = robots \ {b}
    BY <2>1 DEF Removes
  <2>3. l \notin LinksOf(b) /\ link'[l] = link[l]
    BY <2>1
  <2>. QED  BY <2>2, <2>3 DEF NoInheritedLinks, Used, LinksOf
<1>4. ASSUME NEW c \in Callers, ReadForAttach(c) \/ ReadForUpdate(c) \/ ReadForDetach(c)
      PROVE  link'[l].robot \in robots'
  <2>1. PICK r : Starts(c, r)
    BY <1>4, StartsWith
  <2>. QED  BY <2>1 DEF Starts, NoInheritedLinks, Used
<1>5. ASSUME NEW c \in Callers, WriteOf(c)
      PROVE  link'[l].robot \in robots'
  <2>1. PICK gone : Touches(c) /\ Write(c, gone)
    BY <1>5, Written
  <2>2. robots' = robots /\ ~overlapped
    BY <2>1, WriteLeaves
  <2>3. req[c].robot \in robots
    BY <2>1, <2>2 DEF RowsCurrent, Holds, Touches
  <2>4. \/ link'[l] = link[l]
        \/ l \in Used /\ link'[l].robot = link[l].robot
        \/ link'[l].robot = req[c].robot
    BY <2>1 DEF Touches
  <2>. QED  BY <2>2, <2>3, <2>4 DEF NoInheritedLinks, Used
<1>. QED  BY <1>1, <1>2, <1>3, <1>4, <1>5 DEF LinksNext

(***************************************************************************)
(* Nicknames.                                                              *)
(***************************************************************************)
\* A link of robot p[1] goes by the nickname p[2].
Named(p) == \E l \in LinkIds : link[l] \in Link /\ link[l].robot = p[1] /\ link[l].alias = p[2]

LEMMA ServedIsNamed ==
  LinksTypeOK => (NicknameServed <=> (~merged /\ ~overlapped => \A p \in served : Named(p)))
BY UsedIs DEF NicknameServed, Named, LinksOf

\* An UPDATE of the link a request has read: the nickname it had is taken
\* away or stays, and the one it gets is served.
LEMMA RenameServes ==
  ASSUME LinksShape, RowsCurrent, ~overlapped, NEW c \in Callers, req[c] # Idle,
         \A p \in served : Named(p),
         Write(c, Replaced(req[c])), req[c].id # 0,
         NEW s \in Secrets \cup {LeftOut},
         link' = link \/ link' = [link EXCEPT ![req[c].id] = Changed(req[c], s)]
  PROVE  \A p \in served' : Named(p)'
<1>. DEFINE r == req[c]
            N == Changed(r, s)
<1>. USE LinkFacts
<1>1. r \in Req /\ Fits(r) /\ Holds(r) /\ LinksTypeOK
  BY DEF LinksShape, RequestsFit, RowsCurrent
<1>2. link \in [LinkIds -> Link \cup {NoLink}] /\ served \subseteq RobotIds \X Nicknames
  BY <1>1 DEF LinksTypeOK
<1>3. r.id \in LinkIds /\ link[r.id] = r.row /\ r.row \in Link /\ r.row.robot = r.robot
  BY <1>1 DEF Req, Fits, Holds
<1>4. /\ N \in Link /\ N.robot = r.robot
      /\ N.alias = IF r.alias \in {LeftOut, r.row.alias} THEN r.row.alias ELSE r.alias
  BY <1>1, <1>3, ChangedIs
<1>. HIDE DEF N
<1>5. SUFFICES ASSUME NEW p \in served' PROVE Named(p)'
  OBVIOUS
<1>6. CASE link' = link
  <2>1. p \in served
    BY <1>6 DEF Write
  <2>2. Named(p)
    BY <2>1
  <2>. QED  BY <1>6, <2>2 DEF Named
<1>7. CASE link' # link
  <2>1. link' = [link EXCEPT ![r.id] = N]
    BY <1>7 DEF N
  <2>2. link'[r.id] = N /\ \A l \in LinkIds \ {r.id} : link'[l] = link[l]
    BY <1>2, <1>3, <2>1
  <2>3. CASE p \in served
    <3>1. PICK l \in LinkIds : link[l] \in Link /\ link[l].robot = p[1] /\ link[l].alias = p[2]
      BY <2>3 DEF Named
    <3>2. CASE l # r.id
      BY <2>2, <3>1, <3>2 DEF Named
    <3>3. CASE l = r.id
      <4>1. p = <<r.robot, r.row.alias>>
        BY <1>2, <1>3, <2>3, <3>1, <3>3
      <4>2. CASE r.alias = LeftOut
        BY <1>3, <1>4, <2>2, <4>1, <4>2 DEF Named
      <4>3. CASE r.alias # LeftOut
        <5>1. p \notin served \ {<<r.robot, a>> : a \in Replaced(r)}
          BY <4>1, <4>3 DEF Replaced
        <5>2. p = <<r.robot, r.alias>>
          BY <5>1 DEF Write
        <5>3. r.alias = r.row.alias
          BY <4>1, <5>2
        <5>. QED  BY <1>3, <1>4, <2>2, <5>2, <5>3 DEF Named
      <4>. QED  BY <4>2, <4>3
    <3>. QED  BY <3>2, <3>3
  <2>4. CASE p \notin served
    <3>1. p = <<r.robot, r.alias>> /\ r.alias \in Nicknames
      BY <2>4 DEF Write
    <3>2. r.alias # LeftOut
      BY <3>1 DEF Names
    <3>3. N.alias = r.alias
      BY <1>4, <3>2
    <3>. QED  BY <1>3, <1>4, <2>2, <3>1, <3>3 DEF Named
  <2>. QED  BY <2>3, <2>4
<1>. QED  BY <1>6, <1>7

LEMMA WriteServes ==
  ASSUME LinksShape, RowsCurrent, ~overlapped, ~merged', NEW c \in Callers, WriteOf(c),
         \A p \in served : Named(p)
  PROVE  \A p \in served' : Named(p)'
<1>. DEFINE r == req[c]
<1>. USE LinkFacts
<1>0. r # Idle
  BY DEF WriteOf, Insert, UpdateAlias, Update, Merge, Detach, Idle
<1>1. r \in Req /\ Fits(r) /\ Holds(r) /\ LinksTypeOK
  BY DEF LinksShape, RequestsFit, RowsCurrent
<1>2. link \in [LinkIds -> Link \cup {NoLink}] /\ served \subseteq RobotIds \X Nicknames
  BY <1>1 DEF LinksTypeOK
<1>3. CASE Insert(c)
  <2>. DEFINE new == [robot |-> r.robot, secret |-> r.secret, alias |-> r.alias]
  <2>1. new \in Link /\ new.robot = r.robot /\ new.alias = r.alias
    BY <1>0, <1>1, <1>3 DEF Insert, Fits, Link
  <2>2. PICK l \in LinkIds : NewId(l, Used) /\ (link' = [link EXCEPT ![l] = new] \/ link' = link)
    BY <1>3 DEF Insert
  <2>3. l \notin Used
    BY <2>2 DEF NewId
  <2>. HIDE DEF new
  <2>4. SUFFICES ASSUME NEW p \in served' PROVE Named(p)'
    OBVIOUS
  <2>5. Write(c, {})
    BY <1>3 DEF Insert
  <2>6. CASE p \in served
    <3>1. PICK k \in LinkIds : link[k] \in Link /\ link[k].robot = p[1] /\ link[k].alias = p[2]
      BY <2>6 DEF Named
    <3>2. k \in Used /\ k # l
      BY <3>1, <2>3 DEF Used
    <3>3. link'[k] = link[k]
      BY <2>2, <3>2, <1>2
    <3>. QED  BY <3>1, <3>3 DEF Named
  <2>7. CASE p \notin served
    <3>1. p = <<r.robot, r.alias>> /\ link' # link
      BY <2>5, <2>7 DEF Write
    <3>2. link'[l] = new
      BY <2>2, <3>1, <1>2
    <3>. QED  BY <2>1, <3>1, <3>2 DEF Named
  <2>. QED  BY <2>6, <2>7
<1>4. CASE UpdateAlias(c)
  <2>1. Write(c, Replaced(r)) /\ r.id # 0
    BY <1>4 DEF UpdateAlias
  <2>2. link' = link \/ link' = [link EXCEPT ![r.id] = Changed(r, LeftOut)]
    BY <1>4 DEF UpdateAlias
  <2>. QED  BY <1>0, <2>1, <2>2, RenameServes
<1>5. CASE Update(c)
  <2>1. Write(c, Replaced(r)) /\ r.id # 0 /\ r.secret \in Secrets \cup {LeftOut}
    BY <1>0, <1>1, <1>5 DEF Update, Fits, Req
  <2>2. link' = link \/ link' = [link EXCEPT ![r.id] = Changed(r, r.secret)]
    BY <1>5 DEF Update
  <2>. QED  BY <1>0, <2>1, <2>2, RenameServes
<1>6. CASE Merge(c)
  BY <1>6 DEF Merge
<1>7. CASE Detach(c)
  <2>1. /\ r.id \in LinkIds /\ link[r.id] = r.row /\ r.row.robot = r.robot
        /\ r.alias = LeftOut
    BY <1>0, <1>1, <1>7 DEF Detach, Fits, Holds, Req
  <2>2. link' = [link EXCEPT ![r.id] = NoLink] /\ Write(c, {r.row.alias})
    BY <1>7 DEF Detach
  <2>3. SUFFICES ASSUME NEW p \in served' PROVE Named(p)'
    OBVIOUS
  <2>4. r.alias \notin Nicknames
    BY <2>1 DEF Names
  <2>5. p \in served \ {<<r.robot, a>> : a \in {r.row.alias}}
    BY <2>2, <2>4 DEF Write
  <2>6. p \in served /\ p # <<r.robot, r.row.alias>>
    BY <2>5
  <2>7. PICK k \in LinkIds : link[k] \in Link /\ link[k].robot = p[1] /\ link[k].alias = p[2]
    BY <2>6 DEF Named
  <2>8. k # r.id
    BY <2>1, <2>6, <2>7, <1>2
  <2>9. link'[k] = link[k]
    BY <2>2, <2>8, <1>2
  <2>. QED  BY <2>7, <2>9 DEF Named
<1>. QED  BY <1>3, <1>4, <1>5, <1>6, <1>7 DEF WriteOf

LEMMA NicknameStep ==
  LinksShape /\ LinksShape' /\ RowsCurrent /\ NicknameServed /\ [LinksNext]_linkVars
    => NicknameServed'
<1>. SUFFICES ASSUME LinksShape, LinksShape', RowsCurrent, NicknameServed, [LinksNext]_linkVars,
                     ~merged', ~overlapped'
              PROVE  \A p \in served' : Named(p)'
  <2>1. (LinksTypeOK => (NicknameServed <=> (~merged /\ ~overlapped => \A p \in served : Named(p))))'
    BY ServedIsNamed, PTL
  <2>. QED  BY <2>1 DEF LinksShape
<1>0. LinksTypeOK /\ (~merged /\ ~overlapped => \A p \in served : Named(p))
  BY ServedIsNamed DEF LinksShape
<1>1. CASE UNCHANGED linkVars
  BY <1>0, <1>1 DEF linkVars, Named
<1>2. CASE CreateRobot
  BY <1>0, <1>2 DEF CreateRobot, Named
<1>3. CASE DeleteRobot
  <2>1. PICK b \in robots : /\ Removes(b)
                            /\ link' = [l \in LinkIds |-> IF l \in LinksOf(b) THEN NoLink ELSE link[l]]
    BY <1>3 DEF DeleteRobot
  <2>2. ~overlapped /\ ~merged /\ served' = {p \in served : p[1] # b}
    BY <2>1 DEF Removes
  <2>3. \A l \in LinkIds : link[l].robot # b => link'[l] = link[l]
    BY <2>1 DEF LinksOf
  <2>. QED  BY <1>0, <2>2, <2>3 DEF Named
<1>4. ASSUME NEW c \in Callers, ReadForAttach(c) \/ ReadForUpdate(c) \/ ReadForDetach(c)
      PROVE  \A p \in served' : Named(p)'
  <2>1. PICK r : Starts(c, r)
    BY <1>4, StartsWith
  <2>. QED  BY <1>0, <2>1 DEF Starts, Named
<1>5. ASSUME NEW c \in Callers, WriteOf(c)
      PROVE  \A p \in served' : Named(p)'
  <2>1. ~overlapped
    BY <1>5, Written, WriteLeaves
  <2>2. ~merged
    BY <1>5 DEF WriteOf, Insert, UpdateAlias, Update, Merge, Detach
  <2>. QED  BY <1>0, <1>5, <2>1, <2>2, WriteServes
<1>. QED  BY <1>1, <1>2, <1>3, <1>4, <1>5 DEF LinksNext

(***************************************************************************)
(* The theorems.                                                           *)
(***************************************************************************)
LinksInv == LinksShape /\ RowsCurrent /\ NoInheritedLinks /\ NicknameServed

LEMMA LinksInvariant == LinksSpec => []LinksInv
<1>1. LinksInit => LinksInv
  <2>. SUFFICES ASSUME LinksInit PROVE LinksInv
    OBVIOUS
  <2>1. LinksShape
    BY ShapeInit
  <2>2. RowsCurrent
    BY DEF LinksInit, RowsCurrent, Holds
  <2>3. NoInheritedLinks
    BY DEF LinksInit, NoInheritedLinks, Used
  <2>4. NicknameServed
    BY DEF LinksInit, NicknameServed
  <2>. QED  BY <2>1, <2>2, <2>3, <2>4 DEF LinksInv
<1>2. LinksInv /\ [LinksNext]_linkVars => LinksInv'
  BY ShapeStep, CurrentStep, InheritStep, NicknameStep DEF LinksInv
<1>. QED  BY <1>1, <1>2, PTL DEF LinksSpec

\* No link outlives its robot, so that a robot created later, with the id of
\* a deleted one, inherits no credential (delete_robot removes the links,
\* repositories.py), for any number of robots, links and requests at once.
THEOREM NoLinkWithoutRobot == LinksSpec => []LinksHaveRobots
<1>1. LinksInv => LinksHaveRobots
  BY DEF LinksInv, LinksShape, LinksHaveRobots
<1>. QED  BY <1>1, LinksInvariant, PTL

\* The nickname a workflow uses keeps naming a credential of its robot while
\* credentials are attached, exchanged and detached by requests that do not
\* meet (update_robot_secret keeps the alias a payload leaves out).
THEOREM NicknamesStay == LinksSpec => []NicknameServed
<1>. QED  BY LinksInvariant, PTL DEF LinksInv

\* A request changes links of the robot in its path and of no other
\* (update_robot_secret and detach_robot_secret compare the link they read
\* with the robot, and write it by its id later).
THEOREM LinksStayOwn == LinksSpec => OwnLinksOnly
<1>1. LinksInv /\ [LinksNext]_linkVars =>
        [\A c \in Callers : req[c] # Idle /\ req'[c] = Idle =>
           \A l \in LinkIds : link'[l] # link[l] =>
             overlapped \/ req[c].robot \in {link[l].robot, link'[l].robot}]_linkVars
  <2>. SUFFICES ASSUME LinksInv, [LinksNext]_linkVars, ~UNCHANGED linkVars, ~overlapped,
                       NEW c \in Callers, req[c] # Idle, req'[c] = Idle,
                       NEW l \in LinkIds, link'[l] # link[l]
                PROVE  req[c].robot \in {link[l].robot, link'[l].robot}
    OBVIOUS
  <2>0. LinksShape /\ Holds(req[c]) /\ req \in [Callers -> Req]
    BY DEF LinksInv, LinksShape, RowsCurrent, RequestsFit
  <2>1. PICK d \in Callers : WriteOf(d)
    <3>1. ~CreateRobot /\ ~DeleteRobot
      BY DEF CreateRobot, DeleteRobot, Removes
    <3>2. ASSUME NEW d \in Callers, ReadForAttach(d) \/ ReadForUpdate(d) \/ ReadForDetach(d)
          PROVE  FALSE
      <4>1. PICK r : Starts(d, r)
        BY <2>0, <3>2, StartsWith
      <4>. QED  BY <4>1 DEF Starts
    <3>. QED  BY <3>1, <3>2 DEF LinksNext
  <2>2. PICK gone : Touches(d) /\ Write(d, gone)
    BY <2>0, <2>1, Written
  <2>3. d = c
    BY <2>0, <2>2 DEF Write
  <2>4. \A k \in LinksRead(c) \cap Used : link[k].robot = req[c].robot
    BY <2>0 DEF LinksInv, LinksShape, RequestsFit, LinksRead, Holds, Fits
  <2>5. l \in LinksRead(c) => l \in Used
    BY <2>0, UsedIs DEF LinksInv, LinksShape, RequestsFit, LinksRead, Holds, Fits
  <2>. QED  BY <2>2, <2>3, <2>4, <2>5 DEF Touches
<1>. QED  BY <1>1, LinksInvariant, PTL DEF LinksSpec, OwnLinksOnly

\* The readiness check and the resolver of an attempt agree on every name of
\* every robot, whichever of several links the resolver takes
\* (_missing_secrets in readiness.py, _secret_resolver_for in service.py).
THEOREM PanelAgrees == LinksSpec => []ReadinessAgrees
<1>1. LinksInv => ReadinessAgrees
  <2>. SUFFICES ASSUME LinksTypeOK, NEW b \in robots, NEW n \in Names, NEW s \in Resolved(b, n)
                PROVE  IF Missing(b, n) THEN ~CanResolve(s) ELSE s \in Secrets
    BY DEF LinksInv, LinksShape, ReadinessAgrees
  <2>1. CASE \A l \in LinksOf(b) : n \notin {link[l].alias, link[l].secret}
    <3>1. s = n
      BY <2>1 DEF Resolved, LinkTo
    <3>. QED  BY <2>1, <3>1 DEF Missing, CanResolve
  <2>2. CASE \E l \in LinksOf(b) : n \in {link[l].alias, link[l].secret}
    <3>1. \/ s \in {link[l].secret : l \in {k \in LinksOf(b) : link[k].alias = n}}
          \/ s \in {t \in {n} : LinkTo(b, t) # {}}
      BY <2>2 DEF Resolved, LinkTo
    <3>2. \E l \in LinksOf(b) : s = link[l].secret
      BY <3>1 DEF LinkTo
    <3>3. s \in Secrets
      BY <3>2, UsedIs, LinkFacts DEF LinksOf
    <3>. QED  BY <2>2, <3>3 DEF Missing
  <2>. QED  BY <2>1, <2>2
<1>. QED  BY <1>1, LinksInvariant, PTL
=============================================================================
