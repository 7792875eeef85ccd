------------------------ MODULE CredentialStore_proofs ------------------------
(***************************************************************************)
(* Proofs about CredentialStore: for any number of callers, names, values, *)
(* calls and crashes.                                                      *)
(***************************************************************************)
EXTENDS CredentialStore, TLAPS

Places == {"idle", "load", "open", "write", "select", "store", "held"}

Call == [at : Places, op : Ops, name : Names \cup {NoOne}, value : Values \cup {NoOne},
         key : Nat, seen : Row \cup {NoRow}]

(***************************************************************************)
(* The inductive invariant: what a caller carries with it, ...             *)
(***************************************************************************)
CarriesName  == \A c \in Callers : ~At(c, "idle") => call[c].name \in Names
CarriesValue == \A c \in Callers : call[c].op = "save" => call[c].value \in Values
CarriesKey   ==
  \A c \in Callers :
    /\ At(c, "open") \/ At(c, "write") => ~env
    /\ call[c].at \in {"open", "write", "store", "held"} => call[c].key # NoKey
    /\ At(c, "select") /\ call[c].op # "test" => call[c].key # NoKey
    /\ At(c, "held") => call[c].seen.by = Legacy /\ call[c].op # "save"

Carries == CarriesName /\ CarriesValue /\ CarriesKey

\* ... that a store once built has the key a caller would load now, ...
KeysAgree ==
  ~forked => \A c \in Callers :
               At(c, "select") \/ At(c, "store") \/ At(c, "held") =>
                 call[c].key \in {NoKey, KeyInUse}

\* ... and that the legacy encoding is nowhere but where it was at first, with
\* the value it had there.  A use that has read it still finds that value
\* saved, or the save that replaced it came while the use was under way.
SeenOld(c) ==
  LET n == call[c].name
  IN call[c].seen.by = Legacy =>
       /\ call[c].seen.value = old[n]
       /\ call[c].op \notin {"save", "panel"} => saved[n] = old[n] \/ n \in raced

RowsOld == \A n \in Names : row[n].by = Legacy => row[n].value = old[n] /\ saved[n] = old[n]

LegacyIsOld == RowsOld /\ \A c \in Callers : SeenOld(c)

(***************************************************************************)
(* Types.                                                                  *)
(***************************************************************************)
LEMMA FreeTyped == Free \in Call /\ Free.at = "idle" /\ Free.op = "list" /\ Free.seen = NoRow
                   /\ Free.key = NoKey /\ NoRow.by = 0 /\ NoRow.value = NoOne /\ NoRow \notin Row
                   /\ Free.name = NoOne
BY StoreAssumption DEF Free, Call, Places, Ops, NoRow, NoKey, Row, Legacy

LEMMA InitType == Init => TypeOK /\ Carries
<1>. SUFFICES ASSUME Init PROVE TypeOK /\ Carries
  OBVIOUS
<1>1. row \in [Names -> Row \cup {NoRow}]
  BY DEF Init, Row, EnvKey
<1>2. \A n \in Names : row[n].value \in Values \cup {NoOne}
  BY <1>1, FreeTyped DEF Row
<1>3. saved \in [Names -> Values \cup {NoOne}]
  BY <1>2 DEF Init
<1>4. call \in [Callers -> Call] /\ \A c \in Callers : call[c] = Free
  BY FreeTyped DEF Init
<1>5. env \in BOOLEAN /\ file \in Nat /\ made \in Nat \ {0} /\ lock = NoOne
  BY DEF Init, Missing, EnvKey
<1>6. /\ forked = FALSE /\ cut = FALSE /\ calls \in Nat /\ crashes \in Nat
      /\ old \in [Names -> Values \cup {NoOne}] /\ raced \subseteq Names
  BY <1>2 DEF Init
<1>7. TypeOK
  BY <1>1, <1>3, <1>4, <1>5, <1>6, FreeTyped DEF TypeOK, At, Call, Places
<1>8. Carries
  BY <1>4, FreeTyped DEF Carries, CarriesName, CarriesValue, CarriesKey, At
<1>. QED  BY <1>7, <1>8

\* The caller whose step it is; the others stay as they are.
LEMMA EndsTyped ==
  ASSUME TypeOK, NEW c \in Callers, Ends(c)
  PROVE  /\ call' \in [Callers -> Call] /\ lock' \in Callers \cup {NoOne}
         /\ call'[c] = Free /\ \A d \in Callers \ {c} : call'[d] = call[d]
         /\ \A d \in Callers : call'[d].at = "held" => lock' = d
BY FreeTyped DEF Ends, TypeOK, Call, Places, At

LEMMA BuiltTyped ==
  ASSUME TypeOK, NEW c \in Callers, NEW k \in Nat \ {0}, StoreBuilt(c, k), call[c].op # "list"
  PROVE  /\ call' \in [Callers -> Call] /\ lock' = lock
         /\ call'[c].op = call[c].op /\ call'[c].name = call[c].name
         /\ call'[c].value = call[c].value /\ call'[c].seen = call[c].seen
         /\ call'[c].key = k
         /\ call'[c].at = (IF call[c].op = "test" THEN "store" ELSE "select")
         /\ \A d \in Callers \ {c} : call'[d] = call[d]
<1>. DEFINE at == IF call[c].op = "test" THEN "store" ELSE "select"
<1>0. at \in Places
  BY DEF Places
<1>1. call' = [call EXCEPT ![c].key = k, ![c].at = at] /\ lock' = lock
  BY DEF StoreBuilt
<1>2. call \in [Callers -> Call]
  BY DEF TypeOK, Call, Places
<1>. HIDE DEF at
<1>3. call' \in [Callers -> Call]
  BY <1>0, <1>1, <1>2 DEF Call
<1>4. call'[c] = [call[c] EXCEPT !.key = k, !.at = at]
  BY <1>1, <1>2
<1>5. /\ call'[c].op = call[c].op /\ call'[c].name = call[c].name
      /\ call'[c].value = call[c].value /\ call'[c].seen = call[c].seen
      /\ call'[c].key = k /\ call'[c].at = at
  BY <1>2, <1>4 DEF Call
<1>6. \A d \in Callers \ {c} : call'[d] = call[d]
  BY <1>1, <1>2
<1>. QED  BY <1>1, <1>3, <1>5, <1>6 DEF at

LEMMA GoesToTyped ==
  ASSUME TypeOK, NEW c \in Callers, NEW place \in Places, GoesTo(c, place)
  PROVE  /\ call' \in [Callers -> Call]
         /\ call'[c].op = call[c].op /\ call'[c].name = call[c].name
         /\ call'[c].value = call[c].value /\ call'[c].seen = call[c].seen
         /\ call'[c].key = call[c].key /\ call'[c].at = place
         /\ \A d \in Callers \ {c} : call'[d] = call[d]
BY DEF GoesTo, TypeOK, Call, Places

(***************************************************************************)
(* What a step of one caller leaves to be shown.                           *)
(***************************************************************************)
OthersStay(c) == \A d \in Callers \ {c} : call'[d] = call[d]

CarriesAt(c) ==
  /\ call[c].at # "idle" => call[c].name \in Names
  /\ call[c].op = "save" => call[c].value \in Values
  /\ call[c].at \in {"open", "write"} => ~env
  /\ call[c].at \in {"open", "write", "store", "held"} => call[c].key # NoKey
  /\ call[c].at = "select" /\ call[c].op # "test" => call[c].key # NoKey
  /\ call[c].at = "held" => call[c].seen.by = Legacy /\ call[c].op # "save"

LEMMA CarriesOfEach == Carries <=> \A c \in Callers : CarriesAt(c)
BY DEF Carries, CarriesName, CarriesValue, CarriesKey, CarriesAt, At

LEMMA AllCarry ==
  ASSUME \A c \in Callers : CarriesAt(c)'
  PROVE  Carries'
BY DEF Carries, CarriesName, CarriesValue, CarriesKey, CarriesAt, At

LEMMA OneCarries ==
  ASSUME Carries, NEW c \in Callers, OthersStay(c), env' = env, CarriesAt(c)'
  PROVE  Carries'
<1>1. \A d \in Callers : CarriesAt(d)
  BY CarriesOfEach
<1>2. \A d \in Callers \ {c} : CarriesAt(d)'
  BY <1>1 DEF OthersStay, CarriesAt
<1>3. \A d \in Callers : CarriesAt(d)'
  BY <1>2
<1>. QED  BY <1>3, AllCarry

LEMMA EndsCarries ==
  ASSUME TypeOK, Carries, NEW c \in Callers, Ends(c), env' = env
  PROVE  Carries'
<1>1. OthersStay(c) /\ call'[c] = Free
  BY EndsTyped DEF OthersStay
<1>2. CarriesAt(c)'
  BY <1>1, FreeTyped DEF CarriesAt, NoRow, Legacy
<1>. QED  BY <1>1, <1>2, OneCarries

LEMMA KeyTyped ==
  ASSUME TypeOK PROVE KeyInUse \in Nat \cup {Empty}
BY DEF TypeOK, KeyInUse, EnvKey

\* Building the store, from a key that is one.
LEMMA BuiltCarries ==
  ASSUME TypeOK, Carries, NEW c \in Callers, NEW k \in Nat \ {0}, StoreBuilt(c, k), env' = env,
         At(c, "load") \/ At(c, "write")
  PROVE  /\ Carries' /\ call' \in [Callers -> Call] /\ lock' \in Callers \cup {NoOne}
         /\ \A d \in Callers : call'[d].at = "held" => lock' = d
         /\ OthersStay(c)
         /\ \/ call'[c] = Free
            \/ /\ call'[c].at \in {"store", "select"} /\ call'[c].key = k
               /\ call'[c].name = call[c].name /\ call'[c].seen = call[c].seen
               /\ call'[c].op = call[c].op
<1>1. CASE call[c].op = "list"
  <2>1. Ends(c)
    BY <1>1 DEF StoreBuilt
  <2>. QED  BY <2>1, EndsTyped, EndsCarries DEF OthersStay
<1>2. CASE call[c].op # "list"
  <2>1. OthersStay(c)
    BY <1>2, BuiltTyped DEF OthersStay
  <2>2. CarriesAt(c)
    BY CarriesOfEach
  <2>3. call[c].at # "idle"
    BY DEF At
  <2>4. CarriesAt(c)'
    BY <1>2, <2>2, <2>3, BuiltTyped DEF CarriesAt, NoKey
  <2>5. Carries'
    BY <2>1, <2>4, OneCarries
  <2>6. \A d \in Callers : call'[d].at = "held" => lock' = d
    BY <1>2, BuiltTyped DEF TypeOK, At
  <2>7. lock' \in Callers \cup {NoOne}
    BY <1>2, BuiltTyped DEF TypeOK
  <2>. QED  BY <1>2, <2>1, <2>5, <2>6, <2>7, BuiltTyped
<1>. QED  BY <1>1, <1>2

LEMMA StepType == TypeOK /\ Carries /\ [Next]_vars => TypeOK' /\ Carries'
<1>. SUFFICES ASSUME TypeOK, Carries, [Next]_vars PROVE TypeOK' /\ Carries'
  OBVIOUS
<1>. DEFINE Rest == /\ env' \in BOOLEAN /\ file' \in Nat \cup {Empty} /\ made' \in Nat \ {0}
                    /\ row' \in [Names -> Row \cup {NoRow}] /\ saved' \in [Names -> Values \cup {NoOne}]
                    /\ old' \in [Names -> Values \cup {NoOne}] /\ raced' \subseteq Names
                    /\ {forked', cut'} \subseteq BOOLEAN
                    /\ {calls', crashes'} \subseteq Nat
            Typed == /\ call' \in [Callers -> Call] /\ lock' \in Callers \cup {NoOne}
                     /\ \A d \in Callers : call'[d].at = "held" => lock' = d
<1>a. Rest /\ Typed => TypeOK'
  BY DEF TypeOK, Call, Places, At
<1>b. \A d \in Callers : CarriesAt(d)
  BY CarriesOfEach
<1>c. call \in [Callers -> Call] /\ \A d \in Callers : call[d] \in Call
  BY DEF TypeOK, Call, Places
<1>d. \A d \in Callers : call[d].key \in Nat /\ call[d].seen \in Row \cup {NoRow}
  BY <1>c DEF Call
<1>e. \A d \in Callers : call[d].at = "held" => lock = d
  BY DEF TypeOK, At
<1>f. lock \in Callers \cup {NoOne} /\ NoOne \notin Callers /\ made \in Nat \ {0}
  BY StoreAssumption DEF TypeOK
<1>. HIDE DEF Rest, Typed
<1>1. CASE UNCHANGED vars
  <2>1. TypeOK'
    BY <1>1 DEF vars, TypeOK, At
  <2>2. Carries'
    BY <1>1 DEF vars, Carries, CarriesName, CarriesValue, CarriesKey, At
  <2>. QED  BY <2>1, <2>2
<1>2. CASE Crash
  <2>1. Rest
    BY <1>2 DEF Crash, TypeOK, Rest
  <2>2. Typed /\ \A d \in Callers : call'[d] = Free
    BY <1>2, FreeTyped DEF Crash, Typed
  <2>3. \A d \in Callers : CarriesAt(d)'
    BY <2>2, FreeTyped DEF CarriesAt, NoRow, Legacy
  <2>. QED  BY <1>a, <2>1, <2>2, <2>3, AllCarry
<1>3. ASSUME NEW c \in Callers, Begin(c) PROVE TypeOK' /\ Carries'
  <2>1. Rest
    BY <1>3 DEF Begin, TypeOK, Rest
  <2>2. PICK op \in Ops, n \in Names, v \in Values :
          /\ op = "mail" => lock = NoOne
          /\ call' = [call EXCEPT ![c] =
                        [Free EXCEPT !.at = IF op = "test" THEN "select" ELSE "load",
                                     !.op = op, !.name = n, !.value = v]]
          /\ lock' = IF op = "mail" THEN c ELSE lock
    BY <1>3 DEF Begin
  <2>3. call'[c] = [Free EXCEPT !.at = IF op = "test" THEN "select" ELSE "load",
                                !.op = op, !.name = n, !.value = v]
    BY <2>2, <1>c
  <2>4. /\ call'[c].at = (IF op = "test" THEN "select" ELSE "load") /\ call'[c].op = op
        /\ call'[c].name = n /\ call'[c].value = v /\ call'[c].key = NoKey
        /\ call'[c].seen = NoRow /\ call'[c] \in Call
    BY <2>3, FreeTyped DEF Call, Free, Places
  <2>5. OthersStay(c)
    BY <2>2, <1>c DEF OthersStay
  <2>6. call' \in [Callers -> Call]
    BY <2>2, <2>4, <1>c DEF OthersStay
  <2>7. Typed
    BY <1>e, <1>f, <2>2, <2>4, <2>5, <2>6 DEF Typed, OthersStay
  <2>8. CarriesAt(c)'
    BY <2>4 DEF CarriesAt
  <2>9. Carries'
    BY <1>3, <2>5, <2>8, OneCarries DEF Begin
  <2>. QED  BY <1>a, <2>1, <2>7, <2>9
<1>4. ASSUME NEW c \in Callers, LoadKey(c) PROVE TypeOK' /\ Carries'
  <2>1. Rest /\ env' = env
    BY <1>4 DEF LoadKey, TypeOK, Rest
  <2>2. CASE Ends(c)
    BY <1>a, <2>1, <2>2, EndsTyped, EndsCarries DEF Typed
  <2>3. CASE StoreBuilt(c, KeyInUse) /\ KeyInUse # Empty
    <3>1. KeyInUse \in Nat \ {0} /\ At(c, "load")
      BY <1>4, <2>3, KeyTyped DEF LoadKey, KeyInUse, EnvKey, Missing
    <3>. QED  BY <1>a, <2>1, <2>3, <3>1, BuiltCarries DEF Typed
  <2>. QED  BY <1>4, <2>2, <2>3 DEF LoadKey
<1>5. ASSUME NEW c \in Callers, GenerateKey(c) PROVE TypeOK' /\ Carries'
  <2>1. Rest /\ env' = env
    BY <1>5 DEF GenerateKey, TypeOK, Rest
  <2>2. /\ call'[c].at = "open" /\ call'[c].key = made + 1 /\ call'[c].name = call[c].name
        /\ call'[c].op = call[c].op /\ call'[c].value = call[c].value
        /\ OthersStay(c) /\ call' \in [Callers -> Call]
    <3>1. call' = [call EXCEPT ![c].at = "open", ![c].key = made + 1]
      BY <1>5 DEF GenerateKey
    <3>2. made + 1 \in Nat
      BY <1>f
    <3>. QED  BY <3>1, <3>2, <1>c DEF Call, Places, OthersStay
  <2>3. Typed
    BY <1>e, <1>f, <1>5, <2>2 DEF Typed, GenerateKey, OthersStay
  <2>4. CarriesAt(c)'
    BY <1>5, <1>b, <2>1, <2>2 DEF CarriesAt, GenerateKey, At, TypeOK, NoKey
  <2>. QED  BY <1>a, <2>1, <2>2, <2>3, <2>4, OneCarries
<1>6. ASSUME NEW c \in Callers, OpenFile(c) PROVE TypeOK' /\ Carries'
  <2>1. Rest /\ env' = env
    BY <1>6 DEF OpenFile, TypeOK, Rest
  <2>2. GoesTo(c, "write") /\ call[c].at = "open" /\ lock' = lock
    BY <1>6 DEF OpenFile, At
  <2>3. /\ call'[c].at = "write" /\ call'[c].key = call[c].key /\ call'[c].name = call[c].name
        /\ call'[c].op = call[c].op /\ call'[c].value = call[c].value
        /\ OthersStay(c) /\ call' \in [Callers -> Call]
    BY <2>2, GoesToTyped DEF Places, OthersStay
  <2>4. Typed
    BY <1>e, <1>f, <2>2, <2>3 DEF Typed, OthersStay
  <2>5. CarriesAt(c)'
    BY <1>b, <2>1, <2>2, <2>3 DEF CarriesAt
  <2>. QED  BY <1>a, <2>1, <2>3, <2>4, <2>5, OneCarries
<1>7. ASSUME NEW c \in Callers, WriteKey(c) PROVE TypeOK' /\ Carries'
  <2>1. call[c].key \in Nat \ {0} /\ At(c, "write")
    BY <1>7, <1>b, <1>d DEF WriteKey, CarriesAt, At, NoKey
  <2>2. Rest /\ env' = env
    BY <1>7, <2>1 DEF WriteKey, TypeOK, Rest
  <2>3. StoreBuilt(c, call[c].key)
    BY <1>7 DEF WriteKey
  <2>. QED  BY <1>a, <2>1, <2>2, <2>3, BuiltCarries DEF Typed
<1>8. ASSUME NEW c \in Callers, Select(c) PROVE TypeOK' /\ Carries'
  <2>1. Rest /\ env' = env
    BY <1>8 DEF Select, TypeOK, Rest
  <2>2. call[c].name \in Names /\ call[c].at = "select"
    BY <1>8, <1>b DEF Select, At, CarriesAt
  <2>3. row[call[c].name] \in Row \cup {NoRow}
    BY <2>2 DEF TypeOK
  <2>4. /\ call'[c].at = (IF call[c].op = "test" THEN "load" ELSE "store")
        /\ call'[c].key = call[c].key /\ call'[c].name = call[c].name
        /\ call'[c].op = call[c].op /\ call'[c].value = call[c].value
        /\ OthersStay(c) /\ call' \in [Callers -> Call]
    <3>. DEFINE at == IF call[c].op = "test" THEN "load" ELSE "store"
    <3>1. at \in Places
      BY DEF Places
    <3>2. call' = [call EXCEPT ![c].seen = row[call[c].name], ![c].at = at]
      BY <1>8 DEF Select
    <3>. HIDE DEF at
    <3>3. call'[c] = [call[c] EXCEPT !.seen = row[call[c].name], !.at = at] /\ OthersStay(c)
      BY <1>c, <3>2 DEF OthersStay
    <3>4. /\ call'[c].at = at /\ call'[c].key = call[c].key /\ call'[c].name = call[c].name
          /\ call'[c].op = call[c].op /\ call'[c].value = call[c].value /\ call'[c] \in Call
      BY <1>c, <2>3, <3>1, <3>3 DEF Call
    <3>5. call' \in [Callers -> Call]
      BY <1>c, <3>2, <3>4 DEF OthersStay
    <3>. QED  BY <3>3, <3>4, <3>5 DEF at
  <2>5. Typed
    BY <1>e, <1>f, <1>8, <2>4 DEF Select, Typed, OthersStay
  <2>6. CarriesAt(c)'
    BY <1>b, <2>1, <2>2, <2>4 DEF CarriesAt
  <2>. QED  BY <1>a, <2>1, <2>4, <2>5, <2>6, OneCarries
<1>9. ASSUME NEW c \in Callers, Save(c) PROVE TypeOK' /\ Carries'
  <2>1. /\ call[c].name \in Names /\ call[c].value \in Values /\ call[c].key \in Nat \ {0}
        /\ Ends(c) /\ env' = env
    BY <1>9, <1>b, <1>d DEF Save, At, CarriesAt, NoKey
  <2>2. [by |-> call[c].key, value |-> call[c].value] \in Row
    BY <2>1 DEF Row
  <2>3. Rest
    BY <1>9, <2>1, <2>2 DEF Save, TypeOK, Rest
  <2>. QED  BY <1>a, <2>1, <2>3, EndsTyped, EndsCarries DEF Typed
<1>10. ASSUME NEW c \in Callers, Opens(c) \/ GivesUp(c) PROVE TypeOK' /\ Carries'
  <2>1. Ends(c) /\ env' = env /\ Rest
    BY <1>10 DEF Opens, GivesUp, TypeOK, Rest
  <2>. QED  BY <1>a, <2>1, EndsTyped, EndsCarries DEF Typed
<1>11. ASSUME NEW c \in Callers, Rewrite(c) PROVE TypeOK' /\ Carries'
  <2>1. Rest /\ env' = env
    BY <1>11 DEF Rewrite, TypeOK, Rest
  <2>2. /\ GoesTo(c, "held") /\ call[c].at = "store" /\ lock' = c /\ lock \in {NoOne, c}
        /\ call[c].seen.by = Legacy /\ call[c].op # "save"
    BY <1>11 DEF Rewrite, At, CanWrite
  <2>3. /\ call'[c].at = "held" /\ call'[c].key = call[c].key /\ call'[c].name = call[c].name
        /\ call'[c].op = call[c].op /\ call'[c].value = call[c].value
        /\ call'[c].seen = call[c].seen /\ OthersStay(c) /\ call' \in [Callers -> Call]
    BY <2>2, GoesToTyped DEF Places, OthersStay
  <2>4. Typed
    BY <1>e, <1>f, <2>2, <2>3, StoreAssumption DEF Typed, OthersStay
  <2>5. CarriesAt(c)'
    BY <1>b, <2>1, <2>2, <2>3 DEF CarriesAt
  <2>. QED  BY <1>a, <2>1, <2>3, <2>4, <2>5, OneCarries
<1>12. ASSUME NEW c \in Callers, CommitOrRollBack(c) PROVE TypeOK' /\ Carries'
  <2>1. /\ call[c].name \in Names /\ call[c].key \in Nat \ {0} /\ call[c].seen.by = Legacy
        /\ Ends(c) /\ env' = env
    BY <1>12, <1>b, <1>d DEF CommitOrRollBack, At, CarriesAt, NoKey
  <2>2. call[c].seen \in Row
    BY <2>1, <1>d DEF NoRow, NoKey, Legacy
  <2>3. [by |-> call[c].key, value |-> call[c].seen.value] \in Row
    BY <2>1, <2>2 DEF Row
  <2>4. Rest
    BY <1>12, <2>1, <2>3 DEF CommitOrRollBack, TypeOK, Rest
  <2>. QED  BY <1>a, <2>1, <2>4, EndsTyped, EndsCarries DEF Typed
<1>. QED
  BY <1>1, <1>2, <1>3, <1>4, <1>5, <1>6, <1>7, <1>8, <1>9, <1>10, <1>11, <1>12
     DEF Next, Progress

(***************************************************************************)
(* Keys.                                                                   *)
(***************************************************************************)
KeyAt(c) == call[c].at \in {"select", "store", "held"} => call[c].key \in {NoKey, KeyInUse}

LEMMA InitKeys == Init => KeysAgree /\ SavedIsReadable /\ KeyFileComplete
<1>. SUFFICES ASSUME Init PROVE KeysAgree /\ SavedIsReadable /\ KeyFileComplete
  OBVIOUS
<1>1. KeysAgree
  BY FreeTyped DEF Init, KeysAgree, At
<1>2. SavedIsReadable
  BY DEF Init, SavedIsReadable, EnvKey, Legacy
<1>3. KeyFileComplete
  BY DEF Init, KeyFileComplete, Missing, EnvKey, Empty
<1>. QED  BY <1>1, <1>2, <1>3

\* A step that changes neither key nor rows, and whose caller has the key.
LEMMA KeysStay ==
  ASSUME KeysAgree, SavedIsReadable, NEW c \in Callers, OthersStay(c),
         UNCHANGED <<env, file, row, forked>>, KeyAt(c)'
  PROVE  KeysAgree' /\ SavedIsReadable'
BY DEF KeysAgree, SavedIsReadable, OthersStay, KeyAt, At, KeyInUse

LEMMA StepKeys ==
  TypeOK /\ Carries /\ KeysAgree /\ SavedIsReadable /\ [Next]_vars => KeysAgree' /\ SavedIsReadable'
<1>. SUFFICES ASSUME TypeOK, Carries, KeysAgree, SavedIsReadable, [Next]_vars
              PROVE  KeysAgree' /\ SavedIsReadable'
  OBVIOUS
<1>b. \A d \in Callers : CarriesAt(d)
  BY CarriesOfEach
<1>c. \A d \in Callers : call[d] \in Call /\ call[d].key \in Nat
  BY DEF TypeOK, Call, Places
<1>k. ~forked => \A d \in Callers : KeyAt(d)
  BY DEF KeysAgree, KeyAt, At
<1>1. CASE UNCHANGED vars
  BY <1>1 DEF vars, KeysAgree, SavedIsReadable, At, KeyInUse
<1>2. CASE Crash
  BY <1>2, FreeTyped DEF Crash, KeysAgree, SavedIsReadable, At, KeyInUse
<1>3. ASSUME NEW c \in Callers, Begin(c) PROVE KeysAgree' /\ SavedIsReadable'
  <2>1. OthersStay(c) /\ call'[c].key = NoKey
    BY <1>3, FreeTyped DEF Begin, OthersStay, TypeOK, Free
  <2>. QED  BY <1>3, <2>1, KeysStay DEF Begin, KeyAt
<1>4. ASSUME NEW c \in Callers, Ends(c), UNCHANGED <<env, file, row, forked>>
      PROVE  KeysAgree' /\ SavedIsReadable'
  <2>1. OthersStay(c) /\ KeyAt(c)'
    BY <1>4, EndsTyped, FreeTyped DEF OthersStay, KeyAt
  <2>. QED  BY <1>4, <2>1, KeysStay
<1>5. ASSUME NEW c \in Callers, LoadKey(c) PROVE KeysAgree' /\ SavedIsReadable'
  <2>1. UNCHANGED <<env, file, row, forked>> /\ At(c, "load")
    BY <1>5 DEF LoadKey
  <2>2. CASE StoreBuilt(c, KeyInUse) /\ KeyInUse # Empty
    <3>1. KeyInUse \in Nat \ {0}
      BY <1>5, <2>2, KeyTyped DEF LoadKey, KeyInUse, EnvKey, Missing
    <3>2. OthersStay(c) /\ (call'[c] = Free \/ call'[c].key = KeyInUse)
      BY <2>1, <2>2, <3>1, BuiltCarries
    <3>3. KeyAt(c)'
      BY <2>1, <3>2, FreeTyped DEF KeyAt, KeyInUse
    <3>. QED  BY <2>1, <3>2, <3>3, KeysStay
  <2>. QED  BY <1>4, <1>5, <2>1, <2>2 DEF LoadKey
<1>6. ASSUME NEW c \in Callers, GenerateKey(c) PROVE KeysAgree' /\ SavedIsReadable'
  <2>1. OthersStay(c) /\ call'[c].at = "open"
    BY <1>6, <1>c DEF GenerateKey, OthersStay, TypeOK, Call, Places
  <2>. QED  BY <1>6, <2>1, KeysStay DEF GenerateKey, KeyAt
<1>7. ASSUME NEW c \in Callers, OpenFile(c) PROVE KeysAgree' /\ SavedIsReadable'
  <2>0. ~env /\ env' = env /\ row' = row /\ file' = Empty
    BY <1>7, <1>b DEF OpenFile, CarriesAt, At
  <2>1. ~forked' => ~forked /\ file <= 0
    <3>1. forked' <=> (forked \/ file > 0)
      BY <1>7, Zenon DEF OpenFile
    <3>. QED  BY <3>1 DEF TypeOK, Empty
  <2>2. OthersStay(c) /\ call'[c].at = "write"
    BY <1>7, GoesToTyped DEF OpenFile, OthersStay, Places
  <2>3. ASSUME ~forked'
        PROVE  \A d \in Callers : call[d].at \in {"select", "store", "held"} => call[d].key = NoKey
    BY <2>0, <2>1, <2>3, <1>k, <1>c DEF KeyAt, KeyInUse, NoKey, TypeOK, Empty
  <2>4. KeysAgree'
    BY <2>2, <2>3 DEF KeysAgree, OthersStay, At
  <2>5. ASSUME ~forked', NEW n \in Names, row[n] # NoRow PROVE row[n].by = Legacy
    <3>1. row[n].by \in {Legacy, file} /\ row[n] \in Row
      BY <2>0, <2>1, <2>5 DEF SavedIsReadable, KeyInUse, TypeOK
    <3>. QED  BY <2>0, <2>1, <2>5, <3>1 DEF Row, TypeOK, Empty, Legacy
  <2>6. SavedIsReadable'
    BY <2>0, <2>1, <2>5 DEF SavedIsReadable
  <2>. QED  BY <2>4, <2>6
<1>8. ASSUME NEW c \in Callers, WriteKey(c) PROVE KeysAgree' /\ SavedIsReadable'
  <2>1. call[c].key \in Nat \ {0} /\ At(c, "write") /\ ~env
    BY <1>8, <1>b, <1>c DEF WriteKey, CarriesAt, At, NoKey
  <2>0. env' = env /\ row' = row /\ file' = call[c].key /\ StoreBuilt(c, call[c].key)
    BY <1>8 DEF WriteKey
  <2>2. ~forked' => ~forked /\ file <= 0
    <3>1. forked' <=> (forked \/ file > 0)
      BY <1>8, Zenon DEF WriteKey
    <3>. QED  BY <3>1 DEF TypeOK, Empty
  <2>3. OthersStay(c) /\ (call'[c] = Free \/ call'[c].key = file')
    BY <2>0, <2>1, <2>2, BuiltCarries
  <2>4. ASSUME ~forked'
        PROVE  \A d \in Callers : call[d].at \in {"select", "store", "held"} => call[d].key = NoKey
    BY <2>0, <2>1, <2>2, <2>4, <1>k, <1>c DEF KeyAt, KeyInUse, NoKey, TypeOK, Empty
  <2>5. KeysAgree'
    BY <2>0, <2>1, <2>2, <2>3, <2>4, FreeTyped DEF KeysAgree, OthersStay, At, KeyInUse
  <2>6. ASSUME ~forked', NEW n \in Names, row[n] # NoRow PROVE row[n].by = Legacy
    <3>1. row[n].by \in {Legacy, file} /\ row[n] \in Row
      BY <2>0, <2>1, <2>2, <2>6 DEF SavedIsReadable, KeyInUse, TypeOK
    <3>. QED  BY <2>0, <2>2, <2>6, <3>1 DEF Row, TypeOK, Empty, Legacy
  <2>7. SavedIsReadable'
    BY <2>0, <2>2, <2>6 DEF SavedIsReadable
  <2>. QED  BY <2>5, <2>7
<1>9. ASSUME NEW c \in Callers, Select(c) PROVE KeysAgree' /\ SavedIsReadable'
  <2>1. /\ OthersStay(c) /\ call'[c].key = call[c].key /\ call[c].at = "select"
        /\ UNCHANGED <<env, file, row, forked>>
    BY <1>9, <1>c DEF Select, At, OthersStay, TypeOK, Call, Places
  <2>2. CASE forked
    BY <2>1, <2>2 DEF KeysAgree, SavedIsReadable
  <2>3. CASE ~forked
    <3>1. KeyAt(c)'
      BY <2>1, <2>3, <1>k DEF KeyAt, KeyInUse
    <3>. QED  BY <2>1, <3>1, KeysStay
  <2>. QED  BY <2>2, <2>3
<1>10. ASSUME NEW c \in Callers, Rewrite(c) PROVE KeysAgree' /\ SavedIsReadable'
  <2>1. /\ OthersStay(c) /\ call'[c].key = call[c].key /\ call[c].at = "store"
        /\ UNCHANGED <<env, file, row, forked>>
    BY <1>10, GoesToTyped DEF Rewrite, At, OthersStay, Places
  <2>2. CASE forked
    BY <2>1, <2>2 DEF KeysAgree, SavedIsReadable
  <2>3. CASE ~forked
    <3>1. KeyAt(c)'
      BY <2>1, <2>3, <1>k DEF KeyAt, KeyInUse
    <3>. QED  BY <2>1, <3>1, KeysStay
  <2>. QED  BY <2>2, <2>3
<1>11. ASSUME NEW c \in Callers, Save(c) \/ CommitOrRollBack(c) PROVE KeysAgree' /\ SavedIsReadable'
  <2>1. /\ Ends(c) /\ UNCHANGED <<env, file, forked>> /\ call[c].at \in {"store", "held"}
        /\ call[c].key # NoKey
    BY <1>11, <1>b DEF Save, CommitOrRollBack, At, CarriesAt
  <2>2. OthersStay(c) /\ call'[c] = Free
    BY <2>1, EndsTyped DEF OthersStay
  <2>3. KeysAgree'
    BY <2>1, <2>2, FreeTyped DEF KeysAgree, OthersStay, At, KeyInUse
  <2>4. ASSUME NEW n \in Names PROVE row'[n] = row[n] \/ row'[n].by = call[c].key
    BY <1>11 DEF Save, CommitOrRollBack, TypeOK
  <2>5. ASSUME ~forked PROVE call[c].key = KeyInUse
    BY <2>1, <2>5, <1>k DEF KeyAt
  <2>6. SavedIsReadable'
    BY <2>1, <2>4, <2>5 DEF SavedIsReadable, KeyInUse
  <2>. QED  BY <2>3, <2>6
<1>. QED
  BY <1>1, <1>2, <1>3, <1>4, <1>5, <1>6, <1>7, <1>8, <1>9, <1>10, <1>11
     DEF Next, Progress, Opens, GivesUp

\* Only WriteKey leaves the place where a key is written.
LEMMA StepFile == TypeOK /\ Carries /\ KeyFileComplete /\ [Next]_vars => KeyFileComplete'
<1>. SUFFICES ASSUME TypeOK, Carries, KeyFileComplete, [Next]_vars PROVE KeyFileComplete'
  OBVIOUS
<1>c. \A d \in Callers : call[d] \in Call /\ call[d].key \in Nat
  BY DEF TypeOK, Call, Places
<1>1. CASE UNCHANGED vars
  BY <1>1 DEF vars, KeyFileComplete, At
<1>2. CASE Crash
  BY <1>2 DEF Crash, KeyFileComplete
<1>3. ASSUME NEW c \in Callers, OthersStay(c), ~At(c, "write"), UNCHANGED <<file, cut>>
      PROVE  KeyFileComplete'
  BY <1>3 DEF KeyFileComplete, OthersStay, At
<1>4. ASSUME NEW c \in Callers, Ends(c), ~At(c, "write"), UNCHANGED <<file, cut>>
      PROVE  KeyFileComplete'
  BY <1>3, <1>4, EndsTyped DEF OthersStay
<1>5. ASSUME NEW c \in Callers, Begin(c) \/ GenerateKey(c) \/ Select(c) \/ Rewrite(c)
      PROVE  KeyFileComplete'
  <2>1. OthersStay(c)
    BY <1>5 DEF Begin, GenerateKey, Select, Rewrite, GoesTo, OthersStay, TypeOK
  <2>. QED  BY <1>3, <1>5, <2>1 DEF Begin, GenerateKey, Select, Rewrite, At
<1>6. ASSUME NEW c \in Callers, LoadKey(c) PROVE KeyFileComplete'
  <2>1. OthersStay(c)
    BY <1>6 DEF LoadKey, StoreBuilt, Ends, OthersStay, TypeOK
  <2>. QED  BY <1>3, <1>6, <2>1 DEF LoadKey, At
<1>7. ASSUME NEW c \in Callers, OpenFile(c) PROVE KeyFileComplete'
  <2>1. call'[c].at = "write"
    BY <1>7, GoesToTyped DEF OpenFile, Places
  <2>. QED  BY <2>1 DEF KeyFileComplete, At
<1>8. ASSUME NEW c \in Callers, WriteKey(c) PROVE KeyFileComplete'
  <2>1. file' \in Nat /\ Empty \notin Nat
    BY <1>8, <1>c DEF WriteKey, Empty
  <2>. QED  BY <2>1 DEF KeyFileComplete
<1>9. ASSUME NEW c \in Callers, Save(c) \/ Opens(c) \/ GivesUp(c) \/ CommitOrRollBack(c)
      PROVE  KeyFileComplete'
  BY <1>4, <1>9 DEF Save, Opens, GivesUp, CommitOrRollBack, At
<1>. QED
  BY <1>1, <1>2, <1>5, <1>6, <1>7, <1>8, <1>9 DEF Next, Progress

\* The store stays readable: whatever calls and crashes interleave, for any
\* number of callers, credentials and restarts.
THEOREM StoreStaysReadable == Spec => []StoreIsReadable
<1>1. TypeOK /\ SavedIsReadable /\ KeyFileComplete => StoreIsReadable
  BY DEF StoreIsReadable
<1>2. Spec => [](TypeOK /\ Carries /\ KeysAgree /\ SavedIsReadable /\ KeyFileComplete)
  BY InitType, InitKeys, StepType, StepKeys, StepFile, PTL DEF Spec
<1>. QED  BY <1>1, <1>2, PTL

(***************************************************************************)
(* Values.                                                                 *)
(***************************************************************************)
LEMMA InitValues == Init => LegacyIsOld /\ LastSaveWins
<1>. SUFFICES ASSUME Init PROVE LegacyIsOld /\ LastSaveWins
  OBVIOUS
<1>1. \A c \in Callers : call[c].seen.by # Legacy
  BY FreeTyped DEF Init, Legacy
<1>2. RowsOld /\ LastSaveWins
  BY DEF Init, LastSaveWins, RowsOld
<1>. QED  BY <1>1, <1>2 DEF LegacyIsOld, SeenOld

\* A step that changes no row.
LEMMA ValuesStay ==
  ASSUME LegacyIsOld, LastSaveWins, NEW c \in Callers, OthersStay(c),
         UNCHANGED <<row, saved, old, raced>>, SeenOld(c)'
  PROVE  LegacyIsOld' /\ LastSaveWins'
<1>1. \A d \in Callers : SeenOld(d)'
  BY DEF LegacyIsOld, SeenOld, OthersStay
<1>2. RowsOld' /\ LastSaveWins'
  BY DEF LegacyIsOld, RowsOld, LastSaveWins
<1>. QED  BY <1>1, <1>2 DEF LegacyIsOld

LEMMA StepValues ==
  TypeOK /\ Carries /\ LegacyIsOld /\ LastSaveWins /\ [Next]_vars => LegacyIsOld' /\ LastSaveWins'
<1>. SUFFICES ASSUME TypeOK, Carries, LegacyIsOld, LastSaveWins, [Next]_vars
              PROVE  LegacyIsOld' /\ LastSaveWins'
  OBVIOUS
<1>b. \A d \in Callers : CarriesAt(d)
  BY CarriesOfEach
<1>c. \A d \in Callers : call[d] \in Call /\ call[d].key \in Nat
  BY DEF TypeOK, Call, Places
<1>s. RowsOld /\ \A d \in Callers : SeenOld(d)
  BY DEF LegacyIsOld
<1>1. CASE UNCHANGED vars
  BY <1>1 DEF vars, LegacyIsOld, RowsOld, SeenOld, LastSaveWins
<1>2. CASE Crash
  <2>1. UNCHANGED <<row, saved, old, raced>> /\ \A d \in Callers : call'[d].seen.by # Legacy
    BY <1>2, FreeTyped DEF Crash, Legacy
  <2>. QED  BY <2>1 DEF LegacyIsOld, RowsOld, SeenOld, LastSaveWins
<1>3. ASSUME NEW c \in Callers, OthersStay(c), UNCHANGED <<row, saved, old, raced>>,
             \/ call'[c].seen = NoRow
             \/ /\ call'[c].seen = call[c].seen /\ call'[c].name = call[c].name
                /\ call'[c].op = call[c].op
      PROVE  LegacyIsOld' /\ LastSaveWins'
  <2>1. SeenOld(c)'
    BY <1>3, <1>s, FreeTyped DEF SeenOld, Legacy
  <2>. QED  BY <1>3, <2>1, ValuesStay
<1>4. ASSUME NEW c \in Callers, Ends(c), UNCHANGED <<row, saved, old, raced>>
      PROVE  LegacyIsOld' /\ LastSaveWins'
  BY <1>3, <1>4, EndsTyped, FreeTyped DEF OthersStay
<1>5. ASSUME NEW c \in Callers, Begin(c) PROVE LegacyIsOld' /\ LastSaveWins'
  <2>1. OthersStay(c) /\ call'[c].seen = NoRow
    BY <1>5, FreeTyped DEF Begin, OthersStay, TypeOK, Free
  <2>. QED  BY <1>3, <1>5, <2>1 DEF Begin
<1>6. ASSUME NEW c \in Callers, NEW k \in Nat \ {0}, StoreBuilt(c, k), env' = env,
             At(c, "load") \/ At(c, "write"), UNCHANGED <<row, saved, old, raced>>
      PROVE  LegacyIsOld' /\ LastSaveWins'
  <2>1. /\ OthersStay(c)
        /\ \/ call'[c] = Free
           \/ /\ call'[c].name = call[c].name /\ call'[c].seen = call[c].seen
              /\ call'[c].op = call[c].op
    BY <1>6, BuiltCarries
  <2>. QED  BY <1>3, <1>6, <2>1, FreeTyped
<1>7. ASSUME NEW c \in Callers, LoadKey(c) PROVE LegacyIsOld' /\ LastSaveWins'
  <2>1. CASE Ends(c)
    BY <1>4, <1>7, <2>1 DEF LoadKey
  <2>2. CASE StoreBuilt(c, KeyInUse) /\ KeyInUse # Empty
    <3>1. KeyInUse \in Nat \ {0}
      BY <1>7, <2>2, KeyTyped DEF LoadKey, KeyInUse, EnvKey, Missing
    <3>. QED  BY <1>6, <1>7, <2>2, <3>1 DEF LoadKey
  <2>. QED  BY <1>7, <2>1, <2>2 DEF LoadKey
<1>8. ASSUME NEW c \in Callers, WriteKey(c) PROVE LegacyIsOld' /\ LastSaveWins'
  <2>1. call[c].key \in Nat \ {0}
    BY <1>8, <1>b, <1>c DEF WriteKey, CarriesAt, At, NoKey
  <2>. QED  BY <1>6, <1>8, <2>1 DEF WriteKey
<1>9. ASSUME NEW c \in Callers, GenerateKey(c) PROVE LegacyIsOld' /\ LastSaveWins'
  <2>1. /\ OthersStay(c) /\ call'[c].seen = call[c].seen /\ call'[c].name = call[c].name
        /\ call'[c].op = call[c].op
    BY <1>9, <1>c DEF GenerateKey, OthersStay, TypeOK, Call
  <2>. QED  BY <1>3, <1>9, <2>1 DEF GenerateKey
<1>10. ASSUME NEW c \in Callers, OpenFile(c) \/ Rewrite(c) PROVE LegacyIsOld' /\ LastSaveWins'
  <2>1. /\ OthersStay(c) /\ call'[c].seen = call[c].seen /\ call'[c].name = call[c].name
        /\ call'[c].op = call[c].op
    BY <1>10, GoesToTyped DEF OpenFile, Rewrite, OthersStay, Places
  <2>. QED  BY <1>3, <1>10, <2>1 DEF OpenFile, Rewrite
<1>11. ASSUME NEW c \in Callers, Select(c) PROVE LegacyIsOld' /\ LastSaveWins'
  <2>1. /\ OthersStay(c) /\ call'[c].seen = row[call[c].name] /\ call'[c].name = call[c].name
        /\ call[c].name \in Names /\ UNCHANGED <<row, saved, old, raced>>
    BY <1>11, <1>b, <1>c DEF Select, OthersStay, TypeOK, Call, CarriesAt, At
  <2>2. SeenOld(c)'
    BY <1>s, <2>1 DEF RowsOld, SeenOld
  <2>. QED  BY <2>1, <2>2, ValuesStay
<1>12. ASSUME NEW c \in Callers, call'[c] = Free, RowsOld', LastSaveWins',
              \A d \in Callers \ {c} : SeenOld(d)'
       PROVE  LegacyIsOld' /\ LastSaveWins'
  <2>1. SeenOld(c)'
    BY <1>12, FreeTyped DEF SeenOld, Legacy
  <2>. QED  BY <1>12, <2>1 DEF LegacyIsOld
\* What Save writes is what was saved, and is never in the legacy encoding.
\* Whoever has read the legacy row is overtaken.
<1>13. ASSUME NEW c \in Callers, Save(c) PROVE LegacyIsOld' /\ LastSaveWins'
  <2>. DEFINE n == call[c].name
              taken == call[c].seen = NoRow /\ row[n] # NoRow
  <2>1. CASE taken
    BY <1>4, <1>13, <2>1 DEF Save
  <2>2. CASE ~taken
    <3>1. /\ row' = [row EXCEPT ![n] = [by |-> call[c].key, value |-> call[c].value]]
          /\ saved' = [saved EXCEPT ![n] = call[c].value]
          /\ raced' = IF LegacyInUse(n) THEN raced \cup {n} ELSE raced \ {n}
          /\ Ends(c) /\ old' = old /\ n \in Names /\ call[c].key # Legacy
      BY <1>13, <1>b, <1>c, <2>2 DEF Save, CarriesAt, At, Legacy
    <3>2. call'[c] = Free /\ OthersStay(c)
      BY <3>1, EndsTyped DEF OthersStay
    <3>3. ASSUME NEW d \in Callers \ {c} PROVE SeenOld(d)'
      <4>1. call'[d] = call[d] /\ SeenOld(d)
        BY <1>s, <3>2 DEF OthersStay
      <4>2. CASE call[d].name = n /\ call[d].seen.by = Legacy /\ call[d].op \notin {"save", "panel"}
        <5>1. n \in raced'
          BY <3>1, <4>2 DEF LegacyInUse
        <5>. QED  BY <3>1, <4>1, <4>2, <5>1 DEF SeenOld
      <4>3. CASE call[d].name # n
        BY <3>1, <4>1, <4>3 DEF SeenOld, TypeOK
      <4>4. CASE call[d].seen.by # Legacy \/ call[d].op \in {"save", "panel"}
        BY <3>1, <4>1, <4>4 DEF SeenOld
      <4>. QED  BY <4>2, <4>3, <4>4
    <3>. HIDE DEF n
    <3>4. \A m \in Names : IF m = n THEN row'[m].by # Legacy /\ row'[m].value = saved'[m]
                            ELSE row'[m] = row[m] /\ saved'[m] = saved[m]
                                 /\ (m \in raced' <=> m \in raced)
      BY <3>1 DEF TypeOK
    <3>5. RowsOld'
      BY <1>s, <3>1, <3>4 DEF RowsOld
    <3>6. LastSaveWins'
      BY <3>1, <3>4 DEF LastSaveWins
    <3>. QED  BY <1>12, <3>2, <3>3, <3>5, <3>6
  <2>. QED  BY <2>1, <2>2
\* Only what was in the legacy encoding is rewritten, with the value it had.
<1>14. ASSUME NEW c \in Callers, CommitOrRollBack(c) PROVE LegacyIsOld' /\ LastSaveWins'
  <2>. DEFINE n == call[c].name
  <2>0. /\ Ends(c) /\ UNCHANGED <<saved, old, raced>> /\ n \in Names /\ call[c].key # Legacy
        /\ call[c].seen.by = Legacy /\ call[c].op # "save"
    BY <1>14, <1>b, <1>c DEF CommitOrRollBack, CarriesAt, At, Legacy
  <2>1. call'[c] = Free /\ OthersStay(c)
    BY <2>0, EndsTyped DEF OthersStay
  <2>2. CASE call[c].op = "panel"
    <3>1. row' = row
      BY <1>14, <2>2 DEF CommitOrRollBack
    <3>. QED  BY <1>4, <2>0, <3>1
  <2>3. CASE call[c].op # "panel"
    <3>1. row' = [row EXCEPT ![n] = [by |-> call[c].key, value |-> call[c].seen.value]]
      BY <1>14, <2>3 DEF CommitOrRollBack
    <3>2. call[c].seen.value = old[n] /\ (saved[n] = old[n] \/ n \in raced)
      BY <1>s, <2>0, <2>3 DEF SeenOld
    <3>3. \A d \in Callers \ {c} : SeenOld(d)'
      BY <1>s, <2>0, <2>1 DEF SeenOld, OthersStay
    <3>. HIDE DEF n
    <3>4. \A m \in Names : IF m = n THEN row'[m].by # Legacy /\ row'[m].value = old[m]
                            ELSE row'[m] = row[m]
      BY <2>0, <3>1, <3>2 DEF TypeOK
    <3>5. RowsOld'
      BY <1>s, <2>0, <3>4 DEF RowsOld
    <3>6. LastSaveWins'
      BY <2>0, <3>2, <3>4 DEF LastSaveWins
    <3>. QED  BY <1>12, <2>1, <3>3, <3>5, <3>6
  <2>. QED  BY <2>2, <2>3
<1>15. ASSUME NEW c \in Callers, Opens(c) \/ GivesUp(c) PROVE LegacyIsOld' /\ LastSaveWins'
  BY <1>4, <1>15 DEF Opens, GivesUp
<1>. QED
  BY <1>1, <1>2, <1>5, <1>7, <1>8, <1>9, <1>10, <1>11, <1>13, <1>14, <1>15 DEF Next, Progress

\* A credential has the value saved last.  The one way to lose a save is a use
\* that had read the legacy row before the save and commits after it, and it
\* can only bring that row's value back: never the value of an earlier save.
THEOREM SavesPrevail == Spec => []LastSaveWins
<1>1. Spec => [](TypeOK /\ Carries /\ LegacyIsOld /\ LastSaveWins)
  BY InitType, InitValues, StepType, StepValues, PTL DEF Spec
<1>. QED  BY <1>1, PTL
===============================================================================
