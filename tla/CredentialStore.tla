--------------------------- MODULE CredentialStore ---------------------------
(***************************************************************************)
(* The credential store: the key that encrypts it, which the first caller  *)
(* to need it creates in a file, the table secrets, and every caller that  *)
(* builds a SecretStore: requests, attempts of runs, alerts by mail.  Each *)
(* runs in a thread and a database session of its own.  SQLite (external): *)
(* a SELECT locks nothing, a writing transaction holds the only write lock *)
(* until it ends, and who waits too long for it fails.                     *)
(***************************************************************************)
EXTENDS Integers, FiniteSets

CONSTANTS
  Callers,  \* threads that use the store at the same time
  Names,    \* names of credentials
  Values,   \* passwords, as they are before encryption
  NoOne,    \* not a caller
  MaxCalls, MaxCrashes \* bounds

ASSUME StoreAssumption ==
  /\ NoOne \notin Callers
  /\ {MaxCalls, MaxCrashes} \subseteq Nat

VARIABLES
  env,     \* whether RPA_HUB_SECRET_KEY is set
  file,    \* the key file: the key it holds, Missing or Empty
  made,    \* number of keys generated so far
  row,     \* table secrets: name -> committed row, or NoRow
  lock,    \* caller whose transaction has written, or NoOne
  call,    \* caller -> its call
  saved,   \* history: name -> value of the last save that was committed
  old,     \* history: name -> value of its row in the legacy encoding at first, or NoOne
  raced,   \* history: names whose last save came after a legacy row was read and
           \* before the reader was done with it
  forked,  \* history: a key was written over a key
  cut,     \* history: the Hub was killed while a key was being written
  calls, crashes \* counters

vars == <<env, file, made, row, lock, call, saved, old, raced, forked, cut, calls, crashes>>

Missing == 0
Empty   == -1
EnvKey  == 1  \* the key of the environment, or one an earlier Hub created
Legacy  == -1 \* instead of a key: the XOR encoding with a fixed password
NoKey   == 0

KeyInUse == IF env THEN EnvKey ELSE file

NoRow == [by |-> NoKey, value |-> NoOne]
Row   == [by : {Legacy} \cup (Nat \ {0}), value : Values]

\* list: GET /secrets; save: POST /secrets; test: POST /secrets/{id}/test;
\* use: an attempt that types a credential; panel: the readiness check;
\* mail: an alert about to be sent, its row flushed before.
Ops  == {"list", "save", "test", "use", "panel", "mail"}
Free == [at |-> "idle", op |-> "list", name |-> NoOne, value |-> NoOne,
         key |-> NoKey, seen |-> NoRow]

At(c, place) == call[c].at = place

Init ==
  /\ env \in BOOLEAN /\ file \in {Missing, EnvKey} /\ made = 1
  /\ row \in [Names -> {NoRow} \cup [by : {Legacy}, value : Values]
                \cup (IF KeyInUse = EnvKey THEN [by : {EnvKey}, value : Values] ELSE {})]
  /\ old = [n \in Names |-> IF row[n].by = Legacy THEN row[n].value ELSE NoOne]
  /\ raced = {}
  /\ saved = [n \in Names |-> row[n].value]
  /\ lock = NoOne /\ call = [c \in Callers |-> Free]
  /\ forked = FALSE /\ cut = FALSE /\ calls = 0 /\ crashes = 0

(***************************************************************************)
(* Begin and end of a call.                                                *)
(***************************************************************************)
\* test reads the row before it builds the store; mail has already flushed
\* the alert and so holds the lock.
Begin(c) ==
  /\ At(c, "idle") /\ calls < MaxCalls
  /\ \E op \in Ops, n \in Names, v \in Values :
       /\ op = "test" => row[n] # NoRow
       /\ op = "mail" => lock = NoOne
       /\ op # "save" => v = CHOOSE w \in Values : TRUE \* unused
       /\ call' = [call EXCEPT ![c] =
                     [Free EXCEPT !.at = IF op = "test" THEN "select" ELSE "load",
                                  !.op = op, !.name = n, !.value = v]]
       /\ lock' = IF op = "mail" THEN c ELSE lock
  /\ calls' = calls + 1
  /\ UNCHANGED <<env, file, made, row, saved, old, raced, forked, cut, crashes>>

\* The call returns, or raises, and its session is closed.
Ends(c) == /\ call' = [call EXCEPT ![c] = Free]
           /\ lock' = IF lock = c THEN NoOne ELSE lock

GoesTo(c, place) == call' = [call EXCEPT ![c].at = place]

(***************************************************************************)
(* load_fernet_key.                                                        *)
(***************************************************************************)
\* The store has its key; list asks no more of it.
StoreBuilt(c, k) ==
  IF call[c].op = "list" THEN Ends(c)
  ELSE /\ call' = [call EXCEPT ![c].key = k,
                               ![c].at = IF call[c].op = "test" THEN "store" ELSE "select"]
       /\ UNCHANGED lock

\* The key comes from the environment, or from the file, which may have been
\* emptied by a caller that is about to write it: an invalid key.
LoadKey(c) ==
  /\ At(c, "load") /\ (env \/ file # Missing)
  /\ IF KeyInUse = Empty THEN Ends(c) ELSE StoreBuilt(c, KeyInUse)
  /\ UNCHANGED <<env, file, made, row, saved, old, raced, forked, cut, calls, crashes>>

\* The file was not there: a key is generated.
GenerateKey(c) ==
  /\ At(c, "load") /\ ~env /\ file = Missing
  /\ made' = made + 1
  /\ call' = [call EXCEPT ![c].at = "open", ![c].key = made + 1]
  /\ UNCHANGED <<env, file, row, lock, saved, old, raced, forked, cut, calls, crashes>>

\* write_text opens the file, which empties it ...
OpenFile(c) ==
  /\ At(c, "open")
  /\ forked' = (forked \/ file > 0)
  /\ file' = Empty
  /\ GoesTo(c, "write")
  /\ UNCHANGED <<env, made, row, lock, saved, old, raced, cut, calls, crashes>>

\* Mutant: the file is opened for appending and a key in it is kept.
KeepOther(c) ==
  /\ At(c, "write")
  /\ file' = IF file = Empty THEN call[c].key ELSE file
  /\ StoreBuilt(c, call[c].key)
  /\ UNCHANGED <<env, made, row, saved, old, raced, forked, cut, calls, crashes>>

\* ... and writes it.  The caller uses its own key from now on.
WriteKey(c) ==
  /\ At(c, "write")
  /\ forked' = (forked \/ file > 0)
  /\ file' = call[c].key
  /\ StoreBuilt(c, call[c].key)
  /\ UNCHANGED <<env, made, row, saved, old, raced, cut, calls, crashes>>

(***************************************************************************)
(* create_or_update and resolve.                                           *)
(***************************************************************************)
Select(c) ==
  /\ At(c, "select")
  /\ call' = [call EXCEPT ![c].seen = row[call[c].name],
                          ![c].at = IF call[c].op = "test" THEN "load" ELSE "store"]
  /\ UNCHANGED <<env, file, made, row, lock, saved, old, raced, forked, cut, calls, crashes>>

CanWrite(c) == lock \in {NoOne, c}

\* For history: a use that will rewrite the row has read it, in the legacy
\* encoding, and has not ended.
LegacyInUse(n) ==
  \E d \in Callers : /\ call[d].name = n /\ call[d].seen.by = Legacy
                     /\ call[d].op \notin {"save", "panel"}

\* create_or_update: INSERT if SELECT found none, which fails when the name
\* is taken by now, otherwise UPDATE; then the commit.
Save(c) ==
  LET n == call[c].name
      taken == call[c].seen = NoRow /\ row[n] # NoRow
  IN /\ At(c, "store") /\ call[c].op = "save" /\ CanWrite(c)
     /\ row'   = IF taken THEN row
                 ELSE [row EXCEPT ![n] = [by |-> call[c].key, value |-> call[c].value]]
     /\ saved' = IF taken THEN saved ELSE [saved EXCEPT ![n] = call[c].value]
     /\ raced' = IF taken THEN raced
                 ELSE IF LegacyInUse(n) THEN raced \cup {n} ELSE raced \ {n}
     /\ Ends(c)
     /\ UNCHANGED <<env, file, made, old, forked, cut, calls, crashes>>

\* resolve: no row, a token of another key (which the legacy decoding never
\* opens either) or one of this key.
Opens(c) ==
  /\ At(c, "store") /\ call[c].op # "save" /\ call[c].seen.by # Legacy
  /\ Ends(c)
  /\ UNCHANGED <<env, file, made, row, saved, old, raced, forked, cut, calls, crashes>>

\* Mutant: resolve encrypts every value it has opened again.
RewriteAlways(c) ==
  /\ At(c, "store") /\ call[c].op # "save" /\ CanWrite(c)
  /\ call[c].seen.by \in {Legacy, call[c].key}
  /\ lock' = c /\ GoesTo(c, "held")
  /\ UNCHANGED <<env, file, made, row, saved, old, raced, forked, cut, calls, crashes>>

\* resolve: a value in the legacy encoding is encrypted with the key and
\* flushed; the lock is held until the caller commits: after the step that
\* types it, the sending of the mail, or the rest of the request.
Rewrite(c) ==
  /\ At(c, "store") /\ call[c].op # "save" /\ CanWrite(c)
  /\ call[c].seen.by = Legacy
  /\ lock' = c /\ GoesTo(c, "held")
  /\ UNCHANGED <<env, file, made, row, saved, old, raced, forked, cut, calls, crashes>>

\* Another transaction held the lock for too long: "database is locked".
GivesUp(c) ==
  /\ At(c, "store") /\ ~CanWrite(c)
  /\ call[c].op = "save" \/ call[c].seen.by = Legacy
  /\ Ends(c)
  /\ UNCHANGED <<env, file, made, row, saved, old, raced, forked, cut, calls, crashes>>

\* Mutant: the panel keeps its session open.
CommitOnly(c) ==
  /\ At(c, "held") /\ call[c].op # "panel"
  /\ row' = [row EXCEPT ![call[c].name] = [by |-> call[c].key, value |-> call[c].seen.value]]
  /\ Ends(c)
  /\ UNCHANGED <<env, file, made, saved, old, raced, forked, cut, calls, crashes>>

\* The transaction ends.  The panel never commits and is rolled back.
CommitOrRollBack(c) ==
  /\ At(c, "held")
  /\ row' = IF call[c].op = "panel" THEN row
            ELSE [row EXCEPT ![call[c].name] = [by |-> call[c].key, value |-> call[c].seen.value]]
  /\ Ends(c)
  /\ UNCHANGED <<env, file, made, saved, old, raced, forked, cut, calls, crashes>>

\* The Hub is killed and started again.
Crash ==
  /\ crashes < MaxCrashes
  /\ crashes' = crashes + 1
  /\ cut' = (cut \/ \E c \in Callers : At(c, "write"))
  /\ call' = [c \in Callers |-> Free] /\ lock' = NoOne
  /\ UNCHANGED <<env, file, made, row, saved, old, raced, forked, calls>>

Progress(c) == \/ LoadKey(c) \/ GenerateKey(c) \/ OpenFile(c) \/ WriteKey(c)
               \/ Select(c) \/ Save(c) \/ Opens(c) \/ Rewrite(c) \/ GivesUp(c)
               \/ CommitOrRollBack(c)

Next == Crash \/ \E c \in Callers : Begin(c) \/ Progress(c)

Spec == Init /\ [][Next]_vars

\* A thread that is not killed goes on.
FairSpec == Spec /\ \A c \in Callers : WF_vars(Progress(c))

(***************************************************************************)
(* Properties.                                                             *)
(***************************************************************************)
\* Type invariant; who holds the lock is in a call that may hold it.
TypeOK ==
  /\ env \in BOOLEAN /\ file \in Nat \cup {Empty} /\ made \in Nat \ {0}
  /\ row \in [Names -> Row \cup {NoRow}] /\ saved \in [Names -> Values \cup {NoOne}]
  /\ lock \in Callers \cup {NoOne}
  /\ old \in [Names -> Values \cup {NoOne}] /\ raced \subseteq Names
  /\ call \in [Callers -> [at : {"idle", "load", "open", "write", "select", "store", "held"},
                           op : Ops, name : Names \cup {NoOne}, value : Values \cup {NoOne},
                           key : Nat, seen : Row \cup {NoRow}]]
  /\ {forked, cut} \subseteq BOOLEAN /\ {calls, crashes} \subseteq Nat
  /\ \A c \in Callers : At(c, "held") => lock = c

\* Every credential in the table can be opened with the key a caller would
\* load now.  The only way to lose one is that two callers find no key file at
\* the same time and the second writes its key over the key of the first.
SavedIsReadable ==
  ~forked => \A n \in Names : row[n] # NoRow => row[n].by \in {Legacy, KeyInUse}

\* Unless the Hub was killed while it wrote the key, an empty key file is
\* being written, so the calls that fail because of it are those that overlap.
KeyFileComplete ==
  file = Empty /\ ~cut => \E c \in Callers : At(c, "write")

\* Nobody is left with a store that cannot be read: key file and rows.
StoreIsReadable == TypeOK /\ SavedIsReadable /\ KeyFileComplete

\* A credential has the value that was saved last, whatever saves, uses and
\* crashes overlap, and whoever commits last.  One save can be lost: resolve
\* writes back the value it had read in the legacy encoding, so a save that is
\* committed between that read and the commit of the use is undone, and then
\* the value is the one of the legacy row, never that of any other save.
LastSaveWins ==
  \A n \in Names : row[n].value # saved[n] => n \in raced /\ row[n].value = old[n]

\* Nobody keeps the write lock of the database.
LockIsFreed == \A c \in Callers : (lock = c) ~> (lock # c)
=============================================================================
