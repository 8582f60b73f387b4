-------------------------------- MODULE JournalOpen ----------------------------
(***************************************************************************)
(* Opening one of the submitter's journals: PrivateJournalPath             *)
(* (journal-path.js) pins the file, the constructors of                    *)
(* SignedIntentJournal and BroadcastIntentJournal (signed-intent.js,       *)
(* broadcast-intent.js) open it by name with SQLite, initialize it if they *)
(* created it, validate it, and only then reserve in it.  Processes race   *)
(* for one path, with manifests of different releases; they throw or die   *)
(* between any two steps; the operator moves files in and out of the path  *)
(* and back; the host loses power.                                         *)
(***************************************************************************)
EXTENDS Integers

CONSTANTS Procs,          \* processes opening the journal
          Bindings,       \* a binding is what a manifest says: destination, release
          Files,          \* inodes; how many are used bounds the environment
          Intents,        \* what is reserved
          None

ASSUME JournalAssumption == None \notin Files \cup Bindings \cup Procs

VARIABLES entry,          \* the inode the path names now, or None
          diskEntry,      \* the inode it names on the disk
          db,             \* content of every inode
          lock,           \* the process inside an inode's write transaction
          proc,           \* what each process is doing
          initialized,    \* inodes whose creator's constructor has returned
          moved,          \* inodes the operator moved out of the path
          reported        \* <<inode, intent>> that some reserve returned for

journalVars == <<entry, diskEntry, db, lock, proc, initialized, moved, reported>>

\* No inode, an empty file, a journal, or a file that is neither (legacy, partial).
Unused  == [kind |-> "unused", binding |-> None, rows |-> {}]
Empty   == [kind |-> "empty", binding |-> None, rows |-> {}]
Foreign == [kind |-> "foreign", binding |-> None, rows |-> {}]
Journal(b, rows) == [kind |-> "journal", binding |-> b, rows |-> rows]
Contents == {Unused, Empty, Foreign} \cup [kind : {"journal"}, binding : Bindings, rows : SUBSET Intents]

NotOpen == [pc |-> "idle", fresh |-> FALSE, binding |-> None, pinned |-> None, conn |-> None,
            back |-> FALSE]
Opening == {"pinned", "opened", "verified", "locked", "wal", "rechecked", "sync"}
Open    == {"open", "reserving"}
Processes == [pc : {"idle"} \cup Opening \cup Open, fresh : BOOLEAN, binding : Bindings \cup {None},
              pinned : Files \cup {None}, conn : Files \cup {None}, back : BOOLEAN]

JournalTypeOK ==
  /\ entry \in Files \cup {None}
  /\ diskEntry \in Files \cup {None}
  /\ db \in [Files -> Contents]
  /\ lock \in [Files -> Procs \cup {None}]
  /\ proc \in [Procs -> Processes]
  /\ initialized \subseteq Files
  /\ moved \subseteq Files
  /\ reported \subseteq Files \X Intents

JournalInit ==
  /\ entry = None
  /\ diskEntry = None
  /\ db = [f \in Files |-> Unused]
  /\ lock = [f \in Files |-> None]
  /\ proc = [p \in Procs |-> NotOpen]
  /\ initialized = {}
  /\ moved = {}
  /\ reported = {}

To(p, pc) == proc' = [proc EXCEPT ![p].pc = pc]

\* Every way out, by exception or death: descriptors closed, transaction rolled back.
Close(p) ==
  /\ proc' = [proc EXCEPT ![p] = NotOpen]
  /\ lock' = [f \in Files |-> IF lock[f] = p THEN None ELSE lock[f]]

-------------------------------------------------------------------------------
(* PrivateJournalPath                                                        *)

\* O_CREAT | O_EXCL succeeds only where the path names nothing.
CreateFile(p, b) ==
  /\ proc[p].pc = "idle" /\ entry = None
  /\ \E f \in Files :
       /\ db[f] = Unused
       /\ db' = [db EXCEPT ![f] = Empty]
       /\ entry' = f
       /\ proc' = [proc EXCEPT ![p] = [pc |-> "pinned", fresh |-> TRUE, binding |-> b,
                                       pinned |-> f, conn |-> None, back |-> FALSE]]
  /\ UNCHANGED <<diskEntry, lock, initialized, moved, reported>>

\* EEXIST: the file there is pinned, and is nobody's to initialize.
PinExisting(p, b) ==
  /\ proc[p].pc = "idle" /\ entry # None
  /\ proc' = [proc EXCEPT ![p] = [pc |-> "pinned", fresh |-> FALSE, binding |-> b,
                                  pinned |-> entry, conn |-> None, back |-> FALSE]]
  /\ UNCHANGED <<entry, diskEntry, db, lock, initialized, moved, reported>>

\* verify: the path still names the pinned inode, or the caller throws.
Verify(p, next) ==
  IF entry = proc[p].pinned THEN To(p, next) /\ UNCHANGED lock ELSE Close(p)

-------------------------------------------------------------------------------
(* The journals' constructors                                                *)

\* SQLite opens by name; where the name is gone it makes a file of its own.
OpenDatabase(p) ==
  /\ proc[p].pc = "pinned"
  /\ \/ /\ entry # None
        /\ proc' = [proc EXCEPT ![p].pc = "opened", ![p].conn = entry]
        /\ UNCHANGED <<entry, db>>
     \/ /\ entry = None
        /\ \E f \in Files :
             /\ db[f] = Unused
             /\ db' = [db EXCEPT ![f] = Empty]
             /\ entry' = f
             /\ proc' = [proc EXCEPT ![p].pc = "opened", ![p].conn = f]
  /\ UNCHANGED <<diskEntry, lock, initialized, moved, reported>>

VerifyOpened(p) ==
  /\ proc[p].pc = "opened"
  /\ Verify(p, "verified")
  /\ UNCHANGED <<entry, diskEntry, db, initialized, moved, reported>>

\* Mutant: whether to initialize is judged by the schema that is found.
AcceptableWhenEmpty(p) ==
  \/ db[proc[p].conn] = Empty
  \/ db[proc[p].conn].kind = "journal" /\ db[proc[p].conn].binding = proc[p].binding

\* Mutant: a journal of another release will do.
AcceptableAnyBinding(p) ==
  db[proc[p].conn].kind = IF proc[p].fresh THEN "empty" ELSE "journal"

\* A file of one's own must be empty; any other must be a journal of the same binding.
Acceptable(p) ==
  IF proc[p].fresh THEN db[proc[p].conn].kind = "empty"
  ELSE db[proc[p].conn].kind = "journal" /\ db[proc[p].conn].binding = proc[p].binding

\* BEGIN IMMEDIATE, schema and binding if fresh, #validate: under the write lock.
BeginAndValidate(p) ==
  /\ proc[p].pc = "verified"
  /\ lock[proc[p].conn] = None
  /\ IF Acceptable(p)
     THEN lock' = [lock EXCEPT ![proc[p].conn] = p] /\ To(p, "locked")
     ELSE Close(p)
  /\ UNCHANGED <<entry, diskEntry, db, initialized, moved, reported>>

\* COMMIT; with synchronous = FULL what it wrote is on the disk.
CommitOpening(p) ==
  /\ proc[p].pc = "locked"
  /\ db' = IF db[proc[p].conn].kind = "empty"
           THEN [db EXCEPT ![proc[p].conn] = Journal(proc[p].binding, {})]
           ELSE db
  /\ lock' = [lock EXCEPT ![proc[p].conn] = None]
  /\ To(p, "wal")
  /\ UNCHANGED <<entry, diskEntry, initialized, moved, reported>>

\* journal_mode = WAL is refused while another connection writes (Quit).
SwitchToWAL(p) ==
  /\ proc[p].pc = "wal"
  /\ lock[proc[p].conn] = None
  /\ To(p, "rechecked")
  /\ UNCHANGED <<entry, diskEntry, db, lock, initialized, moved, reported>>

VerifyAgain(p) ==
  /\ proc[p].pc = "rechecked"
  /\ Verify(p, IF proc[p].fresh THEN "sync" ELSE "open")
  /\ UNCHANGED <<entry, diskEntry, db, initialized, moved, reported>>

\* Mutant: the file is synchronized, its directory is not.
SyncFileOnly(p) ==
  /\ proc[p].pc = "sync"
  /\ initialized' = initialized \cup {proc[p].conn}
  /\ To(p, "open")
  /\ UNCHANGED <<entry, diskEntry, db, lock, moved, reported>>

\* syncCreation: the directory as it is now reaches the disk, and the constructor returns.
SyncCreation(p) ==
  /\ proc[p].pc = "sync"
  /\ diskEntry' = entry
  /\ initialized' = initialized \cup {proc[p].conn}
  /\ To(p, "open")
  /\ UNCHANGED <<entry, db, lock, moved, reported>>

-------------------------------------------------------------------------------
(* reserve: verify, then one transaction on the connection.                  *)
VerifyAndReserve(p) ==
  /\ proc[p].pc = "open"
  /\ entry = proc[p].pinned
  /\ To(p, "reserving")
  /\ UNCHANGED <<entry, diskEntry, db, lock, initialized, moved, reported>>

Reserve(p, i) ==
  /\ proc[p].pc = "reserving"
  /\ lock[proc[p].conn] = None
  /\ db' = [db EXCEPT ![proc[p].conn].rows = @ \cup {i}]
  /\ reported' = reported \cup {<<proc[p].conn, i>>}
  /\ To(p, "open")
  /\ UNCHANGED <<entry, diskEntry, lock, initialized, moved>>

\* The path is not the pinned file, or the transaction fails: the journal stays open.
ReserveThrows(p) ==
  /\ proc[p].pc = "reserving"
  /\ To(p, "open")
  /\ UNCHANGED <<entry, diskEntry, db, lock, initialized, moved, reported>>

-------------------------------------------------------------------------------
(* What happens to processes and files.                                      *)

\* A step throws, a lock is not had within a second, or the process dies or closes.
Quit(p) ==
  /\ proc[p].pc # "idle"
  /\ Close(p)
  /\ UNCHANGED <<entry, diskEntry, db, initialized, moved, reported>>

\* The operator moves the file away, and perhaps another one in ...
Replace ==
  /\ entry # None
  /\ moved' = moved \cup {entry}
  /\ \/ entry' = None /\ UNCHANGED db
     \/ \E f \in Files, c \in {Empty, Foreign} \cup {Journal(b, {}) : b \in Bindings} :
          /\ db[f] = Unused
          /\ db' = [db EXCEPT ![f] = c]
          /\ entry' = f
  /\ diskEntry' \in {diskEntry, entry'}
  /\ UNCHANGED <<lock, proc, initialized, reported>>

\* ... or back, under processes that still have it pinned ("back" is a history).
PutBack ==
  /\ \E f \in moved \ {entry} :
       /\ entry' = f
       /\ proc' = [p \in Procs |-> [proc[p] EXCEPT !.back = @ \/ proc[p].pinned = f]]
  /\ moved' = moved \cup ({entry} \ {None})
  /\ diskEntry' \in {diskEntry, entry'}
  /\ UNCHANGED <<db, lock, initialized, reported>>

\* A directory entry that was not synchronized may or may not have reached the disk.
PowerLoss ==
  /\ entry' \in {entry, diskEntry}
  /\ diskEntry' = entry'
  /\ proc' = [p \in Procs |-> NotOpen]
  /\ lock' = [f \in Files |-> None]
  /\ UNCHANGED <<db, initialized, moved, reported>>

Step(p) ==
  \/ \E b \in Bindings : CreateFile(p, b) \/ PinExisting(p, b)
  \/ OpenDatabase(p) \/ VerifyOpened(p) \/ BeginAndValidate(p) \/ CommitOpening(p)
  \/ SwitchToWAL(p) \/ VerifyAgain(p) \/ SyncCreation(p)
  \/ VerifyAndReserve(p) \/ (\E i \in Intents : Reserve(p, i)) \/ ReserveThrows(p)
  \/ Quit(p)

JournalNext == (\E p \in Procs : Step(p)) \/ Replace \/ PutBack \/ PowerLoss

JournalSpec == JournalInit /\ [][JournalNext]_journalVars

-------------------------------------------------------------------------------
(* What the rechecks of the inode are for: SQLite opens by name, so the file *)
(* may have been exchanged in between; still an open journal's connection is *)
(* the pinned inode, whatever files came and went meanwhile, unless that     *)
(* very file left and came back under the opener.  Even then it is a journal *)
(* of the opener's own binding.                                              *)
OpenIsOwnJournal == \A p \in Procs : proc[p].pc \in Open =>
  /\ proc[p].conn = proc[p].pinned \/ proc[p].back
  /\ db[proc[p].conn].kind = "journal"
  /\ db[proc[p].conn].binding = proc[p].binding

(* "Only exclusive file creation initializes a journal": an empty file whose *)
(* exclusive creator has failed or died, or that somebody else put there, is *)
(* never initialized by anybody (but by a creator whose own file left and    *)
(* came back), and a journal is never bound anew or emptied.                 *)
Creating(p, f) == proc[p].fresh /\ (proc[p].pinned = f \/ (proc[p].back /\ proc[p].conn = f))
AdoptsNothing == \A f \in Files :
  /\ db[f].kind \in {"empty", "foreign"} /\ (\A p \in Procs : ~Creating(p, f)) => db'[f] = db[f]
  /\ db[f].kind = "journal" =>
       db'[f].kind = "journal" /\ db'[f].binding = db[f].binding /\ db[f].rows \subseteq db'[f].rows
NeverAdopted == [][AdoptsNothing]_journalVars

(* Once its creator's constructor has returned, no loss of power takes a     *)
(* journal from the path, nor any reservation reported from it; only the     *)
(* operator does.                                                            *)
InitializedSurvives == \A f \in initialized \ moved :
  /\ entry = f
  /\ \A i \in Intents : <<f, i>> \in reported => i \in db[f].rows
=============================================================================
