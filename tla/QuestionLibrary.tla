--------------------------- MODULE QuestionLibrary ---------------------------
(***************************************************************************)
(* The question banks and the import of discovered candidates into them    *)
(* (services/discovery_imports.py, services/questions.py, and the deletion *)
(* of runs in services/question_discovery.py).                             *)
(*                                                                         *)
(* Every request is one PostgreSQL transaction at READ COMMITTED.  What it *)
(* reads is what others have committed; what it writes is in its own       *)
(* record until the commit, and others only meet its locks.  An import     *)
(* takes, in this order,                                                   *)
(*                                                                         *)
(*   1. the advisory lock of its idempotency key, and looks for a replay   *)
(*   2. the run's row        3. the bank's row       4. its candidates     *)
(*   5. per item: the question's entry in the unique index of the bank,    *)
(*      then the rows of its tags, in the order the item lists them.       *)
(*                                                                         *)
(* Nothing orders the tags of two imports, so they can wait for each other *)
(* and the database aborts one.                                            *)
(***************************************************************************)
EXTENDS Integers, FiniteSets, Sequences, SequencesExt

CONSTANTS
    Handlers,      \* requests being served at the same time
    Runs,          \* finished discovery runs
    Banks,         \* question banks of the profile
    Candidates,    \* candidates of the runs
    RunOf,         \* the run of a candidate
    PromptOf,      \* the normalized hash of its prompt
    TagsOf,        \* its suggested tags, as a sequence of names
    SlugOf,        \* the slug of a tag name
    Imports,       \* import requests a client may send, with their keys
    Prompts,       \* normalized hashes
    ManualPrompts, \* prompts that questions are written or edited to by hand
    ManualTags,    \* tag names of a question written by hand
    MaxItems,      \* MAX_IMPORT_ITEMS
    RunsDeleted,   \* runs that may be deleted (bound)
    BanksArchived, \* banks that may be archived (bound)
    None           \* no value

ASSUME LibraryAssumption ==
    /\ None \notin Candidates \cup Nat
    /\ RunOf \in [Candidates -> Runs]
    /\ PromptOf \in [Candidates -> Prompts]
    /\ TagsOf \in [Candidates -> Seq(DOMAIN SlugOf)]
    /\ ManualPrompts \subseteq Prompts
    /\ ManualTags \in Seq(DOMAIN SlugOf)
    /\ \A req \in Imports :
         /\ req.run \in Runs /\ req.bank \in Banks
         /\ req.items \in Seq([candidate: Candidates, revision: Nat,
                              prompt: Prompts \cup {None},
                              tags: Seq(DOMAIN SlugOf) \cup {None}, wellFormed: BOOLEAN])
    /\ MaxItems \in Nat \ {0}
    /\ RunsDeleted \subseteq Runs /\ BanksArchived \subseteq Banks

VARIABLES
    runs,       \* runs whose rows exist; their candidates exist with them
    archived,   \* banks that were archived
    questions,  \* rows of questions, in the order of their commits
    audit,      \* rows of question_discovery_imports
    imported,   \* per candidate: import_count
    slugs,      \* rows of question_tags
    answers,    \* history: what an import was answered under a key in use
    tx          \* per handler: its transaction

vars == <<runs, archived, questions, audit, imported, slugs, answers, tx>>
rowVars == <<runs, archived, questions, audit, imported, slugs, answers>>

-----------------------------------------------------------------------------
(* Requests and types *)

Slugs == {SlugOf[name] : name \in DOMAIN SlugOf}

\* _tag_list: one tag per slug, the first name wins, the order is kept.
TagList(names) ==
    LET first == {i \in DOMAIN names : \A j \in 1..(i - 1) : SlugOf[names[j]] # SlugOf[names[i]]}
        order == SetToSortSeq(first, <)
    IN  [i \in DOMAIN order |-> SlugOf[names[order[i]]]]

CandidatesOf(req) == {req.items[i].candidate : i \in DOMAIN req.items}

\* Texts within their lengths and not blank, lists within theirs, known kinds.
FieldsValid(item) == item.wellFormed /\ item.revision >= 1

\* _prepare_request: between one item and the limit, no candidate twice.
Prepared(req) ==
    /\ Len(req.items) \in 1..MaxItems
    /\ \A i \in DOMAIN req.items : FieldsValid(req.items[i])
    /\ Cardinality(CandidatesOf(req)) = Len(req.items)

\* What the user left out is taken from the candidate.
PromptFor(item) == IF item.prompt = None THEN PromptOf[item.candidate] ELSE item.prompt
TagsFor(item) == IF item.tags = None THEN TagsOf[item.candidate] ELSE item.tags

\* Researched once: nothing in the code raises a candidate's revision.
CandidateRevision == 1

\* _canonical_request_hash leaves the key out.
RequestHash(req) == [run |-> req.run, bank |-> req.bank, items |-> req.items]

\* A row, an entry of a unique index or an advisory key, locked for oneself or
\* shared with others.
Lock(kind, name, mode) == [kind |-> kind, name |-> name, mode |-> mode]
Conflict(x, y) ==
    x.kind = y.kind /\ x.name = y.name /\ ~(x.mode = "shared" /\ y.mode = "shared")

NoTx == [pc |-> "idle", op |-> "none", req |-> None, item |-> 0, tags |-> <<>>,
         locks |-> {}, added |-> <<>>]

At(h, pc) == tx[h].pc = pc

Pcs == {"idle", "key", "run", "bank", "validate", "insert", "tag", "new_tag",
        "commit", "write"}

TypeOK ==
    /\ runs \subseteq Runs /\ archived \subseteq Banks /\ slugs \subseteq Slugs
    /\ \A i \in DOMAIN questions :
         questions[i] \in [bank: Banks, prompt: Prompts, origin: Candidates \cup {None}]
    /\ \A row \in audit : row.question \in DOMAIN questions
    /\ imported \in [Candidates -> Nat]
    /\ \A a \in answers : a.batch \in Nat \cup {None}
    /\ \A h \in Handlers : tx[h].pc \in Pcs /\ (At(h, "idle") => tx[h] = NoTx)

Init ==
    /\ runs = Runs
    /\ archived = {}
    /\ questions = <<>>
    /\ audit = {}
    /\ imported = [c \in Candidates |-> 0]
    /\ slugs = {}
    /\ answers = {}
    /\ tx = [h \in Handlers |-> NoTx]

-----------------------------------------------------------------------------
(* Transactions and their locks *)

Req(h) == tx[h].req
Item(h) == Req(h).items[tx[h].item]
Entry(bank, prompt) == Lock("entry", <<bank, prompt>>, "own")
Tag(slug) == Lock("tag", <<slug>>, "own")

\* Bug: the idempotency key is not locked.
Bug_NoKeyLock(h) ==
    CASE At(h, "run") -> {Lock("run", <<Req(h).run>>, "own")}
      [] At(h, "bank") -> {Lock("bank", <<Req(h).bank>>, "own")}
      [] At(h, "insert") -> {Entry(Req(h).bank, IF tx[h].op = "import" THEN PromptFor(Item(h))
                                                ELSE Req(h).prompt)}
      [] OTHER -> {}

\* What the next statement of a transaction locks.  _attach_tags of an import
\* selects the tags FOR UPDATE; _replace_tags only reads them, and the foreign
\* keys of its links are checked when they are flushed.
Wanted(h) ==
    CASE At(h, "key") -> {Lock("key", <<Req(h).key>>, "own")}
      [] At(h, "run") -> {Lock("run", <<Req(h).run>>, "own")}
      [] At(h, "bank") -> {Lock("bank", <<Req(h).bank>>, "own")}
      [] At(h, "insert") /\ tx[h].op = "import" -> {Entry(Req(h).bank, PromptFor(Item(h)))}
      [] At(h, "insert") /\ tx[h].op = "create" ->
            {Entry(Req(h).bank, Req(h).prompt), Lock("bank", <<Req(h).bank>>, "shared")}
      [] At(h, "tag") /\ tx[h].op = "import" /\ tx[h].tags # <<>> ->
            {Tag(Head(tx[h].tags))} \cap {Tag(s) : s \in slugs}
      [] At(h, "new_tag") -> {Tag(Head(tx[h].tags))}
      [] At(h, "commit") /\ tx[h].op = "create" ->
            {Lock("tag", <<SlugOf[ManualTags[i]]>>, "shared") : i \in DOMAIN ManualTags}
      [] At(h, "write") -> {Entry(questions[Req(h).question].bank, Req(h).prompt)}
      [] OTHER -> {}

Blockers(h) ==
    {g \in Handlers \ {h} : \E x \in Wanted(h), y \in tx[g].locks : Conflict(x, y)}

\* The statement runs: its locks are taken and the transaction goes on.
Proceed(h, pc) == tx' = [tx EXCEPT ![h].pc = pc, ![h].locks = @ \cup Wanted(h)]

\* Commit or rollback: the locks go.
End(h) == tx' = [tx EXCEPT ![h] = NoTx]

Stored(bank, prompt) ==
    {i \in DOMAIN questions : questions[i].bank = bank /\ questions[i].prompt = prompt}

-----------------------------------------------------------------------------
(* import_discovery_candidates, up to the first write *)

BeginImport(h) ==
    /\ At(h, "idle")
    /\ \E req \in Imports :
         /\ Prepared(req)
         /\ tx' = [tx EXCEPT ![h] = [NoTx EXCEPT !.pc = "key", !.op = "import", !.req = req]]
    /\ UNCHANGED rowVars

Existing(key) == {row \in audit : row.key = key}

\* _replay_result: the key's rows are of this very request, and they still name
\* its candidates, whose column is emptied when their run is deleted.
Replayable(req) ==
    /\ \A row \in Existing(req.key) : row.request = RequestHash(req)
    /\ {row.candidate : row \in Existing(req.key)} \ {None} = CandidatesOf(req)
    /\ Cardinality(Existing(req.key)) = Len(req.items)
    /\ Cardinality({row.batch : row \in Existing(req.key)}) = 1

\* The batch whose result the request is answered with, None for a conflict.
Answer(req, batch) == [key |-> req.key, request |-> RequestHash(req), batch |-> batch]

\* What a key that has rows is answered with.
Replay(req) ==
    Answer(req, IF Replayable(req) THEN (CHOOSE row \in Existing(req.key) : TRUE).batch ELSE None)

\* Bug: a replay returns without the rollback.
Bug_ReplayKeepsLock(h) ==
    /\ At(h, "key")
    /\ IF Existing(Req(h).key) = {}
       THEN Proceed(h, "run") /\ UNCHANGED answers
       ELSE /\ tx' = [tx EXCEPT ![h] = [NoTx EXCEPT !.locks = Wanted(h)]]
            /\ answers' = answers \cup {Replay(Req(h))}
    /\ UNCHANGED <<runs, archived, questions, audit, imported, slugs>>

\* _lock_idempotency_key and _existing_imports: a key that has rows is replayed
\* or refused, and either way the transaction is rolled back.
LockKey(h) ==
    /\ At(h, "key")
    /\ IF Existing(Req(h).key) = {}
       THEN Proceed(h, "run") /\ UNCHANGED answers
       ELSE End(h) /\ answers' = answers \cup {Replay(Req(h))}
    /\ UNCHANGED <<runs, archived, questions, audit, imported, slugs>>

\* _load_and_validate: the run, which may have been deleted...
LockRun(h) ==
    /\ At(h, "run")
    /\ IF Req(h).run \in runs THEN Proceed(h, "bank") ELSE End(h)
    /\ UNCHANGED rowVars

\* ...and the bank, which may have been archived.
LockBank(h) ==
    /\ At(h, "bank")
    /\ IF Req(h).bank \notin archived THEN Proceed(h, "validate") ELSE End(h)
    /\ UNCHANGED rowVars

\* Candidates stay with their run, and so does the evidence for them.
CandidatesFound(req) == \A c \in CandidatesOf(req) : RunOf[c] = req.run

\* As they were reviewed, and no prompt twice after the user's edits.
Reviewed(req) ==
    /\ \A i \in DOMAIN req.items : req.items[i].revision = CandidateRevision
    /\ \A i, j \in DOMAIN req.items :
         PromptFor(req.items[i]) = PromptFor(req.items[j]) => i = j

NewToBank(req) ==
    \A i \in DOMAIN req.items : Stored(req.bank, PromptFor(req.items[i])) = {}

\* Bug: the candidate's earlier imports are not looked up.
Bug_IgnoresAudit(req) == CandidatesFound(req) /\ Reviewed(req) /\ NewToBank(req)

\* And no candidate was imported into the bank before, under whatever prompt.
Valid(req) ==
    /\ CandidatesFound(req)
    /\ Reviewed(req)
    /\ NewToBank(req)
    /\ \A row \in audit : row.bank = req.bank => row.candidate \notin CandidatesOf(req)

Validate(h) ==
    /\ At(h, "validate")
    /\ IF Valid(Req(h))
       THEN tx' = [tx EXCEPT ![h].pc = "insert", ![h].item = 1]
       ELSE End(h)
    /\ UNCHANGED rowVars

-----------------------------------------------------------------------------
(* create_question and update_question *)

\* get_bank and the look for a duplicate, which lock nothing.
BeginCreate(h) ==
    /\ At(h, "idle")
    /\ \E b \in Banks \ archived, p \in ManualPrompts :
         /\ Stored(b, p) = {}
         /\ tx' = [tx EXCEPT ![h] = [NoTx EXCEPT !.pc = "insert", !.op = "create",
                                                !.req = [bank |-> b, prompt |-> p]]]
    /\ UNCHANGED rowVars

BeginUpdate(h) ==
    /\ At(h, "idle")
    /\ \E i \in DOMAIN questions, p \in ManualPrompts :
         /\ questions[i].bank \notin archived
         /\ Stored(questions[i].bank, p) \subseteq {i}
         /\ tx' = [tx EXCEPT ![h] = [NoTx EXCEPT !.pc = "write", !.op = "update",
                                                !.req = [question |-> i, prompt |-> p]]]
    /\ UNCHANGED rowVars

\* The unique index decides once more; the IntegrityError is a failed request.
WriteUpdate(h) ==
    /\ At(h, "write")
    /\ LET i == Req(h).question
       IN  questions' = IF Stored(questions[i].bank, Req(h).prompt) \subseteq {i}
                        THEN [questions EXCEPT ![i].prompt = Req(h).prompt]
                        ELSE questions
    /\ End(h)
    /\ UNCHANGED <<runs, archived, audit, imported, slugs, answers>>

-----------------------------------------------------------------------------
(* Rows and tags, for imports and for questions written by hand *)

\* The row to insert, and the slugs of its tags.
Row(h) ==
    IF tx[h].op = "import"
    THEN [bank |-> Req(h).bank, prompt |-> PromptFor(Item(h)), origin |-> Item(h).candidate]
    ELSE [bank |-> Req(h).bank, prompt |-> Req(h).prompt, origin |-> None]

TagNames(h) == IF tx[h].op = "import" THEN TagsFor(Item(h)) ELSE ManualTags

\* Bug: the insert relies on the look that came before it.
Bug_InsertUnchecked(h) ==
    /\ At(h, "insert")
    /\ tx' = [tx EXCEPT ![h].pc = "tag", ![h].tags = TagList(TagNames(h)),
                        ![h].added = Append(@, Row(h)),
                        ![h].locks = @ \cup Wanted(h)]
    /\ UNCHANGED rowVars

\* uq_question_bank_hash, once nobody else is inserting the same entry.
InsertQuestion(h) ==
    /\ At(h, "insert")
    /\ IF Stored(Row(h).bank, Row(h).prompt) = {}
       THEN tx' = [tx EXCEPT ![h].pc = "tag", ![h].tags = TagList(TagNames(h)),
                             ![h].added = Append(@, Row(h)),
                             ![h].locks = @ \cup Wanted(h)]
       ELSE End(h)
    /\ UNCHANGED rowVars

\* A tag that exists, or that this transaction has inserted, is used as it is.
LookupTag(h) ==
    /\ At(h, "tag")
    /\ tx[h].tags # <<>>
    /\ LET slug == Head(tx[h].tags)
       IN  IF slug \in slugs \/ Tag(slug) \in tx[h].locks
           THEN tx' = [tx EXCEPT ![h].tags = Tail(@), ![h].locks = @ \cup Wanted(h)]
           ELSE tx' = [tx EXCEPT ![h].pc = "new_tag"]
    /\ UNCHANGED rowVars

\* The slug is unique: somebody else's insert, committed since, is an IntegrityError.
InsertTag(h) ==
    /\ At(h, "new_tag")
    /\ IF Head(tx[h].tags) \in slugs
       THEN End(h)
       ELSE tx' = [tx EXCEPT ![h].pc = "tag", ![h].tags = Tail(@),
                             ![h].locks = @ \cup Wanted(h)]
    /\ UNCHANGED rowVars

NextItem(h) ==
    /\ At(h, "tag")
    /\ tx[h].tags = <<>>
    /\ IF tx[h].op = "import" /\ tx[h].item < Len(Req(h).items)
       THEN tx' = [tx EXCEPT ![h].pc = "insert", ![h].item = @ + 1]
       ELSE tx' = [tx EXCEPT ![h].pc = "commit"]
    /\ UNCHANGED rowVars

NewSlugs(h) == {s \in Slugs : Tag(s) \in tx[h].locks}

\* The audit rows of an import: one per item, all of one batch.
AuditRows(h) ==
    {[key |-> Req(h).key, request |-> RequestHash(Req(h)), bank |-> Req(h).bank,
      candidate |-> tx[h].added[i].origin, question |-> Len(questions) + i,
      batch |-> Len(questions)] : i \in DOMAIN tx[h].added}

CommitImport(h) ==
    /\ At(h, "commit")
    /\ tx[h].op = "import"
    /\ questions' = questions \o tx[h].added
    /\ audit' = audit \cup AuditRows(h)
    /\ imported' = [c \in Candidates |->
                      imported[c] + IF c \in CandidatesOf(Req(h)) THEN 1 ELSE 0]
    /\ slugs' = slugs \cup NewSlugs(h)
    /\ answers' = answers \cup {Answer(Req(h), Len(questions))}
    /\ End(h)
    /\ UNCHANGED <<runs, archived>>

CommitCreate(h) ==
    /\ At(h, "commit")
    /\ tx[h].op = "create"
    /\ questions' = questions \o tx[h].added
    /\ slugs' = slugs \cup NewSlugs(h)
    /\ End(h)
    /\ UNCHANGED <<runs, archived, audit, imported, answers>>

-----------------------------------------------------------------------------
(* Requests of one statement, the database, and the fault *)

Unlocked(lock) == \A h \in Handlers : \A l \in tx[h].locks : ~Conflict(l, lock)

\* delete_run and cleanup_expired_discovery_runs: the candidates go with their
\* run; audit rows and provenance stay, without it.
DeleteRun(r) ==
    /\ r \in runs
    /\ Unlocked(Lock("run", <<r>>, "own"))
    /\ runs' = runs \ {r}
    /\ audit' = {[row EXCEPT !.candidate =
                    IF @ # None /\ RunOf[@] = r THEN None ELSE @] : row \in audit}
    /\ UNCHANGED <<archived, questions, imported, slugs, answers, tx>>

\* archive_bank's UPDATE waits for FOR UPDATE, not for foreign key checks.
ArchiveBank(b) ==
    /\ b \notin archived
    /\ Unlocked(Lock("bank", <<b>>, "shared"))
    /\ archived' = archived \cup {b}
    /\ UNCHANGED <<runs, questions, audit, imported, slugs, answers, tx>>

\* PostgreSQL aborts a transaction that waits in a circle; the error leaves the
\* service as it is.
Deadlocked(h) ==
    \E S \in SUBSET Handlers : h \in S /\ \A g \in S : Blockers(g) \cap S # {}

AbortDeadlock(h) ==
    /\ Deadlocked(h)
    /\ End(h)
    /\ UNCHANGED rowVars

\* The server stops or the client leaves before the commit.
Lose(h) ==
    /\ ~At(h, "idle")
    /\ End(h)
    /\ UNCHANGED rowVars

-----------------------------------------------------------------------------

HandlerStep(h) ==
    /\ Blockers(h) = {}
    /\ \/ LockKey(h)
       \/ LockRun(h)
       \/ LockBank(h)
       \/ Validate(h)
       \/ InsertQuestion(h)
       \/ LookupTag(h)
       \/ InsertTag(h)
       \/ NextItem(h)
       \/ CommitImport(h)
       \/ CommitCreate(h)
       \/ WriteUpdate(h)

Next ==
    \/ \E h \in Handlers :
         \/ BeginImport(h)
         \/ BeginCreate(h)
         \/ BeginUpdate(h)
         \/ HandlerStep(h)
         \/ AbortDeadlock(h)
         \/ Lose(h)
    \/ \E r \in RunsDeleted : DeleteRun(r)
    \/ \E b \in BanksArchived : ArchiveBank(b)

Spec == Init /\ [][Next]_vars

\* A statement that is not blocked runs; locks are granted in the order in which
\* they were asked for, hence strong fairness; the detector looks every second.
FairSpec == Spec /\ \A h \in Handlers : SF_vars(HandlerStep(h) \/ AbortDeadlock(h))

-----------------------------------------------------------------------------
(***************************************************************************)
(* Properties                                                              *)
(***************************************************************************)

\* A bank holds a prompt once, whether it was imported, written or edited into
\* it and however the checks and the writes of concurrent requests interleave.
NoDuplicatePrompts ==
    \A i, j \in DOMAIN questions :
        questions[i].bank = questions[j].bank /\ questions[i].prompt = questions[j].prompt
            => i = j

\* The rows of a key are one batch, that of one request, one for each item.  And
\* retrying returns the original result: every import answered with a result under
\* the key was answered with that batch, and sent that body; an import is refused
\* for the key only when its body differs or its run has been deleted since.
KeyImportsOnce ==
    /\ \A x \in audit :
         /\ \A y \in Existing(x.key) : y.batch = x.batch /\ y.request = x.request
         /\ Cardinality(Existing(x.key)) = Len(x.request.items)
    /\ \A a \in answers :
         IF a.batch = None
         THEN a.request.run \notin runs \/ \E row \in Existing(a.key) : row.request # a.request
         ELSE /\ Existing(a.key) # {}
              /\ \A row \in Existing(a.key) : row.batch = a.batch /\ row.request = a.request

\* The tables keep their types, and the audit explains the library: every imported
\* question has its row and every row its question, a candidate reaches a bank once,
\* and its counter says how many banks it is in.
AuditMatchesLibrary ==
    /\ TypeOK
    /\ \A i \in DOMAIN questions :
         (questions[i].origin # None) <=> \E row \in audit : row.question = i
    /\ \A x, y \in audit : x.question = y.question => x = y
    /\ \A x, y \in audit :
         x.candidate = y.candidate /\ x.candidate # None /\ x.bank = y.bank => x = y
    /\ \A c \in Candidates :
         RunOf[c] \in runs => imported[c] = Cardinality({row \in audit : row.candidate = c})

\* No request waits for ever, although imports lock tags in their own order.
RequestsEnd == \A h \in Handlers : ~At(h, "idle") ~> At(h, "idle")
=============================================================================
