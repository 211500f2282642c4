------------------------- MODULE QuestionLibraryProofs -------------------------
(***************************************************************************)
(* What is proved about the question banks, for any number of requests,    *)
(* banks, candidates and batches of any length.                            *)
(*                                                                         *)
(* A request reads what is committed and writes what nobody sees before    *)
(* its own commit, so what it has found out stays true only because of the *)
(* locks it holds.  The invariant has these layers:                        *)
(*                                                                         *)
(*   RequestsInv  how far a transaction is and which rows it has added     *)
(*   LocksInv     no two transactions hold conflicting locks               *)
(*   EntriesInv   every row added but not committed is new to the library, *)
(*                and its entry in the unique index is locked              *)
(*   KeysInv      what a batch leaves in the audit, and that a key whose   *)
(*                lock is held has no rows                                 *)
(*   AuditInv     which questions and candidates the audit tells of, and   *)
(*                that an import holds its bank from its validation on     *)
(*   TablesInv    what the other tables may hold                           *)
(*   AnswersInv   that a key's rows still name its request's candidates    *)
(*                while its run exists, so that they can be replayed       *)
(***************************************************************************)
EXTENDS QuestionLibrary, SequenceTheorems, FiniteSetTheorems, TLAPS

Question == [bank: Banks, prompt: Prompts, origin: Candidates \cup {None}]

\* A transaction, as a record of its fields.
Tx(pc, op, req, item, tags, locks, added) ==
    [pc |-> pc, op |-> op, req |-> req, item |-> item, tags |-> tags, locks |-> locks,
     added |-> added]

IsTx(t) == t = Tx(t.pc, t.op, t.req, t.item, t.tags, t.locks, t.added)

\* The steps in which a transaction has rows to write.
Writing == {"insert", "tag", "new_tag", "commit"}

\* The i-th row of a transaction.
RowAt(h, i) ==
    IF tx[h].op = "import"
    THEN [bank |-> Req(h).bank, prompt |-> PromptFor(Req(h).items[i]),
          origin |-> Req(h).items[i].candidate]
    ELSE [bank |-> Req(h).bank, prompt |-> Req(h).prompt, origin |-> None]

\* The tables, without what the requests were answered.
libVars == <<runs, archived, questions, audit, imported, slugs>>

\* How many rows it has inserted when it is at the given step.
Inserted(h) ==
    IF tx[h].op = "import" THEN IF At(h, "insert") THEN tx[h].item - 1 ELSE tx[h].item
    ELSE IF At(h, "insert") THEN 0 ELSE 1

\* An import that writes has been validated and is somewhere in its items.
ImportOK(h) ==
    /\ Req(h) \in Imports /\ Prepared(Req(h))
    /\ tx[h].pc \in Writing =>
         /\ CandidatesFound(Req(h)) /\ Reviewed(Req(h))
         /\ tx[h].item \in 1..Len(Req(h).items)
         /\ At(h, "commit") => tx[h].item = Len(Req(h).items)

TxOK(h) ==
    /\ tx[h].pc \in Pcs
    /\ IsTx(tx[h])
    /\ At(h, "idle") => tx[h] = NoTx
    /\ tx[h].pc \in {"key", "run", "bank", "validate"} => tx[h].op = "import"
    /\ tx[h].pc \in Writing => tx[h].op \in {"import", "create"}
    /\ At(h, "write") => tx[h].op = "update"
    /\ tx[h].op = "import" => ImportOK(h)
    /\ tx[h].op = "create" => Req(h).bank \in Banks /\ Req(h).prompt \in Prompts
    /\ tx[h].op = "update" => Req(h).question \in DOMAIN questions /\ Req(h).prompt \in Prompts
    /\ tx[h].added \in Seq(Question)
    /\ Len(tx[h].added) = IF tx[h].pc \in Writing THEN Inserted(h) ELSE 0
    /\ \A i \in 1..Len(tx[h].added) : tx[h].added[i] = RowAt(h, i)

RequestsInv ==
    /\ DOMAIN tx = Handlers
    /\ questions \in Seq(Question)
    /\ \A h \in Handlers : TxOK(h)

-----------------------------------------------------------------------------
(* The moves of a transaction *)

\* Handler h goes on with its request; nobody else moves.
To(h, pc, item, tags, locks, added) ==
    tx' = [tx EXCEPT ![h] = Tx(pc, tx[h].op, tx[h].req, item, tags, locks, added)]

LEMMA ToMoves ==
    ASSUME DOMAIN tx = Handlers, NEW h \in Handlers, NEW pc, NEW item, NEW tags, NEW locks,
           NEW added, To(h, pc, item, tags, locks, added)
    PROVE  /\ DOMAIN tx' = Handlers
           /\ \A g \in Handlers \ {h} : tx'[g] = tx[g]
           /\ tx'[h] = Tx(pc, tx[h].op, tx[h].req, item, tags, locks, added)
           /\ tx'[h].pc = pc /\ tx'[h].op = tx[h].op /\ tx'[h].req = tx[h].req
           /\ tx'[h].item = item /\ tx'[h].locks = locks /\ tx'[h].added = added
           /\ IsTx(tx'[h])
  BY DEF To, Tx, IsTx

LEMMA EndMoves ==
    ASSUME DOMAIN tx = Handlers, NEW h \in Handlers, End(h)
    PROVE  /\ DOMAIN tx' = Handlers
           /\ \A g \in Handlers \ {h} : tx'[g] = tx[g]
           /\ tx'[h] = NoTx
  BY DEF End

\* What the steps of a request do to its record.
Goes(h) ==
    \E pc, item, tags, locks, added :
      /\ To(h, pc, item, tags, locks, added)
      /\ locks \in {tx[h].locks, tx[h].locks \cup Wanted(h)}

\* Writing one field of a transaction.
LEMMA TxExcept ==
    ASSUME NEW pc, NEW op, NEW req, NEW item, NEW tags, NEW locks, NEW added, NEW x
    PROVE  LET t == Tx(pc, op, req, item, tags, locks, added)
           IN  /\ [t EXCEPT !.pc = x] = Tx(x, op, req, item, tags, locks, added)
               /\ [t EXCEPT !.item = x] = Tx(pc, op, req, x, tags, locks, added)
               /\ [t EXCEPT !.tags = x] = Tx(pc, op, req, item, x, locks, added)
               /\ [t EXCEPT !.locks = x] = Tx(pc, op, req, item, tags, x, added)
               /\ [t EXCEPT !.added = x] = Tx(pc, op, req, item, tags, locks, x)
  BY DEF Tx

LEMMA ProceedTo ==
    ASSUME RequestsInv, NEW h \in Handlers, NEW pc, Proceed(h, pc)
    PROVE  To(h, pc, tx[h].item, tx[h].tags, tx[h].locks \cup Wanted(h), tx[h].added)
  <1> DEFINE t == tx[h]
             t1 == Tx(pc, t.op, t.req, t.item, t.tags, t.locks, t.added)
  <1>1. h \in DOMAIN tx /\ t = Tx(t.pc, t.op, t.req, t.item, t.tags, t.locks, t.added)
    BY DEF RequestsInv, TxOK, IsTx
  <1>2. tx' = [tx EXCEPT ![h] = [[t EXCEPT !.pc = pc] EXCEPT !.locks = t.locks \cup Wanted(h)]]
    BY <1>1 DEF Proceed
  <1>3. [t EXCEPT !.pc = pc] = t1
    BY <1>1, TxExcept
  <1>4. [t1 EXCEPT !.locks = t.locks \cup Wanted(h)]
          = Tx(pc, t.op, t.req, t.item, t.tags, t.locks \cup Wanted(h), t.added)
    BY DEF Tx
  <1> QED
    BY <1>2, <1>3, <1>4 DEF To

\* The other ways in which the actions write the record.
LEMMA RecordTo ==
    ASSUME RequestsInv, NEW h \in Handlers, NEW pc, NEW item, NEW tags, NEW added
    PROVE  LET t == tx[h]
           IN  /\ tx' = [tx EXCEPT ![h].pc = pc] =>
                     To(h, pc, t.item, t.tags, t.locks, t.added)
               /\ tx' = [tx EXCEPT ![h].pc = pc, ![h].item = item] =>
                     To(h, pc, item, t.tags, t.locks, t.added)
               /\ tx' = [tx EXCEPT ![h].tags = tags, ![h].locks = @ \cup Wanted(h)] =>
                     To(h, t.pc, t.item, tags, t.locks \cup Wanted(h), t.added)
               /\ tx' = [tx EXCEPT ![h].pc = pc, ![h].tags = tags,
                                   ![h].locks = @ \cup Wanted(h)] =>
                     To(h, pc, t.item, tags, t.locks \cup Wanted(h), t.added)
               /\ tx' = [tx EXCEPT ![h].pc = pc, ![h].tags = tags, ![h].added = added,
                                   ![h].locks = @ \cup Wanted(h)] =>
                     To(h, pc, t.item, tags, t.locks \cup Wanted(h), added)
  <1> DEFINE t == tx[h]
             more == t.locks \cup Wanted(h)
  <1>0. h \in DOMAIN tx /\ t = Tx(t.pc, t.op, t.req, t.item, t.tags, t.locks, t.added)
    BY DEF RequestsInv, TxOK, IsTx
  <1>1. [t EXCEPT !.pc = pc] = Tx(pc, t.op, t.req, t.item, t.tags, t.locks, t.added)
    BY <1>0, TxExcept
  <1>2. [t EXCEPT !.tags = tags] = Tx(t.pc, t.op, t.req, t.item, tags, t.locks, t.added)
    <2>1. [Tx(t.pc, t.op, t.req, t.item, t.tags, t.locks, t.added) EXCEPT !.tags = tags]
            = Tx(t.pc, t.op, t.req, t.item, tags, t.locks, t.added)
      BY DEF Tx
    <2> HIDE DEF t
    <2> QED
      BY <1>0, <2>1
  <1>3. [Tx(pc, t.op, t.req, t.item, t.tags, t.locks, t.added) EXCEPT !.item = item]
          = Tx(pc, t.op, t.req, item, t.tags, t.locks, t.added)
    BY DEF Tx
  <1>4. [Tx(t.pc, t.op, t.req, t.item, tags, t.locks, t.added) EXCEPT !.locks = more]
          = Tx(t.pc, t.op, t.req, t.item, tags, more, t.added)
    BY DEF Tx
  <1>5. [Tx(pc, t.op, t.req, t.item, t.tags, t.locks, t.added) EXCEPT !.tags = tags]
          = Tx(pc, t.op, t.req, t.item, tags, t.locks, t.added)
    BY DEF Tx
  <1>6. [Tx(pc, t.op, t.req, t.item, tags, t.locks, t.added) EXCEPT !.locks = more]
          = Tx(pc, t.op, t.req, t.item, tags, more, t.added)
    BY DEF Tx
  <1>7. [Tx(pc, t.op, t.req, t.item, tags, t.locks, t.added) EXCEPT !.added = added]
          = Tx(pc, t.op, t.req, t.item, tags, t.locks, added)
    BY DEF Tx
  <1>8. [Tx(pc, t.op, t.req, t.item, tags, t.locks, added) EXCEPT !.locks = more]
          = Tx(pc, t.op, t.req, t.item, tags, more, added)
    BY SMTT(60) DEF Tx
  <1>a. tx' = [tx EXCEPT ![h].pc = pc] => To(h, pc, t.item, t.tags, t.locks, t.added)
    BY <1>0, <1>1 DEF To
  <1>b. tx' = [tx EXCEPT ![h].pc = pc, ![h].item = item] =>
          To(h, pc, item, t.tags, t.locks, t.added)
    <2>1. [tx EXCEPT ![h].pc = pc, ![h].item = item]
            = [tx EXCEPT ![h] = [[t EXCEPT !.pc = pc] EXCEPT !.item = item]]
      BY <1>0
    <2> QED
      BY <1>1, <1>3, <2>1 DEF To
  <1>c. tx' = [tx EXCEPT ![h].tags = tags, ![h].locks = @ \cup Wanted(h)] =>
          To(h, t.pc, t.item, tags, more, t.added)
    <2>1. [tx EXCEPT ![h].tags = tags, ![h].locks = @ \cup Wanted(h)]
            = [tx EXCEPT ![h] = [[t EXCEPT !.tags = tags] EXCEPT !.locks = more]]
      BY <1>0
    <2> QED
      BY <1>2, <1>4, <2>1 DEF To
  <1>d. tx' = [tx EXCEPT ![h].pc = pc, ![h].tags = tags, ![h].locks = @ \cup Wanted(h)] =>
          To(h, pc, t.item, tags, more, t.added)
    <2>1. [tx EXCEPT ![h].pc = pc, ![h].tags = tags, ![h].locks = @ \cup Wanted(h)]
            = [tx EXCEPT ![h] =
                 [[[t EXCEPT !.pc = pc] EXCEPT !.tags = tags] EXCEPT !.locks = more]]
      BY <1>0
    <2> QED
      BY <1>1, <1>5, <1>6, <2>1 DEF To
  <1>e. tx' = [tx EXCEPT ![h].pc = pc, ![h].tags = tags, ![h].added = added,
                         ![h].locks = @ \cup Wanted(h)] =>
          To(h, pc, t.item, tags, more, added)
    <2>1. [tx EXCEPT ![h].pc = pc, ![h].tags = tags, ![h].added = added,
                     ![h].locks = @ \cup Wanted(h)]
            = [tx EXCEPT ![h] =
                 [[[[t EXCEPT !.pc = pc] EXCEPT !.tags = tags] EXCEPT !.added = added]
                    EXCEPT !.locks = more]]
      BY <1>0
    <2> QED
      <3>1. [[[[t EXCEPT !.pc = pc] EXCEPT !.tags = tags] EXCEPT !.added = added]
               EXCEPT !.locks = more]
              = Tx(pc, t.op, t.req, t.item, tags, more, added)
        BY <1>1, <1>5, <1>7, <1>8
      <3> QED
        BY <2>1, <3>1 DEF To
  <1> QED
    BY <1>a, <1>b, <1>c, <1>d, <1>e

\* What a request does before its commit.
LEMMA StepMoves ==
    ASSUME RequestsInv, NEW h \in Handlers,
           \/ LockKey(h) \/ LockRun(h) \/ LockBank(h) \/ Validate(h) \/ InsertQuestion(h)
           \/ LookupTag(h) \/ InsertTag(h) \/ NextItem(h)
    PROVE  LET t == tx[h]
               more == t.locks \cup Wanted(h)
           IN  /\ UNCHANGED libVars
               /\ \/ End(h)
                  \/ /\ At(h, "key") /\ Existing(Req(h).key) = {}
                     /\ To(h, "run", t.item, t.tags, more, t.added)
                  \/ At(h, "run") /\ To(h, "bank", t.item, t.tags, more, t.added)
                  \/ At(h, "bank") /\ To(h, "validate", t.item, t.tags, more, t.added)
                  \/ /\ At(h, "validate") /\ Valid(Req(h))
                     /\ To(h, "insert", 1, t.tags, t.locks, t.added)
                  \/ /\ At(h, "insert") /\ Stored(Row(h).bank, Row(h).prompt) = {}
                     /\ To(h, "tag", t.item, TagList(TagNames(h)), more, Append(t.added, Row(h)))
                  \/ /\ At(h, "tag")
                     /\ \/ To(h, "tag", t.item, Tail(t.tags), more, t.added)
                        \/ To(h, "new_tag", t.item, t.tags, t.locks, t.added)
                  \/ At(h, "new_tag") /\ To(h, "tag", t.item, Tail(t.tags), more, t.added)
                  \/ /\ At(h, "tag") /\ t.op = "import" /\ t.item < Len(Req(h).items)
                     /\ To(h, "insert", t.item + 1, t.tags, t.locks, t.added)
                  \/ /\ At(h, "tag") /\ (t.op = "import" => ~ t.item < Len(Req(h).items))
                     /\ To(h, "commit", t.item, t.tags, t.locks, t.added)
  <1>1. CASE LockKey(h) \/ LockRun(h) \/ LockBank(h)
    BY <1>1, ProceedTo DEF LockKey, LockRun, LockBank, rowVars, libVars
  <1>2. CASE Validate(h)
    BY <1>2, RecordTo DEF Validate, rowVars, libVars
  <1>3. CASE InsertQuestion(h)
    BY <1>3, RecordTo DEF InsertQuestion, rowVars, libVars
  <1>4. CASE LookupTag(h)
    BY ZenonT(60), <1>4, RecordTo DEF LookupTag, At, rowVars, libVars
  <1>5. CASE InsertTag(h)
    BY <1>5, RecordTo DEF InsertTag, rowVars, libVars
  <1>6. CASE NextItem(h)
    BY <1>6, RecordTo DEF NextItem, rowVars, libVars
  <1> QED
    BY <1>1, <1>2, <1>3, <1>4, <1>5, <1>6

-----------------------------------------------------------------------------
(* RequestsInv *)

LEMMA NoTxOK == ASSUME NEW h \in Handlers, tx'[h] = NoTx PROVE TxOK(h)'
  <1>1. IsTx(NoTx) /\ NoTx.pc = "idle" /\ NoTx.op = "none" /\ NoTx.added = <<>>
    BY DEF NoTx, IsTx, Tx
  <1> QED
    BY <1>1, EmptySeq DEF TxOK, Pcs, Writing, At, Inserted, Req

LEMMA RowAtSame ==
    ASSUME NEW h \in Handlers, tx'[h].op = tx[h].op, tx'[h].req = tx[h].req
    PROVE  \A i : RowAt(h, i)' = RowAt(h, i)
  BY DEF RowAt, Req, PromptFor

\* What was found of a request stays true while the transaction keeps it.
LEMMA RequestKept ==
    ASSUME NEW h \in Handlers, tx'[h].req = tx[h].req
    PROVE  /\ Req(h)' = Req(h)
           /\ Prepared(Req(h)) => Prepared(Req(h))'
           /\ CandidatesFound(Req(h)) => CandidatesFound(Req(h))'
           /\ Reviewed(Req(h)) => Reviewed(Req(h))'
  <1>1. Req(h)' = Req(h)
    BY DEF Req
  <1>2. Prepared(Req(h)) => Prepared(Req(h))'
    BY <1>1 DEF Prepared, CandidatesOf, FieldsValid
  <1>3. CandidatesFound(Req(h)) => CandidatesFound(Req(h))'
    BY <1>1 DEF CandidatesFound, CandidatesOf
  <1>4. Reviewed(Req(h)) => Reviewed(Req(h))'
    BY <1>1 DEF Reviewed, PromptFor
  <1> QED
    BY <1>1, <1>2, <1>3, <1>4

\* A transaction that did not move is as good as before.
LEMMA OtherOK ==
    ASSUME NEW h \in Handlers, TxOK(h), tx'[h] = tx[h],
           DOMAIN questions \subseteq DOMAIN questions'
    PROVE  TxOK(h)'
  <1>1. /\ \A i : RowAt(h, i)' = RowAt(h, i)
        /\ Inserted(h)' = Inserted(h) /\ Req(h)' = Req(h)
        /\ \A pc : At(h, pc)' = At(h, pc)
    BY RowAtSame DEF Inserted, Req, At
  <1>2. ImportOK(h) => ImportOK(h)'
    BY <1>1, RequestKept DEF ImportOK, At
  <1> QED
    BY <1>1, <1>2 DEF TxOK, IsTx, Tx

\* Going on with the rows it has.
LEMMA SameRowsOK ==
    ASSUME RequestsInv, NEW h \in Handlers, UNCHANGED questions,
           NEW pc \in Pcs \ {"idle", "write"}, NEW item, NEW tags, NEW locks,
           To(h, pc, item, tags, locks, tx[h].added),
           tx[h].pc \in Pcs \ {"idle", "write"},
           pc \in Writing \/ tx[h].op = "import",
           tx[h].op = "import" => ImportOK(h)',
           Len(tx[h].added) = IF pc \in Writing THEN Inserted(h)' ELSE 0
    PROVE  TxOK(h)'
  <1>1. DOMAIN tx = Handlers /\ TxOK(h)
    BY DEF RequestsInv
  <1>2. /\ tx'[h].pc = pc /\ tx'[h].op = tx[h].op /\ tx'[h].req = tx[h].req
        /\ tx'[h].added = tx[h].added /\ IsTx(tx'[h])
    BY <1>1, ToMoves
  <1>3. tx[h].op \in {"import", "create"}
    <2>0. \A x \in Pcs \ {"idle", "write"} :
             x \in {"key", "run", "bank", "validate"} \/ x \in Writing
      BY DEF Pcs, Writing
    <2>1. tx[h].pc \in {"key", "run", "bank", "validate"} \/ tx[h].pc \in Writing
      BY <2>0
    <2> QED
      BY <1>1, <2>1 DEF TxOK
  <1>4. \A i : RowAt(h, i)' = RowAt(h, i)
    BY <1>2, RowAtSame
  <1> QED
    BY <1>1, <1>2, <1>3, <1>4 DEF TxOK, At, Req, Pcs, Writing

\* What is known of a transaction's request and rows.
LEMMA TxFacts ==
    ASSUME RequestsInv, NEW h \in Handlers
    PROVE  /\ DOMAIN tx = Handlers /\ TxOK(h) /\ tx[h].pc \in Pcs
           /\ tx[h].added \in Seq(Question) /\ Len(tx[h].added) \in Nat
           /\ tx[h].op = "import" => ImportOK(h)
           /\ tx[h].pc \in Writing => Len(tx[h].added) = Inserted(h)
           /\ tx[h].pc \notin Writing => Len(tx[h].added) = 0
           /\ tx[h].pc \in {"key", "run", "bank", "validate"} => tx[h].op = "import"
           /\ tx[h].pc \in Writing => tx[h].op \in {"import", "create"}
           /\ tx[h].pc \in Writing => tx[h].pc \in Pcs \ {"idle", "write"}
           /\ tx[h].pc \in {"key", "run", "bank", "validate"} => tx[h].pc \in Pcs \ {"idle", "write"}
  <1>1. DOMAIN tx = Handlers /\ TxOK(h)
    BY DEF RequestsInv
  <1>2. /\ tx[h].pc \in Writing => tx[h].pc \in Pcs \ {"idle", "write"}
        /\ tx[h].pc \in {"key", "run", "bank", "validate"} => tx[h].pc \in Pcs \ {"idle", "write"}
    BY DEF Pcs, Writing
  <1>3. Len(tx[h].added) \in Nat
    BY <1>1, LenProperties DEF TxOK
  <1> QED
    BY <1>1, <1>2, <1>3 DEF TxOK

LEMMA PcCases ==
    /\ {"run", "bank", "validate", "insert", "tag", "new_tag", "commit"} \subseteq Pcs \ {"idle", "write"}
    /\ Writing = {"insert", "tag", "new_tag", "commit"}
    /\ {"key", "run", "bank", "validate"} \cap Writing = {}
  BY DEF Pcs, Writing

\* The items of a request.
LEMMA ItemTypes ==
    ASSUME NEW req \in Imports
    PROVE  /\ req.run \in Runs /\ req.bank \in Banks
           /\ Len(req.items) \in Nat /\ DOMAIN req.items = 1..Len(req.items)
           /\ \A i \in 1..Len(req.items) :
                /\ req.items[i].candidate \in Candidates
                /\ req.items[i].prompt \in Prompts \cup {None}
                /\ PromptFor(req.items[i]) \in Prompts
  <1> DEFINE Items == [candidate: Candidates, revision: Nat, prompt: Prompts \cup {None},
                       tags: Seq(DOMAIN SlugOf) \cup {None}, wellFormed: BOOLEAN]
  <1>1. req.items \in Seq(Items) /\ req.run \in Runs /\ req.bank \in Banks
    BY LibraryAssumption
  <1>2. /\ Len(req.items) \in Nat /\ DOMAIN req.items = 1..Len(req.items)
        /\ \A i \in 1..Len(req.items) : req.items[i] \in Items
    <2> HIDE DEF Items
    <2> QED
      BY <1>1, LenProperties, ElementOfSeq
  <1> QED
    BY <1>1, <1>2, LibraryAssumption DEF PromptFor

LEMMA RowType ==
    ASSUME RequestsInv, NEW h \in Handlers, At(h, "insert")
    PROVE  /\ Row(h) \in Question
           /\ Row(h) = RowAt(h, Len(tx[h].added) + 1)
  <1>1. TxOK(h) /\ tx[h].pc \in Writing /\ tx[h].op \in {"import", "create"}
        /\ Len(tx[h].added) = Inserted(h)
    BY TxFacts DEF At, Writing
  <1>2. CASE tx[h].op = "import"
    <2>1. Req(h) \in Imports /\ tx[h].item \in 1..Len(Req(h).items)
      BY <1>1, <1>2, TxFacts DEF ImportOK
    <2>2. Len(Req(h).items) \in Nat
      BY <2>1, ItemTypes
    <2>3. Len(tx[h].added) + 1 = tx[h].item
      BY <1>1, <1>2, <2>1, <2>2 DEF Inserted
    <2>4. Row(h) = [bank |-> Req(h).bank, prompt |-> PromptFor(Req(h).items[tx[h].item]),
                    origin |-> Req(h).items[tx[h].item].candidate]
      BY <1>2 DEF Row, Item
    <2> QED
      BY <1>2, <2>1, <2>3, <2>4, ItemTypes DEF RowAt, Question
  <1>3. CASE tx[h].op = "create"
    <2>1. Req(h).bank \in Banks /\ Req(h).prompt \in Prompts
      BY <1>1, <1>3 DEF TxOK
    <2> QED
      BY <1>3, <2>1 DEF Row, RowAt, Question
  <1> QED
    BY <1>1, <1>2, <1>3

\* Each step before the commit, and the ways out of a transaction.
LEMMA StepsOK ==
    ASSUME RequestsInv, NEW h \in Handlers,
           \/ LockKey(h) \/ LockRun(h) \/ LockBank(h) \/ Validate(h) \/ InsertQuestion(h)
           \/ LookupTag(h) \/ InsertTag(h) \/ NextItem(h)
    PROVE  RequestsInv'
  <1> DEFINE t == tx[h]
             more == t.locks \cup Wanted(h)
             n == Len(Req(h).items)
  <1>0. UNCHANGED libVars /\ UNCHANGED questions
    BY StepMoves DEF libVars
  <1>1. /\ DOMAIN tx = Handlers /\ TxOK(h) /\ t.pc \in Pcs /\ Len(t.added) \in Nat
        /\ t.op = "import" => ImportOK(h) /\ n \in Nat
    BY TxFacts, ItemTypes DEF ImportOK
  <1>2. ASSUME DOMAIN tx' = Handlers, \A g \in Handlers \ {h} : tx'[g] = tx[g], TxOK(h)'
        PROVE  RequestsInv'
    <2>1. ASSUME NEW g \in Handlers \ {h} PROVE TxOK(g)'
      BY <1>0, <1>2, OtherOK DEF RequestsInv
    <2> QED
      BY <1>0, <1>2, <2>1 DEF RequestsInv
  <1>3. CASE End(h)
    BY <1>1, <1>2, <1>3, EndMoves, NoTxOK DEF NoTx
  <1>4. ASSUME NEW pc \in {"run", "bank", "validate", "insert", "tag", "new_tag", "commit"},
               NEW item, NEW tags, NEW locks,
               To(h, pc, item, tags, locks, t.added),
               t.pc \in Pcs \ {"idle", "write"},
               pc \in Writing \/ t.op = "import",
               t.op = "import" /\ pc \in Writing =>
                 /\ CandidatesFound(Req(h)) /\ Reviewed(Req(h))
                 /\ item \in 1..n
                 /\ pc = "commit" => item = n,
               Len(t.added) = IF pc \in Writing
                              THEN IF t.op = "import" THEN IF pc = "insert" THEN item - 1 ELSE item
                                   ELSE IF pc = "insert" THEN 0 ELSE 1
                              ELSE 0
        PROVE  RequestsInv'
    <2>1. /\ tx'[h].pc = pc /\ tx'[h].op = t.op /\ tx'[h].req = t.req /\ tx'[h].item = item
          /\ \A g \in Handlers \ {h} : tx'[g] = tx[g]
          /\ DOMAIN tx' = Handlers
      BY <1>1, <1>4, ToMoves
    <2>2. t.op = "import" => ImportOK(h)'
      BY <1>1, <1>4, <2>1, RequestKept DEF ImportOK, At
    <2>3. (IF pc \in Writing THEN Inserted(h)' ELSE 0) = Len(t.added)
      BY <1>4, <2>1 DEF Inserted, At
    <2>4. TxOK(h)'
      BY <1>0, <1>4, <2>2, <2>3, PcCases, SameRowsOK
    <2> QED
      BY <1>2, <2>1, <2>4
  <1> HIDE DEF t, more, n
  <1>5. CASE /\ At(h, "key") /\ To(h, "run", t.item, t.tags, more, t.added)
    BY <1>1, <1>4, <1>5, TxFacts, PcCases DEF At, t
  <1>6. CASE \/ At(h, "run") /\ To(h, "bank", t.item, t.tags, more, t.added)
             \/ At(h, "bank") /\ To(h, "validate", t.item, t.tags, more, t.added)
    BY <1>1, <1>4, <1>6, TxFacts, PcCases DEF At, t
  <1>7. CASE At(h, "validate") /\ Valid(Req(h)) /\ To(h, "insert", 1, t.tags, t.locks, t.added)
    <2>1. t.op = "import" /\ Len(t.added) = 0 /\ t.pc \in Pcs \ {"idle", "write"}
      BY <1>7, TxFacts, PcCases DEF At, t
    <2>2. 1 \in 1..n
      BY <1>1, <2>1 DEF ImportOK, Prepared, n
    <2> QED
      BY <1>1, <1>4, <1>7, <2>1, <2>2, PcCases DEF Valid
  <1>a. t.pc \in Writing =>
          /\ t.pc \in Pcs \ {"idle", "write"}
          /\ Len(t.added) = Inserted(h)
          /\ t.op \in {"import", "create"}
          /\ t.op = "import" => /\ CandidatesFound(Req(h)) /\ Reviewed(Req(h))
                               /\ t.item \in 1..n
    BY TxFacts DEF ImportOK, n, t
  <1>8. CASE At(h, "insert") /\ To(h, "tag", t.item, TagList(TagNames(h)), more, Append(t.added, Row(h)))
    <2>1. t.pc = "insert"
      BY <1>8 DEF At, t
    <2>2. /\ Row(h) \in Question /\ Row(h) = RowAt(h, Len(t.added) + 1)
          /\ t.added \in Seq(Question)
      BY <1>8, RowType, TxFacts DEF t
    <2>3. /\ tx'[h].pc = "tag" /\ tx'[h].op = t.op /\ tx'[h].req = t.req /\ tx'[h].item = t.item
          /\ tx'[h].added = Append(t.added, Row(h)) /\ IsTx(tx'[h])
          /\ \A g \in Handlers \ {h} : tx'[g] = tx[g]
          /\ DOMAIN tx' = Handlers
      <3>1. PICK pc, item, tags, locks, added :
              /\ To(h, pc, item, tags, locks, added)
              /\ pc = "tag" /\ item = t.item /\ added = Append(t.added, Row(h))
        BY <1>8
      <3>2. /\ tx'[h].pc = pc /\ tx'[h].op = tx[h].op /\ tx'[h].req = tx[h].req
            /\ tx'[h].item = item /\ tx'[h].added = added /\ IsTx(tx'[h])
            /\ \A g \in Handlers \ {h} : tx'[g] = tx[g]
            /\ DOMAIN tx' = Handlers
        <4>1. DOMAIN tx = Handlers /\ To(h, pc, item, tags, locks, added)
          BY <1>1, <3>1
        <4> QED
          BY <4>1, ToMoves
      <3> QED
        BY <3>1, <3>2 DEF t
    <2>4. /\ tx'[h].added \in Seq(Question)
          /\ Len(tx'[h].added) = Len(t.added) + 1
          /\ \A i \in 1..Len(tx'[h].added) : tx'[h].added[i] = RowAt(h, i)
      <3>1. \A i \in 1..Len(t.added) : t.added[i] = RowAt(h, i)
        BY <1>1 DEF TxOK, t
      <3>2. /\ Append(t.added, Row(h)) \in Seq(Question)
            /\ Len(Append(t.added, Row(h))) = Len(t.added) + 1
            /\ \A i \in 1..Len(t.added) : Append(t.added, Row(h))[i] = t.added[i]
            /\ Append(t.added, Row(h))[Len(t.added) + 1] = Row(h)
        BY <2>2, AppendProperties
      <3> QED
        BY <1>1, <2>2, <2>3, <3>1, <3>2
    <2>5. \A i : RowAt(h, i)' = RowAt(h, i)
      BY <2>3, RowAtSame DEF t
    <2>6. Len(tx'[h].added) = Inserted(h)'
      BY <1>1, <1>a, <2>1, <2>3, <2>4, PcCases DEF Inserted, At, t
    <2>7. t.op = "import" => ImportOK(h)'
      <3>1. ASSUME t.op = "import"
            PROVE  /\ Req(h) \in Imports /\ Prepared(Req(h))
                   /\ CandidatesFound(Req(h)) /\ Reviewed(Req(h))
                   /\ t.item \in 1..n
        BY <1>1, <1>a, <2>1, <3>1, PcCases DEF ImportOK
      <3> QED
        BY <2>3, <3>1, RequestKept DEF ImportOK, At, n, t
    <2>8. t.op \in {"import", "create"}
      BY <1>a, <2>1, PcCases
    <2>9. t.op = "create" => Req(h).bank \in Banks /\ Req(h).prompt \in Prompts
      BY <1>1 DEF TxOK, t
    <2>10. TxOK(h)'
      BY <2>3, <2>4, <2>5, <2>6, <2>7, <2>8, <2>9 DEF TxOK, At, Req, Pcs, Writing, t
    <2> QED
      BY <1>2, <2>3, <2>10
  <1>9. CASE /\ At(h, "tag")
             /\ \/ To(h, "tag", t.item, Tail(t.tags), more, t.added)
                \/ To(h, "new_tag", t.item, t.tags, t.locks, t.added)
    <2>0. At(h, "tag")
      BY <1>9
    <2>1. t.pc = "tag"
      BY <2>0 DEF At, t
    <2>2. Len(t.added) = IF t.op = "import" THEN t.item ELSE 1
      BY <1>a, <2>1, PcCases DEF Inserted, At, t
    <2> QED
      BY <1>1, <1>4, <1>9, <1>a, <2>1, <2>2, PcCases
  <1>10. CASE At(h, "new_tag") /\ To(h, "tag", t.item, Tail(t.tags), more, t.added)
    <2>1. t.pc = "new_tag"
      BY <1>10 DEF At, t
    <2>2. Len(t.added) = IF t.op = "import" THEN t.item ELSE 1
      BY <1>a, <2>1, PcCases DEF Inserted, At, t
    <2> QED
      BY <1>1, <1>4, <1>10, <1>a, <2>1, <2>2, PcCases
  <1>11. CASE /\ At(h, "tag") /\ t.op = "import" /\ t.item < n
              /\ To(h, "insert", t.item + 1, t.tags, t.locks, t.added)
    <2>1. t.pc = "tag"
      BY <1>11 DEF At, t
    <2>2. Len(t.added) = t.item
      BY <1>11, <1>a, <2>1, PcCases DEF Inserted, At, t
    <2>3. t.item + 1 \in 1..n /\ t.item = (t.item + 1) - 1
      BY <1>1, <1>11, <1>a, <2>1, PcCases
    <2> QED
      BY <1>1, <1>4, <1>11, <1>a, <2>1, <2>2, <2>3, PcCases
  <1>12. CASE /\ At(h, "tag") /\ (t.op = "import" => ~ t.item < n)
              /\ To(h, "commit", t.item, t.tags, t.locks, t.added)
    <2>1. t.pc = "tag"
      BY <1>12 DEF At, t
    <2>2. Len(t.added) = IF t.op = "import" THEN t.item ELSE 1
      BY <1>a, <2>1, PcCases DEF Inserted, At, t
    <2>3. t.op = "import" => t.item = n
      BY <1>1, <1>12, <1>a, <2>1, PcCases
    <2> QED
      BY <1>1, <1>4, <1>12, <1>a, <2>1, <2>2, <2>3, PcCases
  <1> QED
    BY <1>3, <1>5, <1>6, <1>7, <1>8, <1>9, <1>10, <1>11, <1>12, StepMoves DEF t, more, n

\* A request begins with nothing locked and nothing added.
BeginsWith(h, pc, op, req) ==
    tx' = [tx EXCEPT ![h] = [NoTx EXCEPT !.pc = pc, !.op = op, !.req = req]]

Begins(h) == \E pc, op, req : BeginsWith(h, pc, op, req) /\ (op = "import" => pc = "key")

LEMMA BeginMoves ==
    ASSUME NEW h \in Handlers, DOMAIN tx = Handlers, NEW pc, NEW op, NEW req,
           BeginsWith(h, pc, op, req)
    PROVE  /\ DOMAIN tx' = Handlers
           /\ \A g \in Handlers \ {h} : tx'[g] = tx[g]
           /\ tx'[h].pc = pc /\ tx'[h].op = op /\ tx'[h].req = req
           /\ tx'[h].locks = {} /\ tx'[h].added = <<>> /\ IsTx(tx'[h])
  <1>0. PICK pc0, op0, req0, item, tags, locks, added :
          NoTx = Tx(pc0, op0, req0, item, tags, locks, added) /\ locks = {} /\ added = <<>>
    BY DEF NoTx, Tx
  <1>1. [Tx(pc0, op0, req0, item, tags, locks, added) EXCEPT !.pc = pc]
          = Tx(pc, op0, req0, item, tags, locks, added)
    BY DEF Tx
  <1>2. [Tx(pc, op0, req0, item, tags, locks, added) EXCEPT !.op = op]
          = Tx(pc, op, req0, item, tags, locks, added)
    BY DEF Tx
  <1>3. [Tx(pc, op, req0, item, tags, locks, added) EXCEPT !.req = req]
          = Tx(pc, op, req, item, tags, locks, added)
    BY DEF Tx
  <1>4. [NoTx EXCEPT !.pc = pc, !.op = op, !.req = req] = Tx(pc, op, req, item, tags, locks, added)
    BY <1>0, <1>1, <1>2, <1>3
  <1>5. tx' = [tx EXCEPT ![h] = Tx(pc, op, req, item, tags, locks, added)]
    BY <1>4 DEF BeginsWith
  <1> QED
    BY <1>0, <1>5 DEF Tx, IsTx

LEMMA BeginsOK ==
    ASSUME RequestsInv, NEW h \in Handlers, BeginImport(h) \/ BeginCreate(h) \/ BeginUpdate(h)
    PROVE  RequestsInv' /\ Begins(h)
  <1>0. DOMAIN tx = Handlers /\ UNCHANGED questions
    BY DEF RequestsInv, BeginImport, BeginCreate, BeginUpdate, rowVars, libVars
  <1>1. PICK pc, op, req :
          /\ BeginsWith(h, pc, op, req)
          /\ \/ pc = "key" /\ op = "import" /\ req \in Imports /\ Prepared(req)
             \/ pc = "insert" /\ op = "create" /\ req.bank \in Banks /\ req.prompt \in Prompts
             \/ pc = "write" /\ op = "update" /\ req.question \in DOMAIN questions
                /\ req.prompt \in Prompts
    <2>1. CASE BeginImport(h)
      BY <2>1 DEF BeginImport, BeginsWith
    <2>2. CASE BeginCreate(h)
      <3>1. PICK b \in Banks, p \in Prompts :
              BeginsWith(h, "insert", "create", [bank |-> b, prompt |-> p])
        BY <2>2, LibraryAssumption DEF BeginCreate, BeginsWith
      <3>2. PICK req : req = [bank |-> b, prompt |-> p]
        OBVIOUS
      <3>3. BeginsWith(h, "insert", "create", req) /\ req.bank = b /\ req.prompt = p
        BY <3>1, <3>2
      <3> QED
        BY <3>3
    <2>3. CASE BeginUpdate(h)
      <3>1. PICK i \in DOMAIN questions, p \in Prompts :
              BeginsWith(h, "write", "update", [question |-> i, prompt |-> p])
        BY <2>3, LibraryAssumption DEF BeginUpdate, BeginsWith
      <3>2. PICK req : req = [question |-> i, prompt |-> p]
        OBVIOUS
      <3>3. BeginsWith(h, "write", "update", req) /\ req.question = i /\ req.prompt = p
        BY <3>1, <3>2
      <3> QED
        BY <3>3
    <2> QED
      BY <2>1, <2>2, <2>3
  <1>2. /\ DOMAIN tx' = Handlers
        /\ \A g \in Handlers \ {h} : tx'[g] = tx[g]
        /\ tx'[h].pc = pc /\ tx'[h].op = op /\ tx'[h].req = req
        /\ tx'[h].added = <<>> /\ IsTx(tx'[h])
    <2>1. BeginsWith(h, pc, op, req)
      BY <1>1
    <2> QED
      BY <1>0, <2>1, BeginMoves
  <1>3. pc \in Writing <=> pc = "insert"
    BY <1>1 DEF Writing
  <1>4. TxOK(h)'
    <2>1. Len(tx'[h].added) = 0 /\ tx'[h].added \in Seq(Question)
      BY <1>2, EmptySeq
    <2>2. tx'[h].pc \in Pcs /\ tx'[h].pc # "idle"
      BY <1>1, <1>2 DEF Pcs
    <2>3. tx'[h].op = "import" => ImportOK(h)'
      BY <1>1, <1>2, <1>3
      DEF ImportOK, Req, Prepared, CandidatesOf, FieldsValid, At
    <2> QED
      BY <1>0, <1>1, <1>2, <1>3, <2>1, <2>2, <2>3 DEF TxOK, At, Req, Writing, Inserted
  <1>5. ASSUME NEW g \in Handlers \ {h} PROVE TxOK(g)'
    BY <1>0, <1>2, OtherOK DEF RequestsInv
  <1> QED
    BY <1>0, <1>1, <1>2, <1>4, <1>5 DEF RequestsInv, Begins

\* The rows a transaction commits are questions.
LEMMA Committed ==
    ASSUME RequestsInv, NEW h \in Handlers, CommitImport(h) \/ CommitCreate(h)
    PROVE  /\ End(h)
           /\ questions' = questions \o tx[h].added
           /\ questions' \in Seq(Question)
           /\ Len(questions) \in Nat /\ Len(tx[h].added) \in Nat
           /\ Len(questions') = Len(questions) + Len(tx[h].added)
           /\ \A i \in 1..Len(questions) : questions'[i] = questions[i]
           /\ \A i \in 1..Len(tx[h].added) : questions'[Len(questions) + i] = tx[h].added[i]
           /\ DOMAIN questions = 1..Len(questions) /\ DOMAIN questions' = 1..Len(questions')
  <1>1. End(h) /\ questions' = questions \o tx[h].added
    BY DEF CommitImport, CommitCreate
  <1>2. questions \in Seq(Question) /\ tx[h].added \in Seq(Question)
    BY TxFacts DEF RequestsInv
  <1>3. Len(questions) \in Nat /\ Len(tx[h].added) \in Nat
    BY <1>2, LenProperties
  <1>4. /\ questions' \in Seq(Question)
        /\ Len(questions') = Len(questions) + Len(tx[h].added)
        /\ \A i \in 1..(Len(questions) + Len(tx[h].added)) :
             questions'[i] = IF i <= Len(questions) THEN questions[i]
                             ELSE tx[h].added[i - Len(questions)]
    BY <1>1, <1>2, ConcatProperties
  <1>5. DOMAIN questions = 1..Len(questions) /\ DOMAIN questions' = 1..Len(questions')
    BY <1>2, <1>4, LenProperties
  <1>6. ASSUME NEW i \in 1..Len(tx[h].added)
        PROVE  questions'[Len(questions) + i] = tx[h].added[i]
    <2>1. /\ Len(questions) + i \in 1..(Len(questions) + Len(tx[h].added))
          /\ ~ (Len(questions) + i <= Len(questions))
          /\ (Len(questions) + i) - Len(questions) = i
      BY <1>3
    <2> QED
      BY <1>4, <2>1
  <1> QED
    BY <1>1, <1>3, <1>4, <1>5, <1>6

LEMMA Updated ==
    ASSUME RequestsInv, NEW h \in Handlers, WriteUpdate(h)
    PROVE  /\ End(h)
           /\ questions' \in Seq(Question) /\ DOMAIN questions' = DOMAIN questions
           /\ DOMAIN questions = 1..Len(questions) /\ Len(questions') = Len(questions)
           /\ Req(h).question \in DOMAIN questions
           /\ \A i \in DOMAIN questions :
                /\ questions'[i].bank = questions[i].bank
                /\ questions'[i].origin = questions[i].origin
                /\ i # Req(h).question => questions'[i].prompt = questions[i].prompt
           /\ LET i == Req(h).question
              IN  \/ questions' = questions
                  \/ /\ Stored(questions[i].bank, Req(h).prompt) \subseteq {i}
                     /\ questions'[i].prompt = Req(h).prompt
  <1>1. questions \in Seq(Question) /\ DOMAIN questions = 1..Len(questions)
    BY LenProperties DEF RequestsInv
  <1>2. PICK i \in DOMAIN questions, p \in Prompts : i = Req(h).question /\ p = Req(h).prompt
    BY TxFacts DEF WriteUpdate, At, TxOK
  <1>3. CASE questions' = questions
    BY <1>1, <1>2, <1>3 DEF WriteUpdate
  <1>4. CASE questions' # questions
    <2>1. /\ Stored(questions[i].bank, p) \subseteq {i}
          /\ questions' = [questions EXCEPT ![i].prompt = p]
      BY <1>2, <1>4 DEF WriteUpdate
    <2>2. questions[i] \in Question
      BY <1>1, <1>2, ElementOfSeq
    <2>3. /\ [questions[i] EXCEPT !.prompt = p] \in Question
          /\ [questions[i] EXCEPT !.prompt = p].bank = questions[i].bank
          /\ [questions[i] EXCEPT !.prompt = p].origin = questions[i].origin
          /\ [questions[i] EXCEPT !.prompt = p].prompt = p
      BY <2>2 DEF Question
    <2>4. PICK q \in Question : /\ q.bank = questions[i].bank /\ q.origin = questions[i].origin
                                /\ q.prompt = p
                                /\ questions' = [questions EXCEPT ![i] = q]
      BY <2>1, <2>3
    <2>5. /\ questions' \in Seq(Question) /\ Len(questions') = Len(questions)
          /\ \A j \in 1..Len(questions) : questions'[j] = IF j = i THEN q ELSE questions[j]
      BY <1>1, <1>2, <2>4, ExceptSeq
    <2>6. DOMAIN questions' = 1..Len(questions')
      BY <2>5, LenProperties
    <2> QED
      BY <1>1, <1>2, <2>1, <2>4, <2>5, <2>6 DEF WriteUpdate
  <1> QED
    BY <1>3, <1>4

LEMMA EndsOK ==
    ASSUME RequestsInv, NEW h \in Handlers, End(h),
           questions' \in Seq(Question), DOMAIN questions \subseteq DOMAIN questions'
    PROVE  RequestsInv'
  <1>1. /\ DOMAIN tx' = Handlers
        /\ \A g \in Handlers \ {h} : tx'[g] = tx[g]
        /\ tx'[h] = NoTx
    BY EndMoves DEF RequestsInv
  <1>2. TxOK(h)'
    BY <1>1, NoTxOK
  <1>3. ASSUME NEW g \in Handlers \ {h} PROVE TxOK(g)'
    BY <1>1, OtherOK DEF RequestsInv
  <1> QED
    BY <1>1, <1>2, <1>3 DEF RequestsInv

LEMMA NobodyOK ==
    ASSUME RequestsInv, UNCHANGED <<questions, tx>> PROVE RequestsInv'
  <1>1. ASSUME NEW g \in Handlers PROVE TxOK(g)'
    BY OtherOK DEF RequestsInv
  <1> QED
    BY <1>1 DEF RequestsInv

LEMMA RequestsInit == Init => RequestsInv
  <1> SUFFICES ASSUME Init PROVE RequestsInv
    OBVIOUS
  <1>1. /\ DOMAIN tx = Handlers /\ \A h \in Handlers : tx[h] = NoTx
        /\ questions \in Seq(Question)
    BY EmptySeq DEF Init
  <1>2. IsTx(NoTx) /\ NoTx.pc = "idle" /\ NoTx.op = "none" /\ NoTx.added = <<>>
    BY DEF NoTx, IsTx, Tx
  <1>3. ASSUME NEW h \in Handlers PROVE TxOK(h)
    <2>1. /\ tx[h] = NoTx /\ IsTx(tx[h]) /\ tx[h].pc = "idle" /\ tx[h].op = "none"
          /\ tx[h].added = <<>>
      BY <1>1, <1>2
    <2>2. tx[h].added \in Seq(Question) /\ Len(tx[h].added) = 0
      BY <2>1, EmptySeq
    <2> QED
      BY <2>1, <2>2 DEF TxOK, Pcs, Writing, At
  <1> QED
    BY <1>1, <1>3 DEF RequestsInv

LEMMA RequestsNext == RequestsInv /\ [Next]_vars => RequestsInv'
  <1> SUFFICES ASSUME RequestsInv, [Next]_vars PROVE RequestsInv'
    OBVIOUS
  <1>1. ASSUME NEW h \in Handlers, HandlerStep(h) PROVE RequestsInv'
    <2>1. CASE CommitImport(h) \/ CommitCreate(h)
      BY <2>1, Committed, EndsOK
    <2>2. CASE WriteUpdate(h)
      BY <2>2, Updated, EndsOK
    <2> QED
      BY <1>1, <2>1, <2>2, StepsOK DEF HandlerStep
  <1>2. ASSUME NEW h \in Handlers, AbortDeadlock(h) \/ Lose(h) PROVE RequestsInv'
    BY <1>2, EndsOK DEF AbortDeadlock, Lose, RequestsInv, rowVars, libVars
  <1>3. ASSUME NEW x, DeleteRun(x) \/ ArchiveBank(x) PROVE RequestsInv'
    BY <1>3, NobodyOK DEF DeleteRun, ArchiveBank
  <1>4. CASE UNCHANGED vars
    BY <1>4, NobodyOK DEF vars
  <1> QED
    BY <1>1, <1>2, <1>3, <1>4, BeginsOK DEF Next

LEMMA RequestsInvariance == Spec => []RequestsInv
  BY RequestsInit, RequestsNext, PTL DEF Spec

-----------------------------------------------------------------------------
(* What a step leaves of a transaction's locks and rows *)

\* It is over, or it keeps its request and its locks and takes what it wanted.
Keeps(h) ==
    /\ tx'[h].op = tx[h].op /\ tx'[h].req = tx[h].req
    /\ tx'[h].locks \in {tx[h].locks, tx[h].locks \cup Wanted(h)}
    /\ tx[h].pc \in {"key", "run", "bank", "insert"} =>
         tx'[h].locks = tx[h].locks \cup Wanted(h)
    /\ tx[h].pc = "key" => Existing(Req(h).key) = {}
    /\ tx[h].pc \in {"key", "run", "bank", "validate", "insert", "tag", "new_tag"}
    /\ tx'[h].pc \in {"run", "bank", "validate"} \cup Writing
    /\ tx'[h].pc = "validate" => tx[h].pc = "bank"
    /\ tx'[h].pc \in Writing /\ tx[h].pc \notin Writing =>
         tx[h].pc = "validate" /\ Valid(Req(h))
    /\ \/ tx'[h].added = tx[h].added
       \/ /\ tx[h].pc = "insert"
          /\ tx'[h].added = Append(tx[h].added, Row(h))
          /\ Stored(Row(h).bank, Row(h).prompt) = {}

LEMMA StepEffect ==
    ASSUME RequestsInv, NEW h \in Handlers,
           \/ LockKey(h) \/ LockRun(h) \/ LockBank(h) \/ Validate(h) \/ InsertQuestion(h)
           \/ LookupTag(h) \/ InsertTag(h) \/ NextItem(h)
    PROVE  /\ UNCHANGED libVars
           /\ \A g \in Handlers \ {h} : tx'[g] = tx[g]
           /\ tx'[h] = NoTx \/ Keeps(h)
  <1> DEFINE t == tx[h]
             more == t.locks \cup Wanted(h)
  <1>0. DOMAIN tx = Handlers /\ UNCHANGED libVars
    BY StepMoves, TxFacts
  <1>1. ASSUME NEW pc, NEW item, NEW tags, NEW locks, NEW added,
               To(h, pc, item, tags, locks, added)
        PROVE  /\ tx'[h].pc = pc /\ tx'[h].op = tx[h].op /\ tx'[h].req = tx[h].req
               /\ tx'[h].locks = locks /\ tx'[h].added = added
               /\ \A g \in Handlers \ {h} : tx'[g] = tx[g]
    BY <1>0, <1>1, ToMoves
  <1>2. CASE End(h)
    BY <1>0, <1>2, EndMoves
  <1>3. CASE At(h, "key") /\ Existing(Req(h).key) = {} /\ To(h, "run", t.item, t.tags, more, t.added)
    BY <1>0, <1>1, <1>3 DEF Keeps, At, Writing
  <1>4. CASE At(h, "run") /\ To(h, "bank", t.item, t.tags, more, t.added)
    BY <1>0, <1>1, <1>4 DEF Keeps, At, Writing
  <1>5. CASE At(h, "bank") /\ To(h, "validate", t.item, t.tags, more, t.added)
    BY <1>0, <1>1, <1>5 DEF Keeps, At, Writing
  <1>6. CASE At(h, "validate") /\ Valid(Req(h)) /\ To(h, "insert", 1, t.tags, t.locks, t.added)
    BY <1>0, <1>1, <1>6 DEF Keeps, At, Writing
  <1>7. CASE /\ At(h, "insert") /\ Stored(Row(h).bank, Row(h).prompt) = {}
             /\ To(h, "tag", t.item, TagList(TagNames(h)), more, Append(t.added, Row(h)))
    <2>1. PICK tags, added : To(h, "tag", t.item, tags, more, added) /\ added = Append(t.added, Row(h))
      BY <1>7
    <2>2. /\ tx'[h].pc = "tag" /\ tx'[h].op = tx[h].op /\ tx'[h].req = tx[h].req
          /\ tx'[h].locks = more /\ tx'[h].added = added
          /\ \A g \in Handlers \ {h} : tx'[g] = tx[g]
      <3>1. To(h, "tag", t.item, tags, more, added)
        BY <2>1
      <3> QED
        BY <1>1, <3>1
    <2>3. tx[h].pc = "insert" /\ Stored(Row(h).bank, Row(h).prompt) = {}
      BY <1>7 DEF At
    <2>4. tx'[h].added = Append(tx[h].added, Row(h))
      BY <2>1, <2>2
    <2> QED
      BY <1>0, <2>2, <2>3, <2>4 DEF Keeps, Writing
  <1>8. CASE /\ At(h, "tag")
             /\ \/ To(h, "tag", t.item, Tail(t.tags), more, t.added)
                \/ To(h, "new_tag", t.item, t.tags, t.locks, t.added)
    BY <1>0, <1>1, <1>8 DEF Keeps, At, Writing
  <1>9. CASE At(h, "new_tag") /\ To(h, "tag", t.item, Tail(t.tags), more, t.added)
    BY <1>0, <1>1, <1>9 DEF Keeps, At, Writing
  <1>10. CASE /\ At(h, "tag")
              /\ \/ To(h, "insert", t.item + 1, t.tags, t.locks, t.added)
                 \/ To(h, "commit", t.item, t.tags, t.locks, t.added)
    BY <1>0, <1>1, <1>10 DEF Keeps, At, Writing
  <1> HIDE DEF t, more
  <1> QED
    BY <1>2, <1>3, <1>4, <1>5, <1>6, <1>7, <1>8, <1>9, <1>10, StepMoves DEF t, more

\* A request that has just begun: an import has not looked at its key yet.
Fresh(h) ==
    /\ tx'[h].locks = {} /\ tx'[h].added = <<>>
    /\ tx'[h].op = "import" => tx'[h].pc = "key"

\* A step that writes no row.
Quiet(h) ==
    /\ UNCHANGED libVars
    /\ \A g \in Handlers \ {h} : tx'[g] = tx[g]
    /\ \/ tx'[h] = NoTx
       \/ Keeps(h) /\ Blockers(h) = {}
       \/ Fresh(h)

\* What the steps of the specification come to.
LEMMA NextMoves ==
    ASSUME RequestsInv, [Next]_vars
    PROVE  \/ \E h \in Handlers : Quiet(h)
           \/ \E h \in Handlers : CommitImport(h) \/ CommitCreate(h)
           \/ \E h \in Handlers : WriteUpdate(h) /\ Blockers(h) = {}
           \/ \E r \in Runs : DeleteRun(r)
           \/ UNCHANGED <<questions, audit, imported, slugs, runs, tx>>
  <1>0. DOMAIN tx = Handlers
    BY DEF RequestsInv
  <1>1. ASSUME NEW h \in Handlers, HandlerStep(h),
               ~CommitImport(h), ~CommitCreate(h), ~WriteUpdate(h)
        PROVE  Quiet(h)
    <2>1. Blockers(h) = {}
      BY <1>1 DEF HandlerStep
    <2> QED
      BY <1>1, <2>1, StepEffect DEF HandlerStep, Quiet
  <1>2. ASSUME NEW h \in Handlers, AbortDeadlock(h) \/ Lose(h) PROVE Quiet(h)
    <2>1. End(h) /\ UNCHANGED libVars
      BY <1>2 DEF AbortDeadlock, Lose, rowVars, libVars
    <2> QED
      BY <1>0, <2>1, EndMoves DEF Quiet
  <1>3. ASSUME NEW h \in Handlers, BeginImport(h) \/ BeginCreate(h) \/ BeginUpdate(h)
        PROVE  Quiet(h)
    <2>1. UNCHANGED libVars
      BY <1>3 DEF BeginImport, BeginCreate, BeginUpdate, rowVars, libVars
    <2>2. PICK pc, op, req : BeginsWith(h, pc, op, req) /\ (op = "import" => pc = "key")
      BY <1>3, BeginsOK DEF Begins
    <2>3. BeginsWith(h, pc, op, req)
      BY <2>2
    <2>4. /\ \A g \in Handlers \ {h} : tx'[g] = tx[g]
          /\ tx'[h].pc = pc /\ tx'[h].op = op /\ tx'[h].locks = {} /\ tx'[h].added = <<>>
      BY <1>0, <2>3, BeginMoves
    <2> QED
      BY <2>1, <2>2, <2>4 DEF Quiet, Fresh
  <1>4. ASSUME NEW r \in RunsDeleted, DeleteRun(r) PROVE \E x \in Runs : DeleteRun(x)
    BY <1>4, LibraryAssumption
  <1>5. (\E b \in BanksArchived : ArchiveBank(b)) \/ UNCHANGED vars =>
           UNCHANGED <<questions, audit, imported, slugs, runs, tx>>
    BY DEF ArchiveBank, vars
  <1>6. ASSUME NEW h \in Handlers, WriteUpdate(h), HandlerStep(h) PROVE Blockers(h) = {}
    BY <1>6 DEF HandlerStep
  <1> QED
    BY <1>1, <1>2, <1>3, <1>4, <1>5, <1>6 DEF Next

-----------------------------------------------------------------------------
(* LocksInv *)

LocksInv ==
    \A g, h \in Handlers : g # h =>
        \A x \in tx[g].locks, y \in tx[h].locks : ~Conflict(x, y)

LEMMA LocksStep ==
    ASSUME LocksInv, NEW h \in Handlers,
           \A g \in Handlers \ {h} : tx'[g] = tx[g],
           \/ tx'[h].locks = {}
           \/ tx'[h].locks = tx[h].locks
           \/ Blockers(h) = {} /\ tx'[h].locks = tx[h].locks \cup Wanted(h)
    PROVE  LocksInv'
  <1> SUFFICES ASSUME NEW g \in Handlers \ {h}, NEW x \in tx'[h].locks, NEW y \in tx[g].locks
               PROVE  ~Conflict(x, y) /\ ~Conflict(y, x)
    BY DEF LocksInv
  <1>1. ~Conflict(x, y)
    BY DEF LocksInv, Blockers
  <1> QED
    BY <1>1 DEF Conflict

LEMMA LocksNext == RequestsInv /\ LocksInv /\ [Next]_vars => LocksInv'
  <1> SUFFICES ASSUME RequestsInv, LocksInv, [Next]_vars PROVE LocksInv'
    OBVIOUS
  <1>0. DOMAIN tx = Handlers /\ NoTx.locks = {}
    BY DEF RequestsInv, NoTx
  <1>1. ASSUME NEW h \in Handlers, End(h) PROVE LocksInv'
    BY <1>0, <1>1, EndMoves, LocksStep
  <1>2. ASSUME NEW h \in Handlers, Quiet(h) PROVE LocksInv'
    BY <1>0, <1>2, LocksStep DEF Quiet, Keeps, Fresh
  <1>3. UNCHANGED tx => LocksInv'
    BY DEF LocksInv
  <1> QED
    BY <1>1, <1>2, <1>3, NextMoves DEF CommitImport, CommitCreate, WriteUpdate, DeleteRun

LEMMA LocksInvariance == Spec => []LocksInv
  <1>1. Init => LocksInv
    BY DEF Init, LocksInv, NoTx
  <1> QED
    BY <1>1, LocksNext, RequestsInvariance, PTL DEF Spec

-----------------------------------------------------------------------------
(* EntriesInv *)

\* The bank has the prompt; the transaction is about to give it to the bank.
Has(b, p) == \E j \in 1..Len(questions) : questions[j].bank = b /\ questions[j].prompt = p
Adds(h, b, p) ==
    \E i \in 1..Len(tx[h].added) : tx[h].added[i].bank = b /\ tx[h].added[i].prompt = p

EntriesInv ==
    /\ NoDuplicatePrompts
    /\ \A h \in Handlers, b \in Banks, p \in Prompts :
         Adds(h, b, p) => Entry(b, p) \in tx[h].locks /\ ~Has(b, p)

LEMMA StoredHas ==
    ASSUME RequestsInv, NEW b, NEW p PROVE (Stored(b, p) = {}) <=> ~Has(b, p)
  <1>1. DOMAIN questions = 1..Len(questions)
    BY LenProperties DEF RequestsInv
  <1> QED
    BY <1>1 DEF Stored, Has

LEMMA EntryConflict ==
    ASSUME NEW b, NEW p PROVE Conflict(Entry(b, p), Entry(b, p))
  BY DEF Conflict, Entry, Lock

\* The entry that an insert or an update waits for.
LEMMA EntryWanted ==
    ASSUME NEW h \in Handlers
    PROVE  /\ At(h, "insert") /\ tx[h].op \in {"import", "create"} =>
                Entry(Row(h).bank, Row(h).prompt) \in Wanted(h)
           /\ At(h, "write") =>
                Entry(questions[Req(h).question].bank, Req(h).prompt) \in Wanted(h)
  <1>1. CASE At(h, "insert") /\ tx[h].op \in {"import", "create"}
    BY <1>1 DEF Wanted, At, Row
  <1>2. CASE At(h, "write")
    BY <1>2 DEF Wanted, At
  <1> QED
    BY <1>1, <1>2 DEF At

\* Rows of one transaction have different prompts.
LEMMA AddedDiffer ==
    ASSUME RequestsInv, NEW h \in Handlers, tx[h].pc \in Writing,
           NEW i \in 1..Len(tx[h].added), NEW j \in 1..Len(tx[h].added),
           tx[h].added[i].prompt = tx[h].added[j].prompt
    PROVE  i = j
  <1>1. /\ tx[h].added[i] = RowAt(h, i) /\ tx[h].added[j] = RowAt(h, j)
        /\ Len(tx[h].added) = Inserted(h) /\ tx[h].op \in {"import", "create"}
    BY TxFacts DEF TxOK
  <1>2. CASE tx[h].op = "import"
    <2>1. /\ Req(h) \in Imports /\ Reviewed(Req(h)) /\ tx[h].item \in 1..Len(Req(h).items)
      BY <1>2, TxFacts DEF ImportOK
    <2>2. DOMAIN Req(h).items = 1..Len(Req(h).items) /\ Len(Req(h).items) \in Nat
      BY <2>1, ItemTypes
    <2>3. i \in DOMAIN Req(h).items /\ j \in DOMAIN Req(h).items
      BY <1>1, <1>2, <2>1, <2>2 DEF Inserted
    <2>4. PromptFor(Req(h).items[i]) = PromptFor(Req(h).items[j])
      BY <1>1, <1>2 DEF RowAt
    <2> QED
      BY <2>1, <2>3, <2>4 DEF Reviewed
  <1>3. CASE tx[h].op = "create"
    BY <1>1, <1>3 DEF Inserted
  <1> QED
    BY <1>1, <1>2, <1>3

\* A step that leaves the questions alone and adds nothing but what is new.
LEMMA EntriesMoved ==
    ASSUME RequestsInv, EntriesInv, NEW h \in Handlers, UNCHANGED questions,
           \A g \in Handlers \ {h} : tx'[g] = tx[g],
           \/ tx'[h].added = <<>>
           \/ Keeps(h)
    PROVE  EntriesInv'
  <1>1. NoDuplicatePrompts' /\ \A b, p : Has(b, p)' = Has(b, p)
    BY DEF EntriesInv, NoDuplicatePrompts, Has
  <1>2. ASSUME NEW g \in Handlers, NEW b \in Banks, NEW p \in Prompts, Adds(g, b, p)'
        PROVE  Entry(b, p) \in tx'[g].locks /\ ~Has(b, p)
    <2>1. CASE g # h
      BY <1>2, <2>1 DEF EntriesInv, Adds
    <2>2. CASE g = h /\ tx'[h].added = <<>>
      BY <1>2, <2>2, EmptySeq DEF Adds
    <2>3. CASE g = h /\ Keeps(h) /\ tx'[h].added = tx[h].added
      <3>1. Adds(h, b, p)
        BY <1>2, <2>3 DEF Adds
      <3> QED
        BY <2>3, <3>1 DEF EntriesInv, Keeps
    <2>4. CASE /\ g = h /\ Keeps(h) /\ tx[h].pc = "insert"
               /\ tx'[h].added = Append(tx[h].added, Row(h))
               /\ Stored(Row(h).bank, Row(h).prompt) = {}
      <3>1. At(h, "insert") /\ tx[h].op \in {"import", "create"}
        BY <2>4, TxFacts DEF At, Writing
      <3>2. tx[h].added \in Seq(Question) /\ Row(h) \in Question
        BY <3>1, TxFacts, RowType
      <3>3. Adds(h, b, p) \/ (Row(h).bank = b /\ Row(h).prompt = p)
        BY <1>2, <2>4, <3>2, AppendProperties DEF Adds
      <3>4. CASE Adds(h, b, p)
        BY <2>4, <3>4 DEF EntriesInv, Keeps
      <3>5. CASE Row(h).bank = b /\ Row(h).prompt = p
        BY <2>4, <3>1, <3>5, EntryWanted, StoredHas DEF Keeps
      <3> QED
        BY <3>3, <3>4, <3>5
    <2> QED
      BY <2>1, <2>2, <2>3, <2>4 DEF Keeps
  <1> QED
    BY <1>1, <1>2 DEF EntriesInv

\* A commit: what it brings was new, and nobody else could be adding it.
LEMMA EntriesCommitted ==
    ASSUME RequestsInv, LocksInv, EntriesInv, NEW h \in Handlers,
           CommitImport(h) \/ CommitCreate(h)
    PROVE  EntriesInv'
  <1> DEFINE m == Len(questions)
             n == Len(tx[h].added)
  <1>1. /\ tx'[h] = NoTx /\ \A g \in Handlers \ {h} : tx'[g] = tx[g]
        /\ tx[h].pc \in Writing
    BY TxFacts, Committed, EndMoves DEF CommitImport, CommitCreate, At, Writing
  <1>2. /\ m \in Nat /\ n \in Nat /\ Len(questions') = m + n
        /\ \A i \in 1..m : questions'[i] = questions[i]
        /\ \A i \in 1..n : questions'[m + i] = tx[h].added[i]
        /\ DOMAIN questions = 1..m /\ DOMAIN questions' = 1..(m + n)
    BY Committed
  <1>3. \A i \in 1..n : tx[h].added[i].bank \in Banks /\ tx[h].added[i].prompt \in Prompts
    <2>1. \A i \in 1..n : tx[h].added[i] \in Question
      BY TxFacts, ElementOfSeq
    <2> QED
      BY <2>1 DEF Question
  <1> HIDE DEF m, n
  <1>4. \A i \in 1..(m + n) : i \in 1..m \/ \E k \in 1..n : i = m + k
    <2> SUFFICES ASSUME NEW i \in 1..(m + n), i \notin 1..m PROVE \E k \in 1..n : i = m + k
      OBVIOUS
    <2>1. i - m \in 1..n /\ i = m + (i - m)
      BY <1>2
    <2> QED
      BY <2>1
  <1>5. NoDuplicatePrompts'
    <2> SUFFICES ASSUME NEW i \in 1..(m + n), NEW j \in 1..(m + n),
                        questions'[i].bank = questions'[j].bank,
                        questions'[i].prompt = questions'[j].prompt
                 PROVE  i = j
      BY <1>2 DEF NoDuplicatePrompts
    <2>1. ASSUME NEW k \in 1..n, NEW l \in 1..m,
                 tx[h].added[k].bank = questions[l].bank,
                 tx[h].added[k].prompt = questions[l].prompt
          PROVE  FALSE
      BY <1>3, <2>1 DEF EntriesInv, Adds, Has, m, n
    <2>2. ASSUME NEW k \in 1..n, NEW l \in 1..n, tx[h].added[k].prompt = tx[h].added[l].prompt
          PROVE  k = l
      BY <1>1, <2>2, AddedDiffer DEF n
    <2>3. CASE i \in 1..m /\ j \in 1..m
      BY <1>2, <2>3 DEF EntriesInv, NoDuplicatePrompts
    <2>4. CASE i \in 1..m /\ \E k \in 1..n : j = m + k
      <3>1. PICK k \in 1..n : j = m + k
        BY <2>4
      <3>2. questions'[i] = questions[i] /\ questions'[j] = tx[h].added[k]
        BY <1>2, <2>4, <3>1
      <3> QED
        BY <2>1, <2>4, <3>2
    <2>5. CASE j \in 1..m /\ \E k \in 1..n : i = m + k
      <3>1. PICK k \in 1..n : i = m + k
        BY <2>5
      <3>2. questions'[j] = questions[j] /\ questions'[i] = tx[h].added[k]
        BY <1>2, <2>5, <3>1
      <3> QED
        BY <2>1, <2>5, <3>2
    <2>6. CASE (\E k \in 1..n : i = m + k) /\ \E l \in 1..n : j = m + l
      <3>1. PICK k \in 1..n, l \in 1..n : i = m + k /\ j = m + l
        BY <2>6
      <3>2. questions'[i] = tx[h].added[k] /\ questions'[j] = tx[h].added[l]
        BY <1>2, <3>1
      <3> QED
        BY <2>2, <3>1, <3>2
    <2> QED
      BY <1>4, <2>3, <2>4, <2>5, <2>6
  <1>6. ASSUME NEW g \in Handlers, NEW b \in Banks, NEW p \in Prompts, Adds(g, b, p)'
        PROVE  Entry(b, p) \in tx'[g].locks /\ ~Has(b, p)'
    <2>1. g # h
      BY <1>1, <1>6, EmptySeq DEF NoTx, Adds
    <2>2. Adds(g, b, p) /\ tx'[g] = tx[g]
      BY <1>1, <1>6, <2>1 DEF Adds
    <2>3. Entry(b, p) \in tx[g].locks /\ ~Has(b, p)
      BY <2>2 DEF EntriesInv
    <2>4. ~Adds(h, b, p)
      BY <2>1, <2>3, EntryConflict DEF EntriesInv, LocksInv
    <2>5. ASSUME Has(b, p)' PROVE Has(b, p) \/ Adds(h, b, p)
      <3>1. PICK i \in 1..(m + n) : questions'[i].bank = b /\ questions'[i].prompt = p
        BY <1>2, <2>5 DEF Has
      <3>2. CASE i \in 1..m
        BY <1>2, <3>1, <3>2 DEF Has, m
      <3>3. CASE \E k \in 1..n : i = m + k
        BY <1>2, <3>1, <3>3 DEF Adds, n
      <3> QED
        BY <1>4, <3>2, <3>3
    <2> QED
      BY <2>2, <2>3, <2>4, <2>5
  <1> QED
    BY <1>5, <1>6 DEF EntriesInv

\* An edit: the unique index is asked under the lock of the new entry.
LEMMA EntriesUpdated ==
    ASSUME RequestsInv, EntriesInv, NEW h \in Handlers, WriteUpdate(h), Blockers(h) = {}
    PROVE  EntriesInv'
  <1>1. /\ tx'[h] = NoTx /\ \A g \in Handlers \ {h} : tx'[g] = tx[g]
    BY TxFacts, Updated, EndMoves
  <1>2. CASE questions' = questions
    <2>1. tx'[h].added = <<>>
      BY <1>1 DEF NoTx
    <2> QED
      BY <1>1, <1>2, <2>1, EntriesMoved
  <1>3. CASE questions' # questions
    <2>1. PICK i, q : i \in DOMAIN questions /\ i = Req(h).question /\ q = Req(h).prompt
      BY Updated
    <2>2. /\ DOMAIN questions = 1..Len(questions) /\ DOMAIN questions' = DOMAIN questions
          /\ Len(questions') = Len(questions)
          /\ \A j \in DOMAIN questions :
               /\ questions'[j].bank = questions[j].bank
               /\ j # i => questions'[j].prompt = questions[j].prompt
          /\ Stored(questions[i].bank, q) \subseteq {i}
          /\ questions'[i].prompt = q
      BY <1>3, <2>1, Updated
    <2>3. NoDuplicatePrompts'
      BY <2>1, <2>2 DEF EntriesInv, NoDuplicatePrompts, Stored
    <2>4. ASSUME NEW g \in Handlers, NEW b \in Banks, NEW p \in Prompts, Adds(g, b, p)'
          PROVE  Entry(b, p) \in tx'[g].locks /\ ~Has(b, p)'
      <3>1. g # h
        BY <1>1, <2>4, EmptySeq DEF NoTx, Adds
      <3>2. Adds(g, b, p) /\ tx'[g] = tx[g]
        BY <1>1, <2>4, <3>1 DEF Adds
      <3>3. Entry(b, p) \in tx[g].locks /\ ~Has(b, p)
        BY <3>2 DEF EntriesInv
      <3>4. ~ (questions[i].bank = b /\ q = p)
        <4>1. Entry(questions[i].bank, q) \in Wanted(h)
          BY <2>1, EntryWanted DEF WriteUpdate
        <4> QED
          BY <3>1, <3>3, <4>1, EntryConflict DEF Blockers
      <3>5. ~Has(b, p)'
        BY <2>1, <2>2, <3>3, <3>4 DEF Has
      <3> QED
        BY <3>2, <3>3, <3>5
    <2> QED
      BY <2>3, <2>4 DEF EntriesInv
  <1> QED
    BY <1>2, <1>3

LEMMA EntriesNext == RequestsInv /\ LocksInv /\ EntriesInv /\ [Next]_vars => EntriesInv'
  <1> SUFFICES ASSUME RequestsInv, LocksInv, EntriesInv, [Next]_vars PROVE EntriesInv'
    OBVIOUS
  <1>1. ASSUME NEW h \in Handlers, Quiet(h) PROVE EntriesInv'
    <2>1. UNCHANGED questions
      BY <1>1 DEF Quiet, libVars
    <2>2. tx'[h].added = <<>> \/ Keeps(h)
      BY <1>1 DEF Quiet, Fresh, NoTx
    <2> QED
      BY <1>1, <2>1, <2>2, EntriesMoved DEF Quiet
  <1>2. UNCHANGED <<questions, tx>> => EntriesInv'
    BY DEF EntriesInv, NoDuplicatePrompts, Adds, Has
  <1> QED
    BY <1>1, <1>2, NextMoves, EntriesCommitted, EntriesUpdated DEF DeleteRun

LEMMA EntriesInvariance == Spec => []EntriesInv
  <1>1. Init => EntriesInv
    <2> SUFFICES ASSUME Init PROVE EntriesInv
      OBVIOUS
    <2>1. questions = <<>> /\ Len(questions) = 0 /\ DOMAIN questions = {}
      BY DEF Init
    <2>2. ASSUME NEW h \in Handlers PROVE Len(tx[h].added) = 0
      BY DEF Init, NoTx
    <2> QED
      BY <2>1, <2>2 DEF EntriesInv, NoDuplicatePrompts, Adds
  <1> QED
    BY <1>1, EntriesNext, RequestsInvariance, LocksInvariance, PTL DEF Spec

-----------------------------------------------------------------------------
(* KeysInv *)

AuditRow(key, request, bank, candidate, question, batch) ==
    [key |-> key, request |-> request, bank |-> bank, candidate |-> candidate,
     question |-> question, batch |-> batch]

\* A row of a batch: the questions of a batch are numbered from where it began.
BatchOf(x) == (x.batch + 1)..(x.batch + Len(x.request.items))

RowOK(x) ==
    /\ x = AuditRow(x.key, x.request, x.bank, x.candidate, x.question, x.batch)
    /\ x.batch \in Nat /\ Len(x.request.items) \in Nat
    /\ x.question \in BatchOf(x)
    /\ x.question \in 1..Len(questions)
    /\ x.candidate \in Candidates \cup {None}

\* An import that has looked its key up holds it, and it is new.
KeyHeld(h) ==
    tx[h].op = "import" /\ ~At(h, "key") =>
        /\ Lock("key", <<Req(h).key>>, "own") \in tx[h].locks
        /\ \A x \in audit : x.key # Req(h).key

KeysInv ==
    /\ \A x \in audit : RowOK(x)
    /\ \A x, y \in audit : x.key = y.key => x.batch = y.batch /\ x.request = y.request
    /\ \A x, y \in audit : x.question = y.question => x = y
    /\ \A x \in audit : \A n \in BatchOf(x) : \E y \in audit : y.key = x.key /\ y.question = n
    /\ \A h \in Handlers : KeyHeld(h)

LEMMA KeyConflict ==
    ASSUME NEW kind, NEW name
    PROVE  Conflict(Lock(kind, <<name>>, "own"), Lock(kind, <<name>>, "own"))
  BY DEF Conflict, Lock

\* Only the audit, the number of questions and the keys under way matter.
LEMMA KeysKept ==
    ASSUME RequestsInv, KeysInv, UNCHANGED audit, Len(questions') >= Len(questions),
           Len(questions) \in Nat, Len(questions') \in Nat,
           \A h \in Handlers : KeyHeld(h)'
    PROVE  KeysInv'
  <1>1. ASSUME NEW x \in audit PROVE RowOK(x)'
    BY DEF KeysInv, RowOK
  <1> QED
    BY <1>1 DEF KeysInv

LEMMA KeyHeldQuiet ==
    ASSUME RequestsInv, KeysInv, NEW h \in Handlers, Quiet(h)
    PROVE  \A g \in Handlers : KeyHeld(g)'
  <1> SUFFICES ASSUME NEW g \in Handlers PROVE KeyHeld(g)'
    OBVIOUS
  <1>0. UNCHANGED audit
    BY DEF Quiet, libVars
  <1>1. CASE g # h
    <2>1. tx'[g] = tx[g]
      BY <1>1 DEF Quiet
    <2> QED
      BY <1>0, <2>1 DEF KeysInv, KeyHeld, At, Req
  <1>2. CASE g = h /\ (tx'[h] = NoTx \/ Fresh(h))
    BY <1>2 DEF KeyHeld, NoTx, Fresh, At
  <1>3. CASE g = h /\ Keeps(h) /\ tx[h].pc # "key"
    BY <1>0, <1>3 DEF KeysInv, KeyHeld, At, Req, Keeps
  <1>4. CASE g = h /\ Keeps(h) /\ tx[h].pc = "key"
    <2>1. Lock("key", <<Req(h).key>>, "own") \in Wanted(h)
      BY <1>4 DEF Wanted, At
    <2>2. \A x \in audit : x.key # Req(h).key
      BY <1>4 DEF Keeps, Existing
    <2> QED
      BY <1>0, <1>4, <2>1, <2>2 DEF KeyHeld, At, Req, Keeps
  <1> QED
    BY <1>1, <1>2, <1>3, <1>4 DEF Quiet

\* A step that ends h and keeps the audit.
LEMMA KeyHeldEnd ==
    ASSUME KeysInv, NEW h \in Handlers, tx'[h] = NoTx,
           \A g \in Handlers \ {h} : tx'[g] = tx[g], UNCHANGED audit
    PROVE  \A g \in Handlers : KeyHeld(g)'
  <1> SUFFICES ASSUME NEW g \in Handlers PROVE KeyHeld(g)'
    OBVIOUS
  <1>1. CASE g # h
    BY <1>1 DEF KeysInv, KeyHeld, At, Req
  <1>2. CASE g = h
    BY <1>2 DEF KeyHeld, NoTx
  <1> QED
    BY <1>1, <1>2

\* What a commit of an import adds to the audit.
LEMMA AuditAdded ==
    ASSUME RequestsInv, NEW h \in Handlers, CommitImport(h)
    PROVE  LET req == Req(h)
               m == Len(questions)
               n == Len(req.items)
               Row_(i) == AuditRow(req.key, RequestHash(req), req.bank,
                                   req.items[i].candidate, m + i, m)
           IN  /\ req \in Imports /\ Prepared(req) /\ tx[h].pc \in Writing
               /\ m \in Nat /\ n \in Nat /\ n = Len(tx[h].added) /\ Len(questions') = m + n
               /\ audit' = audit \cup {Row_(i) : i \in 1..n}
               /\ \A i \in 1..n : questions'[m + i].origin = req.items[i].candidate
  <1> DEFINE req == Req(h)
             m == Len(questions)
             n == Len(req.items)
  <1>1. tx[h].pc = "commit" /\ tx[h].op = "import" /\ tx[h].pc \in Writing
    BY DEF CommitImport, At, Writing
  <1>2. /\ ImportOK(h) /\ Len(tx[h].added) = Inserted(h)
        /\ \A i \in 1..Len(tx[h].added) : tx[h].added[i] = RowAt(h, i)
        /\ tx[h].added \in Seq(Question)
    BY <1>1, TxFacts DEF TxOK
  <1>3. /\ req \in Imports /\ Prepared(req) /\ tx[h].item = n
    BY <1>1, <1>2 DEF ImportOK, At
  <1>4. n \in Nat /\ Len(tx[h].added) = n /\ DOMAIN tx[h].added = 1..n
    BY <1>1, <1>2, <1>3, ItemTypes, LenProperties DEF Inserted, At
  <1>5. ASSUME NEW i \in 1..n PROVE tx[h].added[i].origin = req.items[i].candidate
    <2>1. tx[h].added[i] = RowAt(h, i)
      BY <1>2, <1>4
    <2>2. RowAt(h, i).origin = req.items[i].candidate
      BY <1>1 DEF RowAt
    <2> QED
      BY <2>1, <2>2
  <1>6. /\ m \in Nat /\ Len(questions') = m + n
        /\ \A i \in 1..n : questions'[m + i] = tx[h].added[i]
    BY <1>4, Committed
  <1>7. audit' = audit \cup AuditRows(h)
    BY DEF CommitImport
  <1>8. AuditRows(h) = {AuditRow(req.key, RequestHash(req), req.bank,
                                 req.items[i].candidate, m + i, m) : i \in 1..n}
    BY <1>4, <1>5 DEF AuditRows, AuditRow
  <1> QED
    BY <1>1, <1>3, <1>4, <1>5, <1>6, <1>7, <1>8

LEMMA KeysCommitted ==
    ASSUME RequestsInv, LocksInv, KeysInv, NEW h \in Handlers, CommitImport(h)
    PROVE  KeysInv'
  <1> DEFINE req == Req(h)
             m == Len(questions)
             n == Len(req.items)
             Row_(i) == AuditRow(req.key, RequestHash(req), req.bank,
                                 req.items[i].candidate, m + i, m)
  <1>1. /\ req \in Imports /\ m \in Nat /\ n \in Nat /\ Len(questions') = m + n
        /\ audit' = audit \cup {Row_(i) : i \in 1..n}
    BY AuditAdded
  <1>2. \A x \in audit : x.key # req.key /\ x.question \in 1..m /\ RowOK(x)
    BY DEF KeysInv, KeyHeld, CommitImport, At, RowOK
  <1>3. Lock("key", <<req.key>>, "own") \in tx[h].locks
    BY DEF KeysInv, KeyHeld, CommitImport, At
  <1>4. ASSUME NEW i \in 1..n
        PROVE  /\ Row_(i).key = req.key /\ Row_(i).request = RequestHash(req)
               /\ Row_(i).bank = req.bank /\ Row_(i).candidate = req.items[i].candidate
               /\ Row_(i).question = m + i /\ Row_(i).batch = m
               /\ Len(Row_(i).request.items) = n
               /\ Row_(i) = AuditRow(Row_(i).key, Row_(i).request, Row_(i).bank,
                                     Row_(i).candidate, Row_(i).question, Row_(i).batch)
    BY DEF AuditRow, RequestHash
  <1>5. \A i \in 1..n : req.items[i].candidate \in Candidates
    BY <1>1, ItemTypes
  <1> HIDE DEF Row_, req, m, n
  <1>6. ASSUME NEW x \in audit' PROVE x \in audit \/ \E i \in 1..n : x = Row_(i)
    BY <1>1
  <1>7. ASSUME NEW x \in audit' PROVE RowOK(x)'
    <2>1. CASE x \in audit
      BY <1>1, <1>2, <2>1 DEF RowOK, m
    <2>2. CASE \E i \in 1..n : x = Row_(i)
      BY SMTT(60), <1>1, <1>4, <1>5, <2>2 DEF RowOK, BatchOf, m
    <2> QED
      BY <1>6, <2>1, <2>2
  <1>8. ASSUME NEW x \in audit', NEW y \in audit'
        PROVE  /\ x.key = y.key => x.batch = y.batch /\ x.request = y.request
               /\ x.question = y.question => x = y
    <2>1. CASE x \in audit /\ y \in audit
      BY <2>1 DEF KeysInv
    <2>2. CASE x \in audit /\ \E i \in 1..n : y = Row_(i)
      BY <1>1, <1>2, <1>4, <2>2
    <2>3. CASE y \in audit /\ \E i \in 1..n : x = Row_(i)
      BY <1>1, <1>2, <1>4, <2>3
    <2>4. CASE (\E i \in 1..n : x = Row_(i)) /\ \E j \in 1..n : y = Row_(j)
      BY <1>1, <1>4, <2>4
    <2> QED
      BY <1>6, <2>1, <2>2, <2>3, <2>4
  <1>9. ASSUME NEW x \in audit', NEW k \in BatchOf(x)
        PROVE  \E y \in audit' : y.key = x.key /\ y.question = k
    <2>1. CASE x \in audit
      BY <1>1, <2>1 DEF KeysInv
    <2>2. CASE \E i \in 1..n : x = Row_(i)
      <3>1. PICK i \in 1..n : x = Row_(i)
        BY <2>2
      <3>2. k \in (m + 1)..(m + n)
        BY <1>4, <3>1 DEF BatchOf
      <3>3. k - m \in 1..n /\ m + (k - m) = k
        BY <1>1, <3>2
      <3> QED
        BY <1>1, <1>4, <3>1, <3>3
    <2> QED
      BY <1>6, <2>1, <2>2
  <1>10. ASSUME NEW g \in Handlers PROVE KeyHeld(g)'
    <2>0. tx'[h] = NoTx /\ \A f \in Handlers \ {h} : tx'[f] = tx[f]
      BY Committed, EndMoves, TxFacts
    <2>1. CASE g = h
      BY <2>0, <2>1 DEF KeyHeld, NoTx
    <2>2. CASE g # h
      <3> SUFFICES ASSUME tx[g].op = "import", ~At(g, "key")
                   PROVE  /\ Lock("key", <<Req(g).key>>, "own") \in tx[g].locks
                          /\ \A x \in audit' : x.key # Req(g).key
        BY <2>0, <2>2 DEF KeyHeld, At, Req
      <3>1. /\ Lock("key", <<Req(g).key>>, "own") \in tx[g].locks
            /\ \A x \in audit : x.key # Req(g).key
        BY DEF KeysInv, KeyHeld
      <3>2. Req(g).key # req.key
        BY <1>3, <2>2, <3>1, KeyConflict DEF LocksInv
      <3> QED
        BY <1>4, <1>6, <3>1, <3>2
    <2> QED
      BY <2>1, <2>2
  <1> QED
    BY <1>7, <1>8, <1>9, <1>10 DEF KeysInv

\* Deleting a run takes the candidate out of its rows and leaves the rest.
Orphan(x, r) ==
    [x EXCEPT !.candidate = IF @ # None /\ RunOf[@] = r THEN None ELSE @]

LEMMA OrphanRow ==
    ASSUME KeysInv, NEW x \in audit, NEW r
    PROVE  LET y == Orphan(x, r)
           IN  /\ y.key = x.key /\ y.request = x.request /\ y.bank = x.bank
               /\ y.question = x.question /\ y.batch = x.batch
               /\ y = AuditRow(y.key, y.request, y.bank, y.candidate, y.question, y.batch)
               /\ y.candidate = IF x.candidate # None /\ RunOf[x.candidate] = r THEN None
                                ELSE x.candidate
               /\ y.candidate # None => y = x
  <1> DEFINE c == IF x.candidate # None /\ RunOf[x.candidate] = r THEN None ELSE x.candidate
  <1>1. PICK key, request, bank, candidate, question, batch :
          /\ x = AuditRow(key, request, bank, candidate, question, batch)
    BY DEF KeysInv, RowOK
  <1>2. x.candidate = candidate
    BY <1>1 DEF AuditRow
  <1>3. Orphan(x, r) = [x EXCEPT !.candidate = c]
    BY DEF Orphan
  <1> HIDE DEF c
  <1>4. Orphan(x, r) = AuditRow(key, request, bank, c, question, batch)
    BY <1>1, <1>3 DEF AuditRow
  <1> QED
    BY <1>1, <1>2, <1>4 DEF AuditRow, c

LEMMA DeleteAudit ==
    ASSUME NEW r, DeleteRun(r)
    PROVE  audit' = {Orphan(x, r) : x \in audit} /\ UNCHANGED <<questions, imported, tx>>
  BY DEF DeleteRun, Orphan

LEMMA KeysDeleted ==
    ASSUME RequestsInv, KeysInv, NEW r \in Runs, DeleteRun(r)
    PROVE  KeysInv'
  <1>0. audit' = {Orphan(x, r) : x \in audit} /\ UNCHANGED <<questions, tx>>
    BY DeleteAudit
  <1>1. \A y \in audit' : \E x \in audit : y = Orphan(x, r)
    BY <1>0
  <1>2. \A x \in audit : Orphan(x, r) \in audit'
    BY <1>0
  <1>3. ASSUME NEW y \in audit' PROVE RowOK(y)'
    <2>1. PICK x \in audit : y = Orphan(x, r)
      BY <1>1
    <2>2. /\ y.key = x.key /\ y.request = x.request /\ y.bank = x.bank
          /\ y.question = x.question /\ y.batch = x.batch
          /\ y = AuditRow(y.key, y.request, y.bank, y.candidate, y.question, y.batch)
          /\ y.candidate \in {x.candidate, None}
      BY <2>1, OrphanRow
    <2>3. RowOK(x)
      BY DEF KeysInv
    <2>4. RowOK(y)
      BY <2>2, <2>3 DEF RowOK, BatchOf
    <2> QED
      BY <1>0, <2>4 DEF RowOK
  <1>4. ASSUME NEW y \in audit', NEW z \in audit'
        PROVE  /\ y.key = z.key => y.batch = z.batch /\ y.request = z.request
               /\ y.question = z.question => y = z
    <2>1. PICK x \in audit, w \in audit : y = Orphan(x, r) /\ z = Orphan(w, r)
      BY <1>1
    <2> QED
      BY <2>1, OrphanRow DEF KeysInv
  <1>5. ASSUME NEW y \in audit', NEW k \in BatchOf(y)
        PROVE  \E z \in audit' : z.key = y.key /\ z.question = k
    <2>1. PICK x \in audit : y = Orphan(x, r)
      BY <1>1
    <2>2. k \in BatchOf(x)
      BY <2>1, OrphanRow DEF BatchOf
    <2>3. PICK w \in audit : w.key = x.key /\ w.question = k
      BY <2>2 DEF KeysInv
    <2> QED
      BY <1>2, <2>1, <2>3, OrphanRow
  <1>6. ASSUME NEW g \in Handlers PROVE KeyHeld(g)'
    BY <1>0, <1>1, OrphanRow DEF KeysInv, KeyHeld, At, Req
  <1> QED
    BY <1>3, <1>4, <1>5, <1>6 DEF KeysInv

LEMMA KeysNext == RequestsInv /\ LocksInv /\ KeysInv /\ [Next]_vars => KeysInv'
  <1> SUFFICES ASSUME RequestsInv, LocksInv, KeysInv, [Next]_vars PROVE KeysInv'
    OBVIOUS
  <1>0. Len(questions) \in Nat
    BY LenProperties DEF RequestsInv
  <1>1. ASSUME NEW h \in Handlers, Quiet(h) PROVE KeysInv'
    <2>1. UNCHANGED <<questions, audit>>
      BY <1>1 DEF Quiet, libVars
    <2> QED
      BY <1>0, <1>1, <2>1, KeyHeldQuiet, KeysKept
  <1>2. ASSUME NEW h \in Handlers, CommitCreate(h) \/ WriteUpdate(h) PROVE KeysInv'
    <2>1. UNCHANGED audit /\ Len(questions') \in Nat /\ Len(questions') >= Len(questions)
      BY <1>0, <1>2, Committed, Updated DEF CommitCreate, WriteUpdate
    <2>2. tx'[h] = NoTx /\ \A g \in Handlers \ {h} : tx'[g] = tx[g]
      BY <1>2, EndMoves, TxFacts DEF CommitCreate, WriteUpdate
    <2> QED
      BY <1>0, <2>1, <2>2, KeyHeldEnd, KeysKept
  <1>3. CASE UNCHANGED <<questions, audit, imported, slugs, runs, tx>>
    <2>1. \A g \in Handlers : KeyHeld(g)'
      BY <1>3 DEF KeysInv, KeyHeld, At, Req
    <2> QED
      BY <1>0, <1>3, <2>1, KeysKept
  <1> QED
    BY <1>1, <1>2, <1>3, NextMoves, KeysCommitted, KeysDeleted

LEMMA KeysInvariance == Spec => []KeysInv
  <1>1. Init => KeysInv
    BY DEF Init, KeysInv, KeyHeld, NoTx
  <1> QED
    BY <1>1, KeysNext, RequestsInvariance, LocksInvariance, PTL DEF Spec

-----------------------------------------------------------------------------
(* AuditInv *)

RowsOf(c) == {x \in audit : x.candidate = c}

\* An import that validates or writes holds its bank, and once it has been
\* validated none of its candidates has been imported into that bank.
BankHeld(h) ==
    tx[h].op = "import" /\ tx[h].pc \in {"validate"} \cup Writing =>
        /\ Lock("bank", <<Req(h).bank>>, "own") \in tx[h].locks
        /\ tx[h].pc \in Writing =>
             \A x \in audit : x.bank = Req(h).bank => x.candidate \notin CandidatesOf(Req(h))

AuditInv ==
    /\ imported \in [Candidates -> Nat]
    /\ \A i \in 1..Len(questions) :
         (questions[i].origin # None) <=> \E x \in audit : x.question = i
    /\ \A x, y \in audit :
         x.candidate = y.candidate /\ x.candidate # None /\ x.bank = y.bank => x = y
    /\ \A c \in Candidates : RunOf[c] \in runs => imported[c] = Cardinality(RowsOf(c))
    /\ \A h \in Handlers : BankHeld(h)

\* Rows are finitely many, for they have different questions.
LEMMA AuditFinite ==
    ASSUME RequestsInv, KeysInv
    PROVE  /\ IsFiniteSet(audit)
           /\ \A c : IsFiniteSet(RowsOf(c)) /\ Cardinality(RowsOf(c)) \in Nat
  <1> DEFINE T == 1..Len(questions)
             f == [x \in audit |-> x.question]
  <1>1. IsFiniteSet(T)
    BY LenProperties, FS_Interval DEF RequestsInv
  <1>2. f \in [audit -> T]
    BY DEF KeysInv, RowOK
  <1>3. \A x, y \in audit : f[x] = f[y] => x = y
    BY DEF KeysInv
  <1> HIDE DEF T, f
  <1>4. f \in Injection(audit, T)
    BY <1>2, <1>3 DEF Injection, IsInjective
  <1>5. IsFiniteSet(audit)
    BY <1>1, <1>4, FS_Injection
  <1>6. ASSUME NEW c PROVE IsFiniteSet(RowsOf(c)) /\ Cardinality(RowsOf(c)) \in Nat
    <2>1. RowsOf(c) \subseteq audit
      BY DEF RowsOf
    <2> QED
      BY <1>5, <2>1, FS_Subset, FS_CardinalityType
  <1> QED
    BY <1>5, <1>6

\* No candidate comes twice in a prepared request.
LEMMA CandidatesDiffer ==
    ASSUME NEW req \in Imports, Prepared(req), NEW i \in 1..Len(req.items),
           NEW j \in 1..Len(req.items), req.items[i].candidate = req.items[j].candidate
    PROVE  i = j
  <1> DEFINE n == Len(req.items)
             S == CandidatesOf(req)
             f == [k \in 1..n |-> req.items[k].candidate]
  <1>1. n \in Nat /\ DOMAIN req.items = 1..n
    BY ItemTypes
  <1>2. IsFiniteSet(1..n) /\ Cardinality(1..n) = n
    BY <1>1, FS_Interval
  <1>3. S = {f[k] : k \in 1..n} /\ f \in [1..n -> S]
    BY <1>1 DEF CandidatesOf
  <1>4. Cardinality(S) = n
    BY DEF Prepared
  <1>5. f[i] = f[j]
    OBVIOUS
  <1> HIDE DEF n, S, f
  <1>6. f \in Surjection(1..n, S)
    <2>1. \A c \in S : \E k \in 1..n : f[k] = c
      BY <1>3
    <2> QED
      BY <1>3, <2>1 DEF Surjection
  <1>7. f \in Injection(1..n, S)
    BY <1>2, <1>4, <1>6, FS_Surjection
  <1> QED
    BY <1>5, <1>7 DEF Injection, IsInjective, n

LEMMA BankHeldQuiet ==
    ASSUME RequestsInv, AuditInv, NEW h \in Handlers, Quiet(h)
    PROVE  \A g \in Handlers : BankHeld(g)'
  <1> SUFFICES ASSUME NEW g \in Handlers PROVE BankHeld(g)'
    OBVIOUS
  <1>0. UNCHANGED audit
    BY DEF Quiet, libVars
  <1>1. CASE g # h
    <2>1. tx'[g] = tx[g]
      BY <1>1 DEF Quiet
    <2> QED
      BY <1>0, <2>1 DEF AuditInv, BankHeld, Req, CandidatesOf
  <1>2. CASE g = h /\ (tx'[h] = NoTx \/ Fresh(h))
    BY <1>2 DEF BankHeld, NoTx, Fresh, Writing
  <1>3. CASE g = h /\ Keeps(h) /\ tx'[h].pc = "validate"
    <2>1. Lock("bank", <<Req(h).bank>>, "own") \in Wanted(h)
      BY <1>3 DEF Wanted, At, Keeps
    <2> QED
      BY <1>3, <2>1 DEF BankHeld, Req, Keeps, Writing
  <1>4. CASE g = h /\ Keeps(h) /\ tx'[h].pc \in Writing
    <2>1. CASE tx[h].pc \in Writing
      BY SMTT(30), <1>0, <1>4, <2>1 DEF AuditInv, BankHeld, Req, CandidatesOf, Keeps
    <2>2. CASE tx[h].pc = "validate" /\ Valid(Req(h))
      BY SMTT(30), <1>0, <1>4, <2>2 DEF AuditInv, BankHeld, Req, CandidatesOf, Keeps, Valid
    <2> QED
      BY <1>4, <2>1, <2>2 DEF Keeps
  <1> QED
    BY <1>1, <1>2, <1>3, <1>4 DEF Quiet, BankHeld

\* A step that writes no audit row and moves at most h, to its end.
LEMMA BankHeldEnd ==
    ASSUME AuditInv, NEW h \in Handlers, tx'[h] = NoTx,
           \A g \in Handlers \ {h} : tx'[g] = tx[g], UNCHANGED audit
    PROVE  \A g \in Handlers : BankHeld(g)'
  <1> SUFFICES ASSUME NEW g \in Handlers PROVE BankHeld(g)'
    OBVIOUS
  <1>1. CASE g # h
    BY SMTT(60), <1>1 DEF AuditInv, BankHeld, Req, CandidatesOf
  <1>2. CASE g = h
    BY <1>2 DEF BankHeld, NoTx
  <1> QED
    BY <1>1, <1>2

\* The rows of the audit stay and the questions keep where they came from.
LEMMA AuditKept ==
    ASSUME AuditInv, UNCHANGED <<audit, imported, runs>>,
           \A i \in 1..Len(questions') :
             (questions'[i].origin # None) <=> \E x \in audit : x.question = i,
           \A h \in Handlers : BankHeld(h)'
    PROVE  AuditInv'
  <1>1. \A c : RowsOf(c)' = RowsOf(c)
    BY DEF RowsOf
  <1> QED
    BY <1>1 DEF AuditInv

\* A commit of an import gives each of its candidates one row in this bank.
LEMMA AuditCommitted ==
    ASSUME RequestsInv, LocksInv, KeysInv, AuditInv, NEW h \in Handlers, CommitImport(h)
    PROVE  AuditInv'
  <1> DEFINE req == Req(h)
             m == Len(questions)
             n == Len(req.items)
             Cand(i) == req.items[i].candidate
             Row_(i) == AuditRow(req.key, RequestHash(req), req.bank, Cand(i), m + i, m)
  <1>1. /\ req \in Imports /\ Prepared(req) /\ tx[h].pc \in Writing
        /\ m \in Nat /\ n \in Nat /\ Len(questions') = m + n
        /\ n = Len(tx[h].added)
        /\ audit' = audit \cup {Row_(i) : i \in 1..n}
        /\ \A i \in 1..n : questions'[m + i].origin = Cand(i)
    BY AuditAdded
  <1>2. /\ tx'[h] = NoTx /\ \A g \in Handlers \ {h} : tx'[g] = tx[g]
        /\ \A i \in 1..m : questions'[i] = questions[i]
    BY Committed, EndMoves, TxFacts
  <1>3. /\ CandidatesOf(req) = {Cand(i) : i \in 1..n}
        /\ \A i \in 1..n : Cand(i) \in Candidates /\ Cand(i) # None
        /\ \A i, j \in 1..n : Cand(i) = Cand(j) => i = j
    <2>1. DOMAIN req.items = 1..n
      BY <1>1, ItemTypes
    <2>2. \A i \in 1..n : Cand(i) \in Candidates /\ Cand(i) # None
      BY SMTT(60), <1>1, ItemTypes, LibraryAssumption
    <2>3. \A i, j \in 1..n : Cand(i) = Cand(j) => i = j
      BY <1>1, CandidatesDiffer
    <2> QED
      BY <2>1, <2>2, <2>3 DEF CandidatesOf
  <1>4. /\ Lock("bank", <<req.bank>>, "own") \in tx[h].locks
        /\ \A x \in audit : x.bank = req.bank => x.candidate \notin CandidatesOf(req)
    BY <1>1 DEF AuditInv, BankHeld, CommitImport
  <1>5. \A x \in audit : x.question \in 1..m
    BY DEF KeysInv, RowOK
  <1>6. /\ runs' = runs
        /\ imported' = [c \in Candidates |->
                          imported[c] + IF c \in CandidatesOf(req) THEN 1 ELSE 0]
    BY DEF CommitImport
  <1>7. \A i \in 1..n : /\ Row_(i).bank = req.bank /\ Row_(i).candidate = Cand(i)
                        /\ Row_(i).question = m + i
    BY DEF AuditRow
  <1> HIDE DEF req, m, n, Cand, Row_
  <1>8. \A x \in audit' : x \in audit \/ \E i \in 1..n : x = Row_(i)
    BY <1>1
  <1>9. imported' \in [Candidates -> Nat]
    BY <1>6 DEF AuditInv
  <1>10. ASSUME NEW i \in 1..Len(questions')
         PROVE  (questions'[i].origin # None) <=> \E x \in audit' : x.question = i
    <2>1. CASE i \in 1..m
      <3>1. \A x \in audit' : x.question = i => x \in audit
        BY <1>1, <1>7, <1>8, <2>1
      <3> QED
        BY <1>1, <1>2, <2>1, <3>1 DEF AuditInv, m
    <2>2. CASE i \notin 1..m
      <3>1. i - m \in 1..n /\ i = m + (i - m)
        BY <1>1, <2>2
      <3>2. PICK k \in 1..n : i = m + k
        BY <3>1
      <3> QED
        BY <1>1, <1>3, <1>7, <3>2
    <2> QED
      BY <2>1, <2>2
  <1>11. ASSUME NEW x \in audit', NEW y \in audit',
                x.candidate = y.candidate, x.candidate # None, x.bank = y.bank
         PROVE  x = y
    <2>1. CASE x \in audit /\ y \in audit
      BY <1>11, <2>1 DEF AuditInv
    <2>2. CASE x \in audit /\ \E i \in 1..n : y = Row_(i)
      BY <1>3, <1>4, <1>7, <1>11, <2>2
    <2>3. CASE y \in audit /\ \E i \in 1..n : x = Row_(i)
      BY <1>3, <1>4, <1>7, <1>11, <2>3
    <2>4. CASE (\E i \in 1..n : x = Row_(i)) /\ \E j \in 1..n : y = Row_(j)
      BY <1>3, <1>7, <1>11, <2>4
    <2> QED
      BY <1>8, <2>1, <2>2, <2>3, <2>4
  <1>12. ASSUME NEW c \in Candidates, RunOf[c] \in runs
         PROVE  imported'[c] = Cardinality(RowsOf(c))'
    <2>0. imported[c] = Cardinality(RowsOf(c)) /\ IsFiniteSet(RowsOf(c)) /\ imported[c] \in Nat
      BY <1>12, AuditFinite DEF AuditInv
    <2>1. CASE c \notin CandidatesOf(req)
      <3>1. RowsOf(c)' = RowsOf(c)
        BY <1>1, <1>3, <1>7, <2>1 DEF RowsOf
      <3> QED
        BY <1>6, <2>0, <2>1, <3>1
    <2>2. CASE c \in CandidatesOf(req)
      <3>1. PICK i \in 1..n : c = Cand(i)
        BY <1>3, <2>2
      <3>2. RowsOf(c)' = RowsOf(c) \cup {Row_(i)}
        BY <1>1, <1>3, <1>7, <3>1 DEF RowsOf
      <3>3. Row_(i) \notin RowsOf(c)
        BY <1>1, <1>5, <1>7 DEF RowsOf
      <3>4. Cardinality(RowsOf(c) \cup {Row_(i)}) = Cardinality(RowsOf(c)) + 1
        BY <2>0, <3>3, FS_AddElement
      <3> QED
        BY <1>6, <2>0, <2>2, <3>2, <3>4
    <2> QED
      BY <2>1, <2>2
  <1>13. ASSUME NEW g \in Handlers PROVE BankHeld(g)'
    <2>1. CASE g = h
      BY <1>2, <2>1 DEF BankHeld, NoTx
    <2>2. CASE g # h
      <3> SUFFICES ASSUME tx[g].op = "import", tx[g].pc \in {"validate"} \cup Writing
                   PROVE  /\ Lock("bank", <<Req(g).bank>>, "own") \in tx[g].locks
                          /\ tx[g].pc \in Writing =>
                               \A x \in audit' : x.bank = Req(g).bank =>
                                  x.candidate \notin CandidatesOf(Req(g))
        BY <1>2, <2>2 DEF BankHeld, Req, CandidatesOf
      <3>1. /\ Lock("bank", <<Req(g).bank>>, "own") \in tx[g].locks
            /\ tx[g].pc \in Writing =>
                 \A x \in audit : x.bank = Req(g).bank =>
                    x.candidate \notin CandidatesOf(Req(g))
        BY DEF AuditInv, BankHeld
      <3>2. Req(g).bank # req.bank
        BY <1>4, <2>2, <3>1, KeyConflict DEF LocksInv
      <3> QED
        BY <1>7, <1>8, <3>1, <3>2
    <2> QED
      BY <2>1, <2>2
  <1> QED
    BY <1>6, <1>9, <1>10, <1>11, <1>12, <1>13 DEF AuditInv

\* A question written by hand comes from no candidate.
LEMMA AuditCreated ==
    ASSUME RequestsInv, KeysInv, AuditInv, NEW h \in Handlers, CommitCreate(h)
    PROVE  AuditInv'
  <1>1. UNCHANGED <<audit, imported, runs>> /\ tx[h].op = "create" /\ tx[h].pc \in Writing
    BY DEF CommitCreate, At, Writing
  <1>2. /\ tx'[h] = NoTx /\ \A g \in Handlers \ {h} : tx'[g] = tx[g]
        /\ Len(questions) \in Nat /\ Len(tx[h].added) \in Nat
        /\ Len(questions') = Len(questions) + Len(tx[h].added)
        /\ \A i \in 1..Len(questions) : questions'[i] = questions[i]
        /\ \A i \in 1..Len(tx[h].added) : questions'[Len(questions) + i] = tx[h].added[i]
    BY Committed, EndMoves, TxFacts
  <1>3. ASSUME NEW i \in 1..Len(tx[h].added) PROVE tx[h].added[i].origin = None
    <2>1. tx[h].added[i] = RowAt(h, i)
      BY TxFacts DEF TxOK
    <2>2. RowAt(h, i).origin = None
      BY <1>1 DEF RowAt
    <2> QED
      BY <2>1, <2>2
  <1>4. \A x \in audit : x.question \in 1..Len(questions)
    BY DEF KeysInv, RowOK
  <1>5. ASSUME NEW i \in 1..Len(questions')
        PROVE  (questions'[i].origin # None) <=> \E x \in audit : x.question = i
    <2>1. CASE i \in 1..Len(questions)
      BY <1>2, <2>1 DEF AuditInv
    <2>2. CASE i \notin 1..Len(questions)
      <3>1. i - Len(questions) \in 1..Len(tx[h].added) /\ i = Len(questions) + (i - Len(questions))
        BY <1>2, <2>2
      <3>2. questions'[i].origin = None
        BY <1>2, <1>3, <3>1
      <3> QED
        BY <1>4, <2>2, <3>2
    <2> QED
      BY <2>1, <2>2
  <1>6. \A g \in Handlers : BankHeld(g)'
    BY <1>1, <1>2, BankHeldEnd
  <1> QED
    BY <1>1, <1>5, <1>6, AuditKept

\* An edit leaves a question where it came from.
LEMMA AuditUpdated ==
    ASSUME RequestsInv, AuditInv, NEW h \in Handlers, WriteUpdate(h)
    PROVE  AuditInv'
  <1>1. UNCHANGED <<audit, imported, runs>>
    BY DEF WriteUpdate
  <1>2. /\ tx'[h] = NoTx /\ \A g \in Handlers \ {h} : tx'[g] = tx[g]
        /\ Len(questions') = Len(questions)
        /\ \A i \in 1..Len(questions) : questions'[i].origin = questions[i].origin
    BY Updated, EndMoves, TxFacts
  <1>3. \A i \in 1..Len(questions') :
          (questions'[i].origin # None) <=> \E x \in audit : x.question = i
    BY <1>2 DEF AuditInv
  <1>4. \A g \in Handlers : BankHeld(g)'
    BY <1>1, <1>2, BankHeldEnd
  <1> QED
    BY <1>1, <1>3, <1>4, AuditKept

\* Deleting a run changes rows of its own candidates only.
LEMMA AuditDeleted ==
    ASSUME RequestsInv, KeysInv, AuditInv, NEW r \in Runs, DeleteRun(r)
    PROVE  AuditInv'
  <1>0. /\ audit' = {Orphan(x, r) : x \in audit} /\ UNCHANGED <<questions, imported, tx>>
        /\ runs' = runs \ {r}
    BY DeleteAudit DEF DeleteRun
  <1>1. \A y \in audit' : \E x \in audit : y = Orphan(x, r)
    BY <1>0
  <1>2. \A x \in audit : Orphan(x, r) \in audit'
    BY <1>0
  <1>3. ASSUME NEW i \in 1..Len(questions)
        PROVE  (\E x \in audit : x.question = i) <=> \E y \in audit' : y.question = i
    BY <1>1, <1>2, OrphanRow
  <1>4. ASSUME NEW x \in audit', NEW y \in audit',
               x.candidate = y.candidate, x.candidate # None, x.bank = y.bank
        PROVE  x = y
    <2>1. x \in audit /\ y \in audit
      BY <1>1, <1>4, OrphanRow
    <2> QED
      BY <1>4, <2>1 DEF AuditInv
  <1>5. ASSUME NEW c \in Candidates, RunOf[c] \in runs'
        PROVE  imported'[c] = Cardinality(RowsOf(c))'
    <2>1. c # None /\ RunOf[c] # r /\ RunOf[c] \in runs
      BY <1>0, <1>5, LibraryAssumption
    <2>2. \A x \in audit : x.candidate = c => Orphan(x, r).candidate = c
      BY <2>1, OrphanRow
    <2>3. \A x \in audit : Orphan(x, r).candidate = c => Orphan(x, r) = x
      BY <2>1, OrphanRow
    <2>4. RowsOf(c)' = RowsOf(c)
      BY <1>1, <1>2, <2>2, <2>3 DEF RowsOf
    <2> QED
      BY <1>0, <2>1, <2>4 DEF AuditInv
  <1>6. ASSUME NEW g \in Handlers PROVE BankHeld(g)'
    <2> SUFFICES ASSUME tx[g].op = "import", tx[g].pc \in {"validate"} \cup Writing
                 PROVE  /\ Lock("bank", <<Req(g).bank>>, "own") \in tx[g].locks
                        /\ tx[g].pc \in Writing =>
                             \A y \in audit' : y.bank = Req(g).bank =>
                                y.candidate \notin CandidatesOf(Req(g))
      BY <1>0 DEF BankHeld, Req, CandidatesOf
    <2>1. /\ Lock("bank", <<Req(g).bank>>, "own") \in tx[g].locks
          /\ tx[g].pc \in Writing =>
               \A x \in audit : x.bank = Req(g).bank =>
                  x.candidate \notin CandidatesOf(Req(g))
      BY DEF AuditInv, BankHeld
    <2>2. None \notin CandidatesOf(Req(g))
      <3>1. Req(g) \in Imports
        BY TxFacts DEF ImportOK
      <3> QED
        BY <3>1, ItemTypes, LibraryAssumption DEF CandidatesOf
    <2>3. \A y \in audit' : y.candidate = None \/ y \in audit
      BY <1>1, OrphanRow
    <2> QED
      BY <2>1, <2>2, <2>3
  <1>7. imported' \in [Candidates -> Nat]
    BY <1>0 DEF AuditInv
  <1> QED
    BY <1>0, <1>3, <1>4, <1>5, <1>6, <1>7 DEF AuditInv

LEMMA AuditNext == RequestsInv /\ LocksInv /\ KeysInv /\ AuditInv /\ [Next]_vars => AuditInv'
  <1> SUFFICES ASSUME RequestsInv, LocksInv, KeysInv, AuditInv, [Next]_vars PROVE AuditInv'
    OBVIOUS
  <1>1. ASSUME NEW h \in Handlers, Quiet(h) PROVE AuditInv'
    <2>1. UNCHANGED <<questions, audit, imported, runs>>
      BY <1>1 DEF Quiet, libVars
    <2>2. \A i \in 1..Len(questions') :
            (questions'[i].origin # None) <=> \E x \in audit : x.question = i
      BY <2>1 DEF AuditInv
    <2> QED
      BY <1>1, <2>1, <2>2, BankHeldQuiet, AuditKept
  <1>2. CASE UNCHANGED <<questions, audit, imported, slugs, runs, tx>>
    <2>1. \A g \in Handlers : BankHeld(g)'
      BY <1>2 DEF AuditInv, BankHeld, Req, CandidatesOf
    <2>2. \A i \in 1..Len(questions') :
            (questions'[i].origin # None) <=> \E x \in audit : x.question = i
      BY <1>2 DEF AuditInv
    <2> QED
      BY <1>2, <2>1, <2>2, AuditKept
  <1> QED
    BY <1>1, <1>2, NextMoves, AuditCommitted, AuditCreated, AuditUpdated, AuditDeleted

LEMMA AuditInvariance == Spec => []AuditInv
  <1>1. Init => AuditInv
    <2> SUFFICES ASSUME Init PROVE AuditInv
      OBVIOUS
    <2>1. /\ questions = <<>> /\ Len(questions) = 0 /\ audit = {}
          /\ imported = [c \in Candidates |-> 0]
          /\ \A h \in Handlers : tx[h] = NoTx
      BY DEF Init
    <2>2. \A c : RowsOf(c) = {}
      BY <2>1 DEF RowsOf
    <2>3. \A h \in Handlers : BankHeld(h)
      BY <2>1 DEF BankHeld, NoTx
    <2> QED
      BY SMTT(30), <2>1, <2>2, <2>3, FS_EmptySet DEF AuditInv
  <1> QED
    BY <1>1, AuditNext, RequestsInvariance, LocksInvariance, KeysInvariance, PTL DEF Spec

\* What runs, archives and tags can be.
TablesInv == runs \subseteq Runs /\ archived \subseteq Banks /\ slugs \subseteq Slugs

LEMMA TablesInvariance == Spec => []TablesInv
  <1>1. Init => TablesInv
    BY DEF Init, TablesInv
  <1>2. TablesInv /\ [Next]_vars => TablesInv'
    <2> SUFFICES ASSUME TablesInv, [Next]_vars PROVE TablesInv'
      OBVIOUS
    <2>1. ASSUME NEW h \in Handlers, HandlerStep(h) PROVE TablesInv'
      BY <2>1
      DEF HandlerStep, LockKey, LockRun, LockBank, Validate, InsertQuestion, LookupTag,
          InsertTag, NextItem, CommitImport, CommitCreate, WriteUpdate, TablesInv, rowVars, libVars,
          NewSlugs
    <2>2. ASSUME NEW h \in Handlers, BeginImport(h) \/ BeginCreate(h) \/ BeginUpdate(h)
                                     \/ AbortDeadlock(h) \/ Lose(h)
          PROVE  TablesInv'
      BY <2>2 DEF BeginImport, BeginCreate, BeginUpdate, AbortDeadlock, Lose, TablesInv, rowVars, libVars
    <2>3. ASSUME NEW r \in RunsDeleted, DeleteRun(r) PROVE TablesInv'
      BY <2>3 DEF DeleteRun, TablesInv
    <2>4. ASSUME NEW b \in BanksArchived, ArchiveBank(b) PROVE TablesInv'
      BY <2>4, LibraryAssumption DEF ArchiveBank, TablesInv
    <2>5. UNCHANGED vars => TablesInv'
      BY DEF vars, TablesInv
    <2> QED
      BY <2>1, <2>2, <2>3, <2>4, <2>5 DEF Next
  <1> QED
    BY <1>1, <1>2, PTL DEF Spec

-----------------------------------------------------------------------------
(* AnswersInv *)

\* While its run exists, a row names the candidate of its item.
NamesOK(x) ==
    /\ DOMAIN x.request.items = 1..Len(x.request.items)
    /\ \A i \in 1..Len(x.request.items) :
         /\ x.request.items[i].candidate \in Candidates
         /\ RunOf[x.request.items[i].candidate] = x.request.run
    /\ x.request.run \in runs => x.candidate = x.request.items[x.question - x.batch].candidate

\* A result names the batch of the key; a conflict has its reason.
AnswerOK(a) ==
    IF a.batch = None
    THEN a.request.run \notin runs \/ \E x \in audit : x.key = a.key /\ x.request # a.request
    ELSE \E x \in audit : x.key = a.key /\ x.batch = a.batch /\ x.request = a.request

AnswersInv ==
    /\ \A x \in audit : NamesOK(x)
    /\ \A a \in answers : AnswerOK(a)

LEMMA AnswersKept ==
    ASSUME AnswersInv, UNCHANGED <<audit, runs, answers>>
    PROVE  AnswersInv'
  BY DEF AnswersInv, NamesOK, AnswerOK

\* The rows of a key are numbered as the items of their request are.
LEMMA KeyRows ==
    ASSUME KeysInv, NEW x \in audit
    PROVE  /\ \A y \in Existing(x.key) : y.batch = x.batch /\ y.request = x.request
           /\ Cardinality(Existing(x.key)) = Len(x.request.items)
  <1> DEFINE S == Existing(x.key)
             n == Len(x.request.items)
             f == [k \in BatchOf(x) |-> CHOOSE y \in S : y.question = k]
  <1>1. \A y \in S : y.batch = x.batch /\ y.request = x.request
    BY DEF KeysInv, Existing
  <1>2. x.batch \in Nat /\ n \in Nat
    BY DEF KeysInv, RowOK
  <1>3. IsFiniteSet(BatchOf(x)) /\ Cardinality(BatchOf(x)) = n
    <2> DEFINE lo == x.batch + 1
               hi == x.batch + n
    <2>1. lo \in Int /\ hi \in Int /\ (IF lo > hi THEN 0 ELSE hi - lo + 1) = n
      BY SMTT(60), <1>2
    <2>2. BatchOf(x) = lo..hi
      BY DEF BatchOf
    <2> HIDE DEF lo, hi
    <2>3. IsFiniteSet(lo..hi) /\ Cardinality(lo..hi) = IF lo > hi THEN 0 ELSE hi - lo + 1
      BY <2>1, FS_Interval
    <2> QED
      BY <2>1, <2>2, <2>3
  <1>4. \A k \in BatchOf(x) : f[k] \in S /\ f[k].question = k
    BY DEF KeysInv, Existing
  <1>5. \A y \in S : y.question \in BatchOf(x)
    BY <1>1 DEF KeysInv, RowOK, BatchOf, Existing
  <1>6. \A y, z \in S : y.question = z.question => y = z
    BY DEF KeysInv, Existing
  <1>7. f \in [BatchOf(x) -> S]
    BY <1>4
  <1> HIDE DEF S, f
  <1>8. f \in Bijection(BatchOf(x), S)
    <2>1. \A k, l \in BatchOf(x) : f[k] = f[l] => k = l
      BY <1>4
    <2>2. \A y \in S : \E k \in BatchOf(x) : f[k] = y
      BY <1>4, <1>5, <1>6
    <2>3. f \in Injection(BatchOf(x), S)
      BY <1>7, <2>1 DEF Injection, IsInjective
    <2>4. f \in Surjection(BatchOf(x), S)
      BY <1>7, <2>2 DEF Surjection
    <2> QED
      BY <2>3, <2>4 DEF Bijection
  <1>9. Cardinality(S) = n
    BY <1>3, <1>8, FS_Bijection DEF ExistsBijection
  <1> QED
    BY <1>1, <1>9 DEF S

\* A key that has rows can be replayed by their request as long as its run exists.
LEMMA ReplayPossible ==
    ASSUME KeysInv, AnswersInv, NEW x \in audit, NEW req \in Imports,
           x.key = req.key, x.request = RequestHash(req), req.run \in runs
    PROVE  Replayable(req)
  <1> DEFINE S == Existing(req.key)
             n == Len(req.items)
  <1>1. /\ x.request.items = req.items /\ x.request.run = req.run
        /\ x \in S /\ x.batch \in Nat /\ n \in Nat
    BY ItemTypes DEF RequestHash, Existing, KeysInv, RowOK
  <1>2. /\ \A y \in S : y \in audit /\ y.batch = x.batch /\ y.request = x.request
        /\ Cardinality(S) = n
    BY <1>1, KeyRows DEF Existing
  <1>3. DOMAIN req.items = 1..n /\ \A i \in 1..n : req.items[i].candidate \in Candidates
    BY ItemTypes
  <1>4. ASSUME NEW y \in S
        PROVE  /\ y.question - x.batch \in 1..n
               /\ y.candidate = req.items[y.question - x.batch].candidate
    <2>1. y \in audit /\ y.batch = x.batch /\ y.request = x.request
      BY <1>2
    <2>2. y.question \in (x.batch + 1)..(x.batch + n)
      BY <1>1, <2>1 DEF KeysInv, RowOK, BatchOf
    <2>3. y.candidate = req.items[y.question - x.batch].candidate
      BY <1>1, <2>1 DEF AnswersInv, NamesOK
    <2> QED
      BY <1>1, <2>2, <2>3
  <1>5. ASSUME NEW i \in 1..n PROVE \E y \in S : y.candidate = req.items[i].candidate
    <2>1. x.batch + i \in BatchOf(x)
      BY <1>1 DEF BatchOf
    <2>2. PICK y \in audit : y.key = x.key /\ y.question = x.batch + i
      BY <2>1 DEF KeysInv
    <2>3. y \in S /\ y.question - x.batch = i
      BY <1>1, <2>2 DEF Existing
    <2> QED
      BY <1>4, <2>3
  <1>6. {row.candidate : row \in S} \ {None} = CandidatesOf(req)
    <2>1. None \notin Candidates
      BY LibraryAssumption
    <2> HIDE DEF S, n
    <2> QED
      BY <1>3, <1>4, <1>5, <2>1 DEF CandidatesOf
  <1>7. {row.batch : row \in S} = {x.batch}
    BY <1>1, <1>2
  <1>8. Cardinality({x.batch}) = 1
    BY FS_Singleton
  <1> QED
    BY <1>1, <1>2, <1>6, <1>7, <1>8 DEF Replayable

LEMMA AnswersLooked ==
    ASSUME RequestsInv, KeysInv, AnswersInv, NEW h \in Handlers, LockKey(h)
    PROVE  AnswersInv'
  <1> DEFINE req == Req(h)
  <1>1. UNCHANGED <<audit, runs>>
    BY DEF LockKey
  <1>2. CASE Existing(req.key) = {}
    BY <1>1, <1>2, AnswersKept DEF LockKey
  <1>3. CASE Existing(req.key) # {}
    <2>1. answers' = answers \cup {Replay(req)}
      BY <1>3 DEF LockKey
    <2>2. req \in Imports
      BY TxFacts DEF LockKey, At, ImportOK
    <2>3. PICK x \in Existing(req.key) : x = CHOOSE row \in Existing(req.key) : TRUE
      BY <1>3
    <2>4. x \in audit /\ x.key = req.key /\ x.batch \in Nat /\ x.batch # None
      BY <2>3, LibraryAssumption DEF Existing, KeysInv, RowOK
    <2>5. CASE Replayable(req)
      <3>1. Replay(req) = Answer(req, x.batch)
        BY <2>3, <2>5 DEF Replay
      <3>2. x.request = RequestHash(req)
        BY <2>3, <2>5 DEF Replayable
      <3>3. AnswerOK(Replay(req))
        BY <2>4, <3>1, <3>2 DEF AnswerOK, Answer
      <3> QED
        BY <1>1, <2>1, <3>3 DEF AnswersInv, AnswerOK, NamesOK
    <2>6. CASE ~Replayable(req)
      <3>1. Replay(req) = Answer(req, None)
        BY <2>6 DEF Replay
      <3>2. req.run \notin runs \/ x.request # RequestHash(req)
        BY <2>2, <2>4, <2>6, ReplayPossible
      <3>3. AnswerOK(Replay(req))
        BY <2>4, <3>1, <3>2 DEF AnswerOK, Answer, RequestHash
      <3> QED
        BY <1>1, <2>1, <3>3 DEF AnswersInv, AnswerOK, NamesOK
    <2> QED
      BY <2>5, <2>6
  <1> QED
    BY <1>2, <1>3

LEMMA AnswersCommitted ==
    ASSUME RequestsInv, KeysInv, AnswersInv, NEW h \in Handlers, CommitImport(h)
    PROVE  AnswersInv'
  <1> DEFINE req == Req(h)
             m == Len(questions)
             n == Len(req.items)
             Row_(i) == AuditRow(req.key, RequestHash(req), req.bank,
                                 req.items[i].candidate, m + i, m)
  <1>1. /\ req \in Imports /\ Prepared(req) /\ tx[h].pc \in Writing
        /\ m \in Nat /\ n \in Nat
        /\ audit' = audit \cup {Row_(i) : i \in 1..n}
    BY AuditAdded
  <1>2. UNCHANGED runs /\ answers' = answers \cup {Answer(req, m)}
    BY DEF CommitImport
  <1>3. CandidatesFound(req)
    BY <1>1, TxFacts DEF CommitImport, ImportOK
  <1>4. /\ DOMAIN req.items = 1..n
        /\ \A i \in 1..n : /\ req.items[i].candidate \in Candidates
                           /\ RunOf[req.items[i].candidate] = req.run
    BY <1>1, <1>3, ItemTypes DEF CandidatesFound, CandidatesOf
  <1>5. ASSUME NEW i \in 1..n
        PROVE  /\ Row_(i).key = req.key /\ Row_(i).request = RequestHash(req)
               /\ Row_(i).candidate = req.items[i].candidate
               /\ Row_(i).question - Row_(i).batch = i /\ Row_(i).batch = m
               /\ Row_(i).request.items = req.items /\ Row_(i).request.run = req.run
    BY <1>1 DEF AuditRow, RequestHash
  <1>6. m # None /\ 1 \in 1..n
    BY <1>1, LibraryAssumption DEF Prepared
  <1> HIDE DEF Row_, req, m, n
  <1>7. ASSUME NEW x \in audit' PROVE NamesOK(x)'
    <2>1. CASE x \in audit
      BY <1>2, <2>1 DEF AnswersInv, NamesOK
    <2>2. CASE \E i \in 1..n : x = Row_(i)
      BY <1>4, <1>5, <2>2 DEF NamesOK, n
    <2> QED
      BY <1>1, <2>1, <2>2
  <1>8. ASSUME NEW a \in answers PROVE AnswerOK(a)'
    BY <1>1, <1>2 DEF AnswersInv, AnswerOK
  <1>9. ASSUME NEW a, a = Answer(req, m) PROVE AnswerOK(a)'
    <2>1. a.batch = m /\ a.key = req.key /\ a.request = RequestHash(req)
      BY <1>9 DEF Answer
    <2>2. Row_(1) \in audit'
      BY <1>1, <1>6
    <2>3. \E x \in audit' : x.key = req.key /\ x.batch = m /\ x.request = RequestHash(req)
      BY <1>5, <1>6, <2>2
    <2> QED
      BY <1>6, <2>1, <2>3 DEF AnswerOK
  <1> QED
    BY <1>2, <1>7, <1>8, <1>9 DEF AnswersInv

LEMMA AnswersDeleted ==
    ASSUME RequestsInv, KeysInv, AnswersInv, NEW r \in Runs, DeleteRun(r)
    PROVE  AnswersInv'
  <1>1. audit' = {Orphan(x, r) : x \in audit} /\ UNCHANGED answers /\ runs' = runs \ {r}
    BY DeleteAudit DEF DeleteRun
  <1>2. ASSUME NEW x \in audit
        PROVE  /\ Orphan(x, r) \in audit'
               /\ Orphan(x, r).key = x.key /\ Orphan(x, r).request = x.request
               /\ Orphan(x, r).batch = x.batch /\ Orphan(x, r).question = x.question
               /\ Orphan(x, r).candidate = IF x.candidate # None /\ RunOf[x.candidate] = r
                                           THEN None ELSE x.candidate
    BY <1>1, OrphanRow
  <1>3. ASSUME NEW y \in audit' PROVE NamesOK(y)'
    <2>1. PICK x \in audit : y = Orphan(x, r)
      BY <1>1
    <2>2. /\ y.request = x.request /\ y.batch = x.batch /\ y.question = x.question
          /\ y.candidate = IF x.candidate # None /\ RunOf[x.candidate] = r
                           THEN None ELSE x.candidate
      BY <1>2, <2>1
    <2>3. NamesOK(x) /\ RowOK(x)
      BY DEF AnswersInv, KeysInv
    <2>4. x.question - x.batch \in 1..Len(x.request.items)
      BY SMTT(30), <2>3 DEF RowOK, BatchOf
    <2> QED
      BY <1>1, <2>2, <2>3, <2>4 DEF NamesOK
  <1>4. ASSUME NEW a \in answers PROVE AnswerOK(a)'
    <2>1. AnswerOK(a)
      BY DEF AnswersInv
    <2>2. ASSUME NEW x \in audit
          PROVE  \E y \in audit' : y.key = x.key /\ y.batch = x.batch /\ y.request = x.request
      BY <1>2
    <2> QED
      BY <1>1, <2>1, <2>2 DEF AnswerOK
  <1> QED
    BY <1>1, <1>3, <1>4 DEF AnswersInv

LEMMA AnswersNext == RequestsInv /\ KeysInv /\ AnswersInv /\ [Next]_vars => AnswersInv'
  <1> SUFFICES ASSUME RequestsInv, KeysInv, AnswersInv, [Next]_vars PROVE AnswersInv'
    OBVIOUS
  <1>1. ASSUME NEW h \in Handlers, HandlerStep(h), ~LockKey(h), ~CommitImport(h)
        PROVE  AnswersInv'
    BY <1>1, AnswersKept
       DEF HandlerStep, LockRun, LockBank, Validate, InsertQuestion, LookupTag, InsertTag,
           NextItem, CommitCreate, WriteUpdate, rowVars
  <1>2. ASSUME NEW h \in Handlers,
               \/ BeginImport(h) \/ BeginCreate(h) \/ BeginUpdate(h)
               \/ AbortDeadlock(h) \/ Lose(h)
        PROVE  AnswersInv'
    BY <1>2, AnswersKept DEF BeginImport, BeginCreate, BeginUpdate, AbortDeadlock, Lose, rowVars
  <1>3. ASSUME NEW r \in RunsDeleted, DeleteRun(r) PROVE AnswersInv'
    BY <1>3, AnswersDeleted, LibraryAssumption
  <1>4. ASSUME NEW b \in BanksArchived, ArchiveBank(b) PROVE AnswersInv'
    BY <1>4, AnswersKept DEF ArchiveBank
  <1>5. CASE UNCHANGED vars
    BY <1>5, AnswersKept DEF vars
  <1> QED
    BY <1>1, <1>2, <1>3, <1>4, <1>5, AnswersLooked, AnswersCommitted DEF Next

LEMMA AnswersInvariance == Spec => []AnswersInv
  <1>1. Init => AnswersInv
    BY DEF Init, AnswersInv
  <1> QED
    BY <1>1, AnswersNext, RequestsInvariance, KeysInvariance, PTL DEF Spec

-----------------------------------------------------------------------------
(***************************************************************************)
(* Theorems                                                                *)
(***************************************************************************)

\* A bank holds a prompt once, however the looks and the inserts of any number of
\* imports, new questions and edits interleave (uq_question_bank_hash).
THEOREM LibraryNoDuplicatePrompts == Spec => []NoDuplicatePrompts
  <1>1. EntriesInv => NoDuplicatePrompts
    BY DEF EntriesInv
  <1> QED
    BY <1>1, EntriesInvariance, PTL

\* Retrying an idempotency key inserts nothing: the rows that exist for a key were
\* written by one commit, for one request, and they are one for each of its items;
\* and every import under the key that was answered with a result was answered with
\* that batch, the others having another body or a run that is gone, whatever other
\* imports, edits and deletions of runs happen.
THEOREM LibraryKeyImportsOnce == Spec => []KeyImportsOnce
  <1>1. KeysInv /\ AnswersInv => KeyImportsOnce
    <2> SUFFICES ASSUME KeysInv, AnswersInv PROVE KeyImportsOnce
      OBVIOUS
    <2>1. ASSUME NEW x \in audit
          PROVE  /\ \A y \in Existing(x.key) : y.batch = x.batch /\ y.request = x.request
                 /\ Cardinality(Existing(x.key)) = Len(x.request.items)
      BY KeyRows
    <2>2. ASSUME NEW a \in answers, a.batch = None
          PROVE  a.request.run \notin runs \/ \E row \in Existing(a.key) : row.request # a.request
      BY <2>2 DEF AnswersInv, AnswerOK, Existing
    <2>3. ASSUME NEW a \in answers, a.batch # None
          PROVE  /\ Existing(a.key) # {}
                 /\ \A row \in Existing(a.key) : row.batch = a.batch /\ row.request = a.request
      <3>1. PICK x \in audit : x.key = a.key /\ x.batch = a.batch /\ x.request = a.request
        BY <2>3 DEF AnswersInv, AnswerOK
      <3> QED
        BY <3>1 DEF KeysInv, Existing
    <2> QED
      BY <2>1, <2>2, <2>3 DEF KeyImportsOnce
  <1> QED
    BY <1>1, KeysInvariance, AnswersInvariance, PTL

\* The audit explains the library: a question came from a candidate exactly when it
\* has an audit row, no question has two, no candidate reaches a bank twice although
\* nothing in the schema forbids it, and import_count says how many banks hold it.
THEOREM LibraryAuditMatches == Spec => []AuditMatchesLibrary
  <1>1. RequestsInv /\ KeysInv /\ AuditInv /\ TablesInv /\ AnswersInv => AuditMatchesLibrary
    <2> SUFFICES ASSUME RequestsInv, KeysInv, AuditInv, TablesInv, AnswersInv
                 PROVE  AuditMatchesLibrary
      OBVIOUS
    <2>1. DOMAIN questions = 1..Len(questions)
      BY LenProperties DEF RequestsInv
    <2>2. \A i \in DOMAIN questions : questions[i] \in Question
      BY <2>1, ElementOfSeq DEF RequestsInv
    <2>3. \A h \in Handlers : tx[h].pc \in Pcs /\ (At(h, "idle") => tx[h] = NoTx)
      BY DEF RequestsInv, TxOK
    <2>a. \A a \in answers : a.batch \in Nat \cup {None}
      BY DEF AnswersInv, AnswerOK, KeysInv, RowOK
    <2>4. TypeOK
      BY <2>1, <2>2, <2>3, <2>a DEF TypeOK, TablesInv, AuditInv, KeysInv, RowOK, Question
    <2>5. \A c \in Candidates : {row \in audit : row.candidate = c} = RowsOf(c)
      BY DEF RowsOf
    <2>6. \A i \in DOMAIN questions :
            (questions[i].origin # None) <=> \E row \in audit : row.question = i
      BY <2>1 DEF AuditInv
    <2>7. \A c \in Candidates :
            RunOf[c] \in runs => imported[c] = Cardinality({row \in audit : row.candidate = c})
      BY <2>5 DEF AuditInv
    <2>8. \A x, y \in audit : x.question = y.question => x = y
      BY DEF KeysInv
    <2>9. \A x, y \in audit :
            x.candidate = y.candidate /\ x.candidate # None /\ x.bank = y.bank => x = y
      BY DEF AuditInv
    <2> QED
      BY <2>4, <2>6, <2>7, <2>8, <2>9 DEF AuditMatchesLibrary
  <1> QED
    BY <1>1, RequestsInvariance, KeysInvariance, AuditInvariance, TablesInvariance,
       AnswersInvariance, PTL
===============================================================================
