------------------------- MODULE EquityWriteService -------------------------
(***************************************************************************)
(* The hub every verb of the write service runs through: the calls in      *)
(* flight, the awaits each makes and in which order, the general ledger    *)
(* behind GlPostSink, the transactional outbox, and the locks a database   *)
(* transaction holds until it ends.                                        *)
(*                                                                         *)
(* A call is one invocation of a verb by a client.  Its identity is the    *)
(* uuid the verb mints for it (txn_id, transfer_group_id, div_id), so a    *)
(* client's retry is another call.  Between two awaits other calls run; a  *)
(* step is what the code does from one await to the next.                  *)
(***************************************************************************)
EXTENDS EquityGl

CONSTANTS
  Call,         \* the calls clients make
  ShareClass,   \* share class ids
  Shareholder,  \* shareholder ids
  Requests      \* Requests[k]: the requests call k may carry

\* The input structs of the verbs, with whether the call runs under an org
\* scope that carries a company.
IssueShares == [verb: {"issue"}, class: ShareClass, to: Shareholder,
                quantity: Int, price: Int, scoped: BOOLEAN]
TransferShares == [verb: {"transfer"}, class: ShareClass, from: Shareholder,
                   to: Shareholder, quantity: Int, scoped: BOOLEAN]
BuybackShares == [verb: {"buyback"}, class: ShareClass, from: Shareholder,
                  quantity: Int, price: Int, scoped: BOOLEAN]
DeclareDividend == [verb: {"declare"}, class: ShareClass, per_share: Int,
                    scoped: BOOLEAN]
PayDividend == [verb: {"pay"}, dividend: Call, scoped: BOOLEAN]

Movement == IssueShares \cup TransferShares \cup BuybackShares
Request  == Movement \cup DeclareDividend \cup PayDividend
NoRequest == [verb |-> "none"]

\* The lifecycle events.
SharesIssued == [type: {"SharesIssued"}, class: ShareClass, to: Shareholder,
                 quantity: Int]
SharesTransferred == [type: {"SharesTransferred"}, class: ShareClass,
                      from: Shareholder, to: Shareholder, quantity: Int]
SharesBoughtBack == [type: {"SharesBoughtBack"}, class: ShareClass,
                     from: Shareholder, quantity: Int]
DividendDeclared == [type: {"DividendDeclared"}, dividend: Call,
                     class: ShareClass, total: Int]
DividendPaid == [type: {"DividendPaid"}, dividend: Call, total: Int]

EquityEvent == SharesIssued \cup SharesTransferred \cup SharesBoughtBack
               \cup DividendDeclared \cup DividendPaid

\* An outbox record; occurred_at is read from the clock when it is staged.
OutboxRecord == [call: Call, at: Nat, event: EquityEvent]

\* The source ids journals are posted under: the uuid a verb minted, or the
\* uuid_v5 pay_dividend derives from the dividend's.
Minted(k)  == << k >>
Derived(k) == << k, "equity-dividend-pay" >>
SourceId   == {Minted(k) : k \in Call} \cup {Derived(k) : k \in Call}

\* A journal the ledger has booked.
Journal == [leg: {"issue", "buyback", "declare", "pay"}, source: SourceId,
            lines: Seq(GlPostLine)]

\* What a transaction can lock: a position (advisory) or a dividend's row.
LockKey == (ShareClass \X Shareholder) \cup {<< d >> : d \in Call}

ASSUME RequestsAssumption == Requests \in [Call -> SUBSET Request]

\* Ids are uuids, of which there are finitely many.
ASSUME IdsAssumption == IsFiniteSet(Call) /\ IsFiniteSet(Shareholder)

VARIABLES
  pc,      \* pc[k]: the await call k is at
  req,     \* req[k]: the request call k carries
  locks,   \* what open transactions have locked, until they end
  gl,      \* the journals the general ledger has booked
  clock,   \* the wall clock: one tick per outbox record
  stamp,   \* stamp[k]: occurred_at of the record call k staged
  outbox   \* the committed outbox records, in commit order

hubVars == << pc, req, locks, gl, clock, stamp, outbox >>

-----------------------------------------------------------------------------
(* The awaits of each verb: for each, the one that follows.  A "commit" is *)
(* followed by the in-process "publish" and the call returns "ok".         *)

IssueAwaits    == [load |-> "post", post |-> "insert", insert |-> "stage",
                   stage |-> "commit", commit |-> "publish"]
TransferAwaits == [lock |-> "holding", holding |-> "insert", insert |-> "stage",
                   stage |-> "commit", commit |-> "publish"]
\* Mutant: the journal is not posted.
BuybackAwaitsUnposted ==
  [load |-> "lock", lock |-> "holding", holding |-> "insert", insert |-> "stage",
   stage |-> "commit", commit |-> "publish"]

\* Mutant: the journal is posted before the holding is checked.
BuybackAwaitsPostFirst ==
  [load |-> "post", post |-> "lock", lock |-> "holding", holding |-> "insert",
   insert |-> "stage", stage |-> "commit", commit |-> "publish"]

BuybackAwaits  == [load |-> "lock", lock |-> "holding", holding |-> "insert",
                   insert |-> "post", post |-> "stage", stage |-> "commit",
                   commit |-> "publish"]
DeclareAwaits  == [outstanding |-> "post", post |-> "insert", insert |-> "stage",
                   stage |-> "commit", commit |-> "publish"]
PayAwaits      == [fetch |-> "claim", claim |-> "post", post |-> "stage",
                   stage |-> "commit", commit |-> "publish"]

Awaits == [issue |-> IssueAwaits, transfer |-> TransferAwaits,
           buyback |-> BuybackAwaits, declare |-> DeclareAwaits,
           pay |-> PayAwaits]
First  == [issue |-> "load", transfer |-> "lock", buyback |-> "load",
           declare |-> "outstanding", pay |-> "fetch"]

Ended == {"ok", "refused", "interrupted"}
Await == {"load", "lock", "holding", "outstanding", "fetch", "claim", "post",
          "insert", "stage", "commit", "publish"}

\* Call k returns from the await it is at and makes the next one.
Advance(k) == pc' = [pc EXCEPT ![k] = Awaits[req[k].verb][pc[k]]]

\* A transaction that ends, either way, gives up what it has locked.
Released(k) == {l \in locks : l.owner # k}
Free(key)   == \A l \in locks : l.key # key
Lock(k, key) == locks' = locks \cup {[key |-> key, owner |-> k]}

\* Mutant: the call starts over.
RefuseAgain(k) == pc' = [pc EXCEPT ![k] = "idle"] /\ locks' = Released(k)

\* Call k returns an error: its transaction, if one is open, rolls back.
Refuse(k) == /\ pc' = [pc EXCEPT ![k] = "refused"]
             /\ locks' = Released(k)

-----------------------------------------------------------------------------
\* What a verb checks before its first await.
Valid(r) ==
  CASE r.verb \in {"issue", "buyback"} -> r.quantity > 0
    [] r.verb = "transfer"             -> r.quantity > 0 /\ r.from # r.to
    [] r.verb = "declare"              -> r.per_share > 0
    [] r.verb = "pay"                  -> TRUE

\* A client calls a verb.
Begin(k) ==
  /\ pc[k] = "idle"
  /\ \E r \in Requests[k] :
       /\ req' = [req EXCEPT ![k] = r]
       /\ pc' = [pc EXCEPT ![k] = IF Valid(r) THEN First[r.verb] ELSE "refused"]
  /\ UNCHANGED << locks, gl, clock, stamp, outbox >>

\* Mutant: a posting goes out without a scope.
PostUnscoped(k, leg, source, lines) ==
  /\ pc[k] = "post"
  /\ gl' = IF \E j \in gl : j.source = source
              THEN gl
              ELSE gl \cup {[leg |-> leg, source |-> source, lines |-> lines]}
  /\ Advance(k)
  /\ UNCHANGED << req, locks, clock, stamp, outbox >>

\* EquityWriteService::post, under the source identity the verb chose.  It
\* fails closed without a scope; the sink may reject any posting, and books one
\* journal per source: a second posting of a source is a replay of the first.
Post(k, leg, source, lines) ==
  /\ pc[k] = "post"
  /\ \/ /\ req[k].scoped
        /\ IsBalanced(lines)
        /\ gl' = IF \E j \in gl : j.source = source
                   THEN gl
                   ELSE gl \cup {[leg |-> leg, source |-> source, lines |-> lines]}
        /\ Advance(k)
        /\ UNCHANGED locks
     \/ Refuse(k) /\ UNCHANGED gl
  /\ UNCHANGED << req, clock, stamp, outbox >>

\* stage: the outbox record is minted and stamped inside the open transaction,
\* and refused without a scope.
Stage(k) ==
  /\ pc[k] = "stage"
  /\ \/ /\ req[k].scoped
        /\ clock' = clock + 1
        /\ stamp' = [stamp EXCEPT ![k] = clock']
        /\ Advance(k)
        /\ UNCHANGED locks
     \/ ~ req[k].scoped /\ Refuse(k) /\ UNCHANGED << clock, stamp >>
  /\ UNCHANGED << req, gl, outbox >>

\* The transaction of call k commits: its outbox record becomes durable with
\* whatever rows it wrote, and its locks are gone.
CommitOutbox(k, event) ==
  /\ pc[k] = "commit"
  /\ outbox' = Append(outbox, [call |-> k, at |-> stamp[k], event |-> event])
  /\ locks' = Released(k)
  /\ Advance(k)
  /\ UNCHANGED << req, gl, clock, stamp >>

\* The in-process publish, after which the verb returns Ok.
Publish(k) ==
  /\ pc[k] = "publish"
  /\ pc' = [pc EXCEPT ![k] = "ok"]
  /\ UNCHANGED << req, locks, gl, clock, stamp, outbox >>

\* A call stops at an await: the process crashes, the client drops the future
\* or the database fails.  An open transaction rolls back; what it posted to
\* the ledger stays.
Interrupt(k) ==
  /\ pc[k] \in Await
  /\ pc' = [pc EXCEPT ![k] = "interrupted"]
  /\ locks' = Released(k)
  /\ UNCHANGED << req, gl, clock, stamp, outbox >>

HubInit ==
  /\ pc = [k \in Call |-> "idle"]
  /\ req = [k \in Call |-> NoRequest]
  /\ locks = {}
  /\ gl = {}
  /\ clock = 0
  /\ stamp = [k \in Call |-> 0]
  /\ outbox = << >>
=============================================================================
