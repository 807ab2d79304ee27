------------------------ MODULE EquityDividendProofs ------------------------
(***************************************************************************)
(* The whole write service: the dividend verbs beside the movements.       *)
(* They leave the register what it was proved to be; a claimed dividend    *)
(* belongs to the one call that pays it.  What is on the table was booked, *)
(* at most that is remitted, the payable settles, each dividend is told    *)
(* once, and the dividend verbs implement the abstract ledger.             *)
(***************************************************************************)
EXTENDS EquityDividend, EquityRegisterProofs

-----------------------------------------------------------------------------
(* Type correctness, and the register beside the dividend verbs.           *)

\* The awaits only one of the dividend verbs makes.
LEMMA DividendAwaits ==
  ASSUME TypeOK, NEW k \in Call
  PROVE  /\ pc[k] = "outstanding" => req[k] \in DeclareDividend
         /\ pc[k] \in {"fetch", "claim"} => req[k] \in PayDividend
         /\ pc[k] \in Await /\ req[k].verb = "declare" => req[k] \in DeclareDividend
         /\ pc[k] \in Await /\ req[k].verb = "pay" => req[k] \in PayDividend
<1>1. CallsOK
  BY DEF TypeOK, CallsOK
<1>2. SUFFICES ASSUME pc[k] \in Await
               PROVE  /\ pc[k] = "outstanding" => req[k] \in DeclareDividend
                      /\ pc[k] \in {"fetch", "claim"} => req[k] \in PayDividend
                      /\ req[k].verb = "declare" => req[k] \in DeclareDividend
                      /\ req[k].verb = "pay" => req[k] \in PayDividend
  BY DEF Await
<1>3. req[k] \in Request /\ (pc[k] # "publish" => pc[k] \in DOMAIN Awaits[req[k].verb])
  BY <1>1, <1>2, CallUnderWay
<1>4. /\ req[k].verb = "declare" => req[k] \in DeclareDividend
      /\ req[k].verb = "pay" => req[k] \in PayDividend
      /\ req[k].verb \in {"issue", "transfer", "buyback", "declare", "pay"}
  BY <1>3 DEF Request, Movement, IssueShares, TransferShares, BuybackShares,
              DeclareDividend, PayDividend
<1>5. CASE req[k].verb = "issue"
  BY <1>3, <1>4, <1>5 DEF Awaits, IssueAwaits
<1>6. CASE req[k].verb = "transfer"
  BY <1>3, <1>4, <1>6 DEF Awaits, TransferAwaits
<1>7. CASE req[k].verb = "buyback"
  BY <1>3, <1>4, <1>7 DEF Awaits, BuybackAwaits
<1>8. CASE req[k].verb = "declare"
  BY <1>3, <1>4, <1>8 DEF Awaits, DeclareAwaits
<1>9. CASE req[k].verb = "pay"
  BY <1>3, <1>4, <1>9 DEF Awaits, PayAwaits
<1>10. QED BY <1>4, <1>5, <1>6, <1>7, <1>8, <1>9

\* A dividend verb's own steps are not those of a movement and leave the register
\* alone; they advance, under a dividend's lock or none, or refuse.
LEMMA DividendShape ==
  ASSUME TypeOK, NEW k \in Call, DividendStep(k)
  PROVE  /\ pc[k] \in Await \ {"publish"} /\ req[k].verb \in DividendVerb
         /\ req[k] \in DeclareDividend \cup PayDividend
         /\ req' = req
         /\ UNCHANGED << classes, shareholders, register, par, clock, stamp >>
         /\ \/ Advance(k) /\ locks' \in {locks, Released(k)}
            \/ /\ Advance(k) /\ pc[k] = "claim" /\ req[k] \in PayDividend
               /\ Free(<< req[k].dividend >>) /\ Lock(k, << req[k].dividend >>)
            \/ Refuse(k)
<1>1. /\ {"outstanding", "fetch", "claim", "post", "insert", "commit"} \subseteq Await \ {"publish"}
      /\ \A r \in DeclareDividend \cup PayDividend : r.verb \in DividendVerb
      /\ pc[k] \in Await /\ req[k].verb \in DividendVerb =>
           req[k] \in DeclareDividend \cup PayDividend
  BY DividendAwaits DEF Await, DeclareDividend, PayDividend, DividendVerb
<1>2. CASE read_outstanding(k)
  BY <1>1, <1>2, DividendAwaits DEF read_outstanding
<1>3. CASE fetch_for_payment(k)
  BY <1>1, <1>3, DividendAwaits DEF fetch_for_payment
<1>4. CASE claim_payment(k)
  BY <1>1, <1>4, DividendAwaits DEF claim_payment
<1>5. CASE post_dividend(k)
  BY <1>1, <1>5 DEF post_dividend, Post
<1>6. CASE insert_dividend(k)
  BY <1>1, <1>6 DEF insert_dividend, DividendVerb
<1>7. CASE commit_dividend(k)
  BY <1>1, <1>7 DEF commit_dividend, CommitOutbox
<1>8. QED BY <1>2, <1>3, <1>4, <1>5, <1>6, <1>7 DEF DividendStep

\* The journal a dividend verb posts, and the event it stages, are typed.
LEMMA DividendWritesType ==
  ASSUME TypeOK, NEW k \in Call, req[k] \in DeclareDividend \cup PayDividend,
         total[k] \in Int
  PROVE  /\ [leg |-> req[k].verb, source |-> Source(k), lines |-> DividendLines(k)] \in Journal
         /\ DividendEvent(k) \in EquityEvent
<1>1. DividendLines(k) \in Seq(GlPostLine)
  <2>1. "bank" \in Account
    BY DEF Account
  <2>2. DeclareLines(total[k]) \in Seq(GlPostLine) /\ PayLines(total[k]) \in Seq(GlPostLine)
    BY <2>1, DeclareNets, PayNets
  <2>3. QED BY <2>2, Zenon DEF DividendLines
<1>2. Source(k) \in SourceId /\ req[k].verb \in {"declare", "pay"}
  BY DEF Source, SourceId, DeclareDividend, PayDividend
<1>3. DividendEvent(k) \in EquityEvent
  BY DEF DividendEvent, EquityEvent, DividendDeclared, DividendPaid, DeclareDividend,
         PayDividend
<1>4. QED BY <1>1, <1>2, <1>3 DEF Journal

\* The register's types outlive a dividend step.
LEMMA DividendTypeOK ==
  ASSUME ServiceTypeOK, NEW k \in Call, DividendStep(k)
  PROVE  TypeOK'
<1> USE DEF ServiceTypeOK
<1>1. CallsOK
  BY DEF TypeOK, CallsOK
<1>2. CallsOK'
  BY <1>1, DividendShape, CallsStep DEF Refuse, Ended
<1>3. locks' \subseteq [key: LockKey, owner: Call]
  <2>1. locks \subseteq [key: LockKey, owner: Call] /\ Released(k) \subseteq locks
    BY DEF TypeOK, Released
  <2>2. req[k] \in PayDividend =>
          [key |-> << req[k].dividend >>, owner |-> k] \in [key: LockKey, owner: Call]
    BY DEF LockKey, PayDividend
  <2>3. QED BY <2>1, <2>2, DividendShape DEF Refuse, Lock
<1>4. gl' \subseteq Journal
  <2>1. CASE gl' = gl
    BY <2>1 DEF TypeOK
  <2>2. CASE post_dividend(k)
    BY <2>2, DividendShape, DividendWritesType DEF post_dividend, Post, TypeOK
  <2>3. QED
    BY <2>1, <2>2 DEF DividendStep, read_outstanding, fetch_for_payment, claim_payment,
                      insert_dividend, commit_dividend, CommitOutbox
<1>5. outbox' \in Seq(OutboxRecord)
  <2>1. CASE outbox' = outbox
    BY <2>1 DEF TypeOK
  <2>2. CASE commit_dividend(k)
    <3>1. [call |-> k, at |-> stamp[k], event |-> DividendEvent(k)] \in OutboxRecord
      BY DividendShape, DividendWritesType DEF OutboxRecord, TypeOK
    <3>2. QED BY <2>2, <3>1 DEF commit_dividend, CommitOutbox, TypeOK
  <2>3. QED
    BY <2>1, <2>2 DEF DividendStep, read_outstanding, fetch_for_payment, claim_payment,
                      insert_dividend, post_dividend, Post
<1>6. QED BY <1>2, <1>3, <1>4, <1>5, DividendShape DEF TypeOK, CallsOK

\* A payment that has claimed its dividend.
Claimed(k) == req[k] \in PayDividend /\ pc[k] \in {"post", "stage", "commit"}

\* A claimed dividend is locked by its payment, and not paid yet.
ClaimsAreLocked ==
  \A k \in Call : Claimed(k) =>
    /\ [key |-> << req[k].dividend >>, owner |-> k] \in locks
    /\ dividends[req[k].dividend].status = "declared"

\* The dividend verbs keep their own state typed: what a payment flips is a row.
LEMMA DividendTables ==
  ASSUME ServiceTypeOK, ClaimsAreLocked, NEW k \in Call, DividendStep(k)
  PROVE  /\ dividends' \in [Call -> DividendRow \cup {NoDividend}]
         /\ outstanding' \in [Call -> Int]
         /\ total' \in [Call -> Int]
         /\ asOf' \in [Call -> Nat]
<1> USE DEF ServiceTypeOK
<1>1. CASE read_outstanding(k)
  <2>1. req[k] \in DeclareDividend
    BY <1>1, DividendAwaits DEF read_outstanding
  <2>2. req[k].class \in ShareClass /\ req[k].per_share \in Int
    BY <2>1 DEF DeclareDividend
  <2>3. PICK n \in Int : n = shares_outstanding(register, req[k].class)
    BY <2>2, TotalsType DEF TypeOK
  <2>4. PICK m \in Int : m = req[k].per_share * n
    BY <2>2, <2>3
  <2>5. Len(register) \in Nat
    BY DEF TypeOK
  <2>6. QED BY <1>1, <2>3, <2>4, <2>5 DEF read_outstanding
<1>2. CASE fetch_for_payment(k)
  <2>1. req[k].dividend \in Call
    BY <1>2, DividendAwaits DEF fetch_for_payment, PayDividend
  <2>2. dividends[req[k].dividend].status = "declared" =>
          dividends[req[k].dividend].total_amount \in Int
    BY <2>1 DEF DividendRow, NoDividend
  <2>3. QED BY <1>2, <2>2 DEF fetch_for_payment
<1>3. CASE commit_dividend(k)
  <2>1. outstanding' = outstanding /\ total' = total /\ asOf' = asOf
    BY <1>3 DEF commit_dividend
  <2>2. CASE req[k].verb = "declare"
    <3>1. req[k] \in DeclareDividend
      BY <2>2, DividendShape, DividendAwaits
    <3>2. NewDividendRow(k) \in DividendRow
      BY <3>1 DEF NewDividendRow, DividendRow, DeclareDividend
    <3>3. QED BY <1>3, <2>1, <2>2, <3>2 DEF commit_dividend
  <2>3. CASE req[k].verb # "declare"
    <3>1. dividends' = [dividends EXCEPT ![req[k].dividend].status = "paid"]
      BY <1>3, <2>3 DEF commit_dividend
    <3>2. Claimed(k) /\ req[k].dividend \in Call
      BY <1>3, <2>3, DividendShape
         DEF commit_dividend, CommitOutbox, Claimed, DeclareDividend, PayDividend
    <3>3. PICK d \in Call : d = req[k].dividend
      BY <3>2
    <3>4. dividends[d] \in DividendRow
      <4>1. dividends[d].status = "declared"
        BY <3>2, <3>3 DEF ClaimsAreLocked
      <4>2. dividends[d] # NoDividend
        BY <4>1 DEF NoDividend
      <4>3. QED BY <4>2
    <3>5. [dividends[d] EXCEPT !.status = "paid"] \in DividendRow
      BY <3>4 DEF DividendRow
    <3>6. dividends' = [dividends EXCEPT ![d] = [dividends[d] EXCEPT !.status = "paid"]]
      BY <3>1, <3>3
    <3>7. QED BY <2>1, <3>5, <3>6
  <2>4. QED BY <2>2, <2>3
<1>4. CASE claim_payment(k) \/ post_dividend(k) \/ insert_dividend(k)
  BY <1>4 DEF claim_payment, post_dividend, insert_dividend, dividendVars
<1>5. QED BY <1>1, <1>2, <1>3, <1>4 DEF DividendStep

\* A dividend verb leaves the register's invariant alone: it moves no shares, and
\* the only lock it takes is a dividend's.
LEMMA DividendKeepsRegister ==
  ASSUME RegisterInv, TypeOK', NEW k \in Call, DividendStep(k)
  PROVE  RegisterInv'
<1> USE DEF RegisterInv
<1>1. /\ req' = req /\ register' = register /\ pc[k] \in Await
      /\ req[k].verb \in DividendVerb
      /\ \A i \in Call \ {k} : pc'[i] = pc[i]
      /\ \A i \in Call : pc'[i] \in Await => pc[i] \in Await
  <2>1. /\ req' = req /\ register' = register /\ pc[k] \in Await
        /\ req[k].verb \in DividendVerb
        /\ Advance(k) \/ Refuse(k)
    BY DividendShape
  <2>2. \A i \in Call \ {k} : pc'[i] = pc[i]
    BY <2>1 DEF Advance, Refuse, TypeOK
  <2>3. QED BY <2>1, <2>2
<1>2. ValidUnderWay'
  BY <1>1, Zenon DEF ValidUnderWay, Valid
<1>3. ~ Holds(k)' /\ ~ Checked(k)'
  BY <1>1 DEF Holds, Checked, Removal, DividendVerb
<1>4. CheckedBoundHolds' /\ NonNegative'
  BY <1>1, <1>3 DEF CheckedBoundHolds, Checked, NonNegative, holding
<1>5. PositionsAreLocked'
  <2>1. \A l \in locks : l.owner # k => l \in locks'
    BY DividendShape DEF Refuse, Released, Lock
  <2>2. \A i \in Call : Holds(i)' => i # k /\ Holds(i)
    BY <1>1, <1>3 DEF Holds
  <2>3. \A i \in Call : Holds(i)' =>
          [key |-> << req[i].class, req[i].from >>, owner |-> i] \in locks'
    BY <2>1, <2>2 DEF PositionsAreLocked
  <2>4. \A l, m \in locks' : l.key = m.key => l.owner = m.owner
    <3>1. CASE locks' \subseteq locks
      BY <3>1 DEF PositionsAreLocked
    <3>2. ASSUME NEW key, Free(key), Lock(k, key)
          PROVE  \A l, m \in locks' : l.key = m.key => l.owner = m.owner
      BY <3>2 DEF PositionsAreLocked, Free, Lock
    <3>3. Released(k) \subseteq locks
      BY DEF Released
    <3>4. QED BY <3>1, <3>2, <3>3, DividendShape DEF Refuse
  <2>5. QED BY <1>1, <2>3, <2>4 DEF PositionsAreLocked
<1>6. QED BY <1>2, <1>4, <1>5

-----------------------------------------------------------------------------
(* Dividends and the calls that declare and pay them.                      *)

\* The awaits of a declaration that has posted, and of one that has its total.
Declaring(await) == await \in {"insert", "stage", "commit"}
Totalled(await)  == await = "post" \/ Declaring(await)

\* A payment that has fetched its dividend.
Fetched(k) == req[k] \in PayDividend /\ pc[k] \in {"claim", "post", "stage", "commit"}

\* A declaration keeps the total it computed from the shares it read.
TotalsAreKept ==
  \A k \in Call : (req[k] \in DeclareDividend /\ Totalled(pc[k])) =>
    /\ outstanding[k] > 0
    /\ total[k] = req[k].per_share * outstanding[k]
    /\ total[k] > 0

\* A dividend on the table is the one its call declared.
RowsAreDeclared ==
  \A d \in Call : Exists(d) =>
    /\ pc[d] \in {"publish", "ok", "interrupted"}
    /\ req[d] \in DeclareDividend
    /\ dividends[d].total_amount = dividends[d].per_share * dividends[d].shares_outstanding
    /\ dividends[d].total_amount = total[d]
    /\ total[d] > 0

\* A payment pays a dividend on the table, at its total.
PaymentsAgree ==
  \A k \in Call : Fetched(k) =>
    Exists(req[k].dividend) /\ total[k] = dividends[req[k].dividend].total_amount

DividendInv == TotalsAreKept /\ RowsAreDeclared /\ PaymentsAgree /\ ClaimsAreLocked

\* The steps, by what they do to the calls, the locks and the dividends.
Still == pc' = pc /\ req' = req /\ locks' = locks /\ UNCHANGED dividendVars
Opens(k) ==
  /\ pc[k] = "idle" /\ locks' = locks /\ UNCHANGED dividendVars
  /\ \E r \in Request, a \in {"load", "lock", "outstanding", "fetch", "refused"} :
       req' = [req EXCEPT ![k] = r] /\ pc' = [pc EXCEPT ![k] = a]
Walks(k) ==
  /\ Advance(k) /\ pc[k] \in Await \ {"outstanding", "fetch", "claim", "publish"}
  /\ pc[k] = "commit" => req[k].verb \in MovementVerb
  /\ Released(k) \subseteq locks' /\ (pc[k] # "commit" => locks \subseteq locks')
  /\ req' = req /\ UNCHANGED dividendVars
Stops(k) ==
  /\ pc[k] \in Await
  /\ \E e \in Ended : pc' = [pc EXCEPT ![k] = e] /\ (pc[k] = "publish" => e # "refused")
  /\ Released(k) \subseteq locks'
  /\ req' = req /\ UNCHANGED dividendVars
Totals(k) ==
  /\ Advance(k) /\ pc[k] = "outstanding" /\ req' = req /\ locks' = locks
  /\ dividends' = dividends
  /\ \E n \in Int : /\ n > 0
                    /\ n = shares_outstanding(register, req[k].class)
                    /\ outstanding' = [outstanding EXCEPT ![k] = n]
                    /\ total' = [total EXCEPT ![k] = req[k].per_share * n]
  /\ asOf' = [asOf EXCEPT ![k] = Len(register)]
Fetches(k) ==
  /\ Advance(k) /\ pc[k] = "fetch" /\ req' = req /\ locks' = locks
  /\ dividends[req[k].dividend].status = "declared"
  /\ total' = [total EXCEPT ![k] = dividends[req[k].dividend].total_amount]
  /\ dividends' = dividends /\ outstanding' = outstanding /\ asOf' = asOf
Claims(k) ==
  /\ Advance(k) /\ pc[k] = "claim" /\ req' = req /\ Lock(k, << req[k].dividend >>)
  /\ Free(<< req[k].dividend >>) /\ dividends[req[k].dividend].status = "declared"
  /\ UNCHANGED dividendVars
Declares(k) ==
  /\ Advance(k) /\ pc[k] = "commit" /\ req[k].verb = "declare" /\ req' = req
  /\ locks' = Released(k) /\ dividends' = [dividends EXCEPT ![k] = NewDividendRow(k)]
  /\ outstanding' = outstanding /\ total' = total /\ asOf' = asOf
Pays(k) ==
  /\ Advance(k) /\ pc[k] = "commit" /\ req[k].verb = "pay" /\ req' = req
  /\ locks' = Released(k)
  /\ dividends' = [dividends EXCEPT ![req[k].dividend].status = "paid"]
  /\ outstanding' = outstanding /\ total' = total /\ asOf' = asOf

\* Every step is of one of these kinds.
LEMMA ServiceShape ==
  ASSUME ServiceTypeOK, [ServiceNext]_serviceVars
  PROVE  \/ Still
         \/ \E k \in Call : \/ Opens(k) \/ Walks(k) \/ Stops(k) \/ Totals(k) \/ Fetches(k)
                            \/ Claims(k) \/ Declares(k) \/ Pays(k)
<1> USE DEF ServiceTypeOK
<1>1. CASE UNCHANGED serviceVars
  BY <1>1 DEF serviceVars, registerVars, hubVars, Still
<1>2. CASE Masters /\ UNCHANGED dividendVars
  BY <1>2 DEF Masters, register_share_class, update_share_class, register_shareholder,
              hubVars, Still
<1>3. ASSUME NEW k \in Call, begin_call(k), UNCHANGED dividendVars
      PROVE  Opens(k)
  <2>1. Begins(k)
    <3>1. RegisterNext /\ TypeOK
      BY <1>3 DEF RegisterNext
    <3>2. PICK r \in Requests[k] :
            /\ req' = [req EXCEPT ![k] = r]
            /\ pc' = [pc EXCEPT ![k] = IF Valid(r) THEN First[r.verb] ELSE "refused"]
      BY <1>3 DEF begin_call, Begin
    <3>3. r \in Request
      BY <3>2, RequestsAssumption
    <3>4. PICK a : a = IF Valid(r) THEN First[r.verb] ELSE "refused"
      OBVIOUS
    <3>5. a \in {"load", "lock", "outstanding", "fetch", "refused"}
      BY <3>3, <3>4 DEF First, Request, Movement, IssueShares, TransferShares, BuybackShares,
                        DeclareDividend, PayDividend
    <3>6. pc[k] = "idle" /\ Unwritten
      BY <1>3 DEF begin_call, Begin, Unwritten
    <3>7. req' = [req EXCEPT ![k] = r] /\ pc' = [pc EXCEPT ![k] = a]
      BY <3>2, <3>4
    <3>8. QED BY <3>3, <3>5, <3>6, <3>7 DEF Begins
  <2>2. locks' = locks
    BY <1>3 DEF begin_call, Begin
  <2>3. QED BY <1>3, <2>1, <2>2 DEF Begins, Opens
<1>4. ASSUME NEW k \in Call, MovementStep(k) \/ interrupt_call(k), UNCHANGED dividendVars
      PROVE  Walks(k) \/ Stops(k)
  <2>1. /\ req' = req /\ Released(k) \subseteq locks
        /\ GoesOn(k) \/ TakesLock(k) \/ Ends(k) \/ Commits(k)
    BY <1>4, StepShape DEF Released
  <2>2. pc[k] \notin {"outstanding", "fetch", "claim"} \/ interrupt_call(k)
    BY <1>4 DEF MovementStep, load_class, lock_position, check_holding, insert_rows,
                post_movement, Post, stage_event, Stage, commit_movement, CommitOutbox,
                publish_event, Publish
  <2>3. CASE (GoesOn(k) \/ TakesLock(k) \/ Commits(k)) /\ ~ interrupt_call(k)
    BY <1>4, <2>1, <2>2, <2>3 DEF GoesOn, TakesLock, Commits, Walks, Lock, Await
  <2>4. CASE Ends(k) /\ pc[k] # "publish"
    BY <1>4, <2>1, <2>4 DEF Ends, Stops
  <2>5. CASE publish_event(k) \/ interrupt_call(k)
    BY <1>4, <2>1, <2>5 DEF publish_event, Publish, interrupt_call, Interrupt, Stops,
                            Await, Ended
  <2>6. pc[k] = "publish" => publish_event(k) \/ interrupt_call(k)
    BY <1>4 DEF MovementStep, load_class, lock_position, check_holding, insert_rows,
                post_movement, Post, stage_event, Stage, commit_movement, CommitOutbox
  <2>7. QED BY <2>1, <2>3, <2>4, <2>5, <2>6
<1>5. ASSUME NEW k \in Call, DividendStep(k)
      PROVE  \/ Walks(k) \/ Stops(k) \/ Totals(k) \/ Fetches(k)
             \/ Claims(k) \/ Declares(k) \/ Pays(k)
  <2>1. /\ pc[k] \in Await \ {"publish"} /\ req[k] \in DeclareDividend \cup PayDividend
        /\ req' = req /\ Released(k) \subseteq locks
        /\ req[k].verb \in {"declare", "pay"}
    BY <1>5, DividendShape DEF Released, DividendVerb
  <2>2. Refuse(k) /\ UNCHANGED dividendVars => Stops(k)
    BY <2>1 DEF Refuse, Stops, Ended
  <2>3. CASE read_outstanding(k)
    <3>1. req[k].class \in ShareClass
      BY <2>3, DividendAwaits DEF read_outstanding, DeclareDividend
    <3>2. PICK n \in Int : n = shares_outstanding(register, req[k].class)
      BY <3>1, TotalsType DEF TypeOK
    <3>3. /\ pc[k] = "outstanding" /\ dividends' = dividends
          /\ \/ /\ n > 0
                /\ outstanding' = [outstanding EXCEPT ![k] = n]
                /\ total' = [total EXCEPT ![k] = req[k].per_share * n]
                /\ asOf' = [asOf EXCEPT ![k] = Len(register)]
                /\ Advance(k) /\ locks' = locks
             \/ Refuse(k) /\ outstanding' = outstanding /\ total' = total /\ asOf' = asOf
      BY <2>3, <3>2, Zenon DEF read_outstanding
    <3>4. QED BY <2>1, <2>2, <3>2, <3>3 DEF Totals, dividendVars
  <2>4. CASE fetch_for_payment(k)
    BY <2>2, <2>4 DEF fetch_for_payment, Fetches, dividendVars
  <2>5. CASE claim_payment(k)
    BY <2>1, <2>2, <2>5 DEF claim_payment, Claims, dividendVars
  <2>6. CASE post_dividend(k)
    BY <2>1, <2>2, <2>6 DEF post_dividend, Post, Walks
  <2>7. CASE insert_dividend(k)
    BY <2>1, <2>7 DEF insert_dividend, Walks
  <2>8. CASE commit_dividend(k)
    BY <2>1, <2>8 DEF commit_dividend, CommitOutbox, Declares, Pays
  <2>9. QED BY <1>5, <2>3, <2>4, <2>5, <2>6, <2>7, <2>8 DEF DividendStep
<1>6. QED BY <1>1, <1>2, <1>3, <1>4, <1>5 DEF ServiceNext, RegisterNext

\* The awaits of the dividend verbs, each reached from the one before.
LEMMA DividendFollows ==
  ASSUME NEW r \in Request, NEW a \in DOMAIN Awaits[r.verb]
  PROVE  LET b == Awaits[r.verb][a] IN
         /\ r \in DeclareDividend =>
              /\ Totalled(b) <=> a \in {"outstanding", "post", "insert", "stage"}
              /\ Declaring(b) <=> a \in {"post", "insert", "stage"}
              /\ a = "outstanding" => b = "post"
         /\ r \in PayDividend =>
              /\ a # "outstanding"
              /\ b \in {"claim", "post", "stage", "commit"} <=>
                   a \in {"fetch", "claim", "post", "stage"}
              /\ b \in {"post", "stage", "commit"} <=> a \in {"claim", "post", "stage"}
              /\ b \in {"stage", "commit"} <=> a \in {"post", "stage"}
         /\ a = "commit" <=> b = "publish"
         /\ b = "commit" <=> a = "stage"
         /\ b \notin Ended
<1>1. r.verb \in {"issue", "transfer", "buyback", "declare", "pay"}
      /\ (r \in DeclareDividend => r.verb = "declare")
      /\ (r \in PayDividend => r.verb = "pay")
  BY DEF Request, Movement, IssueShares, TransferShares, BuybackShares,
         DeclareDividend, PayDividend
<1>2. CASE r.verb = "issue"
  BY <1>1, <1>2 DEF Awaits, IssueAwaits, Ended
<1>3. CASE r.verb = "transfer"
  BY <1>1, <1>3 DEF Awaits, TransferAwaits, Ended
<1>4. CASE r.verb = "buyback"
  BY <1>1, <1>4 DEF Awaits, BuybackAwaits, Ended
<1>5. CASE r.verb = "declare"
  BY <1>1, <1>5 DEF Awaits, DeclareAwaits, Ended, Totalled, Declaring
<1>6. CASE r.verb = "pay"
  BY <1>1, <1>6 DEF Awaits, PayAwaits, Ended
<1>7. QED BY <1>1, <1>2, <1>3, <1>4, <1>5, <1>6

\* A request is of one kind only.
LEMMA DividendByVerb ==
  ASSUME NEW r \in Request
  PROVE  /\ r.verb = "declare" <=> r \in DeclareDividend
         /\ r.verb = "pay" <=> r \in PayDividend
         /\ r.verb \in MovementVerb => r \notin DeclareDividend /\ r \notin PayDividend
         /\ ~ (r \in DeclareDividend /\ r \in PayDividend)
         /\ r \in PayDividend => r.dividend \in Call
  BY DEF Request, Movement, IssueShares, TransferShares, BuybackShares,
         DeclareDividend, PayDividend, MovementVerb

\* A step that changes no dividend and no total keeps the invariant, if the calls
\* that have declared stay, none gets to an await it has not earned, and no claim
\* loses its lock.
LEMMA UnpaidStep ==
  ASSUME DividendInv, dividends' = dividends, total' = total, outstanding' = outstanding,
         \A i \in Call : req'[i] \in DeclareDividend /\ Totalled(pc'[i]) =>
                           Totalled(pc[i]) /\ req'[i] = req[i],
         \A i \in Call : pc[i] \in {"publish", "ok", "interrupted"} =>
                           pc'[i] \in {"publish", "ok", "interrupted"} /\ req'[i] = req[i],
         \A i \in Call : Fetched(i)' => Fetched(i) /\ req'[i] = req[i],
         \A i \in Call : Claimed(i)' =>
           /\ req'[i] = req[i]
           /\ [key |-> << req[i].dividend >>, owner |-> i] \in locks'
           /\ dividends[req[i].dividend].status = "declared"
  PROVE  DividendInv'
<1> USE DEF DividendInv
<1>1. TotalsAreKept'
  BY DEF TotalsAreKept
<1>2. RowsAreDeclared'
  BY DEF RowsAreDeclared, Exists
<1>3. PaymentsAgree'
  BY DEF PaymentsAgree, Exists
<1>4. ClaimsAreLocked'
  BY DEF ClaimsAreLocked
<1>5. QED BY <1>1, <1>2, <1>3, <1>4

\* Such are the steps that neither read a dividend nor write one.
LEMMA UnpaidSteps ==
  ASSUME TypeOK, DividendInv, NEW k \in Call,
         Opens(k) \/ Walks(k) \/ Stops(k) \/ Claims(k)
  PROVE  DividendInv'
<1>1. \A i \in Call : Claimed(i) =>
        /\ [key |-> << req[i].dividend >>, owner |-> i] \in locks
        /\ dividends[req[i].dividend].status = "declared"
  BY DEF DividendInv, ClaimsAreLocked
<1>2. \A i \in Call \ {k} : Claimed(i) =>
        [key |-> << req[i].dividend >>, owner |-> i] \in Released(k)
  BY <1>1 DEF Released
<1>3. CASE Opens(k)
  <2>1. PICK r \in Request, a \in {"load", "lock", "outstanding", "fetch", "refused"} :
          req' = [req EXCEPT ![k] = r] /\ pc' = [pc EXCEPT ![k] = a]
    BY <1>3 DEF Opens
  <2>2. /\ \A i \in Call \ {k} : pc'[i] = pc[i] /\ req'[i] = req[i]
        /\ pc[k] = "idle" /\ pc'[k] = a /\ locks' = locks
        /\ dividends' = dividends /\ total' = total /\ outstanding' = outstanding
    BY <1>3, <2>1 DEF TypeOK, Opens, dividendVars
  <2>3. ~ Totalled(a)
    BY DEF Totalled, Declaring
  <2>4. ~ Fetched(k)' /\ ~ Claimed(k)'
    BY <2>2 DEF Fetched, Claimed
  <2>5. \A i \in Call \ {k} : (Fetched(i)' <=> Fetched(i)) /\ (Claimed(i)' <=> Claimed(i))
    BY <2>2 DEF Fetched, Claimed
  <2>6. QED BY <1>1, <2>2, <2>3, <2>4, <2>5, UnpaidStep
<1>4. CASE Walks(k)
  <2>1. /\ req[k] \in Request /\ pc[k] \in DOMAIN Awaits[req[k].verb]
        /\ pc'[k] = Awaits[req[k].verb][pc[k]]
        /\ \A i \in Call \ {k} : pc'[i] = pc[i]
    BY <1>4, AdvanceShape DEF Walks
  <2>2. /\ req' = req /\ pc[k] \notin {"outstanding", "fetch", "claim", "publish"}
        /\ (pc[k] = "commit" => req[k].verb \in MovementVerb) /\ Released(k) \subseteq locks'
        /\ (pc[k] # "commit" => locks \subseteq locks')
        /\ pc[k] \in Await
        /\ dividends' = dividends /\ total' = total /\ outstanding' = outstanding
    BY <1>4 DEF Walks, dividendVars
  <2>3. /\ req[k] \in DeclareDividend /\ Totalled(pc'[k]) => Totalled(pc[k])
        /\ pc[k] \notin {"ok", "interrupted"}
    BY <2>1, <2>2, DividendFollows DEF Totalled, Declaring, Await
  <2>4. Fetched(k)' => Fetched(k)
    BY <2>1, <2>2, DividendFollows DEF Fetched
  <2>5. Claimed(k)' => Claimed(k) /\ pc[k] # "commit"
    BY <2>1, <2>2, DividendFollows DEF Claimed
  <2>6. \A i \in Call \ {k} : (Fetched(i)' <=> Fetched(i)) /\ (Claimed(i)' <=> Claimed(i))
    BY <2>1, <2>2 DEF Fetched, Claimed
  <2>7. \A i \in Call : Claimed(i)' => Claimed(i) /\
          [key |-> << req[i].dividend >>, owner |-> i] \in locks'
    BY <1>1, <1>2, <2>2, <2>5, <2>6
  <2>8. QED BY <1>1, <2>1, <2>2, <2>3, <2>4, <2>6, <2>7, UnpaidStep
<1>5. CASE Stops(k)
  <2>1. /\ \A i \in Call \ {k} : pc'[i] = pc[i]
        /\ pc'[k] \in Ended /\ req' = req /\ pc[k] \in Await
        /\ (pc[k] = "publish" => pc'[k] \in {"ok", "interrupted"})
        /\ Released(k) \subseteq locks'
        /\ dividends' = dividends /\ total' = total /\ outstanding' = outstanding
    BY <1>5 DEF TypeOK, Stops, dividendVars, Ended
  <2>2. ~ Totalled(pc'[k]) /\ pc[k] \notin {"ok", "interrupted"}
    BY <2>1 DEF Totalled, Declaring, Ended, Await
  <2>3. ~ Fetched(k)' /\ ~ Claimed(k)'
    BY <2>1 DEF Fetched, Claimed, Ended
  <2>4. \A i \in Call \ {k} : (Fetched(i)' <=> Fetched(i)) /\ (Claimed(i)' <=> Claimed(i))
    BY <2>1 DEF Fetched, Claimed
  <2>5. \A i \in Call : Claimed(i)' => Claimed(i) /\
          [key |-> << req[i].dividend >>, owner |-> i] \in locks'
    BY <1>2, <2>1, <2>3, <2>4
  <2>6. QED BY <1>1, <2>1, <2>2, <2>3, <2>4, <2>5, UnpaidStep
<1>6. CASE Claims(k)
  <2>1. /\ req[k] \in PayDividend /\ pc[k] = "claim"
        /\ \A i \in Call \ {k} : pc'[i] = pc[i]
    BY <1>6, AdvanceShape, DividendAwaits DEF Claims, Await
  <2>2. /\ req' = req /\ locks' = locks \cup {[key |-> << req[k].dividend >>, owner |-> k]}
        /\ dividends[req[k].dividend].status = "declared"
        /\ dividends' = dividends /\ total' = total /\ outstanding' = outstanding
    BY <1>6 DEF Claims, Lock, dividendVars
  <2>3. req[k] \notin DeclareDividend
    BY <2>1 DEF PayDividend, DeclareDividend
  <2>4. Fetched(k)
    BY <2>1 DEF Fetched
  <2>5. \A i \in Call \ {k} : (Fetched(i)' <=> Fetched(i)) /\ (Claimed(i)' <=> Claimed(i))
    BY <2>1, <2>2 DEF Fetched, Claimed
  <2>6. \A i \in Call : Claimed(i)' =>
          /\ [key |-> << req[i].dividend >>, owner |-> i] \in locks'
          /\ dividends[req[i].dividend].status = "declared"
    BY <1>1, <2>2, <2>5
  <2>7. QED BY <2>1, <2>2, <2>3, <2>4, <2>5, <2>6, UnpaidStep
<1>7. QED BY <1>3, <1>4, <1>5, <1>6

\* A declaration that reads the shares outstanding keeps what it computes.
LEMMA TotalsKeep ==
  ASSUME ServiceTypeOK, ValidUnderWay, DividendInv, NEW k \in Call, Totals(k)
  PROVE  DividendInv'
<1> USE DEF DividendInv
<1>1. req[k] \in DeclareDividend /\ req[k].per_share \in Int /\ req[k].per_share > 0
  <2>1. req[k] \in DeclareDividend /\ Valid(req[k])
    BY DividendAwaits DEF Totals, ServiceTypeOK, ValidUnderWay, Await
  <2>2. req[k].verb = "declare" => (Valid(req[k]) <=> req[k].per_share > 0)
    BY Zenon DEF Valid
  <2>3. QED BY <2>1, <2>2 DEF DeclareDividend
<1>2. /\ pc[k] = "outstanding" /\ pc'[k] = "post" /\ req' = req /\ locks' = locks
      /\ \A i \in Call \ {k} : pc'[i] = pc[i]
  <2>1. /\ req[k] \in Request /\ pc[k] \in DOMAIN Awaits[req[k].verb]
        /\ pc'[k] = Awaits[req[k].verb][pc[k]]
        /\ \A i \in Call \ {k} : pc'[i] = pc[i]
    BY AdvanceShape DEF Totals, ServiceTypeOK, Await
  <2>2. QED BY <1>1, <2>1, DividendFollows DEF Totals
<1>3. PICK n \in Int : /\ n > 0
                       /\ outstanding' = [outstanding EXCEPT ![k] = n]
                       /\ total' = [total EXCEPT ![k] = req[k].per_share * n]
  BY DEF Totals
<1>4. /\ outstanding'[k] = n /\ total'[k] = req[k].per_share * n
      /\ \A i \in Call \ {k} : outstanding'[i] = outstanding[i] /\ total'[i] = total[i]
      /\ dividends' = dividends
  BY <1>3 DEF ServiceTypeOK, Totals
<1>5. total'[k] > 0
  <2>1. PICK a \in Int : a = req[k].per_share /\ a > 0
    BY <1>1
  <2>2. a * n > 0
    BY <1>3, <2>1
  <2>3. QED BY <1>4, <2>1, <2>2
<1>6. TotalsAreKept'
  BY <1>2, <1>3, <1>4, <1>5 DEF TotalsAreKept
<1>7. RowsAreDeclared'
  BY <1>2, <1>4 DEF RowsAreDeclared, Exists
<1>8. ~ Fetched(k)' /\ ~ Claimed(k)'
  BY <1>1, <1>2 DEF Fetched, Claimed, DeclareDividend, PayDividend
<1>9. \A i \in Call \ {k} : (Fetched(i)' <=> Fetched(i)) /\ (Claimed(i)' <=> Claimed(i))
  BY <1>2 DEF Fetched, Claimed
<1>10. PaymentsAgree'
  BY <1>2, <1>4, <1>8, <1>9 DEF PaymentsAgree, Exists
<1>11. ClaimsAreLocked'
  BY <1>2, <1>4, <1>8, <1>9 DEF ClaimsAreLocked
<1>12. QED BY <1>6, <1>7, <1>10, <1>11

\* A payment takes the total from the dividend it reads.
LEMMA FetchesKeep ==
  ASSUME ServiceTypeOK, DividendInv, NEW k \in Call, Fetches(k)
  PROVE  DividendInv'
<1> USE DEF DividendInv
<1>1. req[k] \in PayDividend /\ req[k] \notin DeclareDividend
  BY DividendAwaits DEF Fetches, ServiceTypeOK, PayDividend, DeclareDividend
<1>2. /\ pc[k] = "fetch" /\ pc'[k] = "claim" /\ req' = req /\ locks' = locks
      /\ \A i \in Call \ {k} : pc'[i] = pc[i]
  <2>1. /\ pc'[k] = Awaits["pay"]["fetch"]
        /\ \A i \in Call \ {k} : pc'[i] = pc[i]
    BY <1>1, AdvanceShape DEF Fetches, ServiceTypeOK, Await, PayDividend
  <2>2. QED BY <2>1 DEF Fetches, Awaits, PayAwaits
<1>3. /\ total'[k] = dividends[req[k].dividend].total_amount
      /\ dividends[req[k].dividend].status = "declared"
      /\ \A i \in Call \ {k} : total'[i] = total[i]
      /\ dividends' = dividends /\ outstanding' = outstanding
  BY DEF ServiceTypeOK, Fetches
<1>4. TotalsAreKept'
  BY <1>1, <1>2, <1>3 DEF TotalsAreKept
<1>5. RowsAreDeclared'
  BY <1>1, <1>2, <1>3 DEF RowsAreDeclared, Exists
<1>6. ~ Claimed(k)'
  BY <1>2 DEF Claimed
<1>7. \A i \in Call \ {k} : (Fetched(i)' <=> Fetched(i)) /\ (Claimed(i)' <=> Claimed(i))
  BY <1>2 DEF Fetched, Claimed
<1>8. PaymentsAgree'
  BY <1>2, <1>3, <1>7 DEF PaymentsAgree, Exists
<1>9. ClaimsAreLocked'
  BY <1>2, <1>3, <1>6, <1>7 DEF ClaimsAreLocked
<1>10. QED BY <1>4, <1>5, <1>8, <1>9

\* A declaration commits the first row of its id.
LEMMA DeclaresKeep ==
  ASSUME ServiceTypeOK, DividendInv, NEW k \in Call, Declares(k)
  PROVE  /\ DividendInv'
         /\ ~ Exists(k)
         /\ \A d \in Call \ {k} : dividends'[d] = dividends[d]
         /\ dividends'[k] = NewDividendRow(k)
<1> USE DEF DividendInv
<1>1. req[k] \in DeclareDividend /\ req[k] \notin PayDividend
  BY DividendAwaits DEF Declares, ServiceTypeOK, PayDividend, DeclareDividend, Await
<1>2. /\ pc[k] = "commit" /\ pc'[k] = "publish" /\ req' = req /\ locks' = Released(k)
      /\ \A i \in Call \ {k} : pc'[i] = pc[i]
      /\ total' = total /\ outstanding' = outstanding
  <2>1. /\ req[k] \in Request /\ pc[k] \in DOMAIN Awaits[req[k].verb]
        /\ pc'[k] = Awaits[req[k].verb][pc[k]]
        /\ \A i \in Call \ {k} : pc'[i] = pc[i]
    BY AdvanceShape DEF Declares, ServiceTypeOK, Await
  <2>2. QED BY <2>1, DividendFollows DEF Declares
<1>3. ~ Exists(k)
  BY <1>2 DEF RowsAreDeclared
<1>4. /\ dividends'[k] = NewDividendRow(k)
      /\ \A d \in Call \ {k} : dividends'[d] = dividends[d]
  BY DEF Declares, ServiceTypeOK
<1>5. /\ total[k] = req[k].per_share * outstanding[k] /\ total[k] > 0
  BY <1>1, <1>2 DEF TotalsAreKept, Totalled, Declaring
<1>6. TotalsAreKept'
  BY <1>2 DEF TotalsAreKept, Totalled, Declaring
<1>7. RowsAreDeclared'
  BY <1>1, <1>2, <1>4, <1>5 DEF RowsAreDeclared, Exists, NewDividendRow
<1>8. ~ Fetched(k)' /\ ~ Claimed(k)'
  BY <1>2 DEF Fetched, Claimed
<1>9. \A i \in Call \ {k} : (Fetched(i)' <=> Fetched(i)) /\ (Claimed(i)' <=> Claimed(i))
  BY <1>2 DEF Fetched, Claimed
<1>10. \A i \in Call : Claimed(i) => Fetched(i)
  BY DEF Fetched, Claimed
<1>11. \A i \in Call : Fetched(i) => req[i].dividend \in Call \ {k}
  <2>1. \A i \in Call : Fetched(i) => req[i].dividend \in Call
    BY DEF Fetched, PayDividend
  <2>2. ASSUME NEW i \in Call, Fetched(i) PROVE req[i].dividend # k
    <3>1. dividends[req[i].dividend].status # "absent"
      BY <2>2 DEF PaymentsAgree, Exists
    <3>2. QED BY <1>3, <3>1 DEF Exists
  <2>3. QED BY <2>1, <2>2
<1>12. PaymentsAgree'
  BY <1>2, <1>4, <1>8, <1>9, <1>11 DEF PaymentsAgree, Exists
<1>13. ClaimsAreLocked'
  <2>1. ASSUME NEW i \in Call, Claimed(i)'
        PROVE  /\ [key |-> << req[i].dividend >>, owner |-> i] \in Released(k)
               /\ dividends'[req[i].dividend].status = "declared"
    <3>1. i # k /\ Claimed(i) /\ Fetched(i)
      BY <1>8, <1>9, <1>10, <2>1
    <3>2. /\ [key |-> << req[i].dividend >>, owner |-> i] \in locks
          /\ dividends[req[i].dividend].status = "declared"
      BY <3>1 DEF ClaimsAreLocked
    <3>3. QED BY <1>4, <1>11, <3>1, <3>2 DEF Released
  <2>2. QED BY <1>2, <2>1 DEF ClaimsAreLocked
<1>14. QED BY <1>3, <1>4, <1>6, <1>7, <1>12, <1>13

\* A payment flips the status of a dividend nobody else has claimed.
LEMMA PaysKeep ==
  ASSUME ServiceTypeOK, PositionsAreLocked, DividendInv, NEW k \in Call, Pays(k)
  PROVE  LET d == req[k].dividend IN
         /\ DividendInv'
         /\ Claimed(k) /\ d \in Call
         /\ dividends[d].status = "declared" /\ dividends'[d].status = "paid"
         /\ dividends'[d].total_amount = dividends[d].total_amount
         /\ \A e \in Call \ {d} : dividends'[e] = dividends[e]
<1> DEFINE d == req[k].dividend
<1> USE DEF DividendInv
<1>1. req[k] \in PayDividend /\ d \in Call
  BY DividendAwaits DEF Pays, ServiceTypeOK, PayDividend, Await
<1>2. /\ pc[k] = "commit" /\ pc'[k] = "publish" /\ req' = req /\ locks' = Released(k)
      /\ \A i \in Call \ {k} : pc'[i] = pc[i]
      /\ total' = total /\ outstanding' = outstanding
  <2>1. /\ req[k] \in Request /\ pc[k] \in DOMAIN Awaits[req[k].verb]
        /\ pc'[k] = Awaits[req[k].verb][pc[k]]
        /\ \A i \in Call \ {k} : pc'[i] = pc[i]
    BY AdvanceShape DEF Pays, ServiceTypeOK, Await
  <2>2. QED BY <2>1, DividendFollows DEF Pays
<1>3. Claimed(k) /\ dividends[d].status = "declared"
  BY <1>1, <1>2 DEF Claimed, ClaimsAreLocked
<1>4. dividends[d] \in DividendRow
  <2>1. dividends[d] # NoDividend
    BY <1>3 DEF NoDividend
  <2>2. QED BY <1>1, <2>1 DEF ServiceTypeOK
<1>5. /\ dividends'[d] = [dividends[d] EXCEPT !.status = "paid"]
      /\ \A e \in Call \ {d} : dividends'[e] = dividends[e]
  BY <1>1 DEF Pays, ServiceTypeOK
<1>6. /\ dividends'[d].status = "paid"
      /\ dividends'[d].total_amount = dividends[d].total_amount
      /\ dividends'[d].per_share = dividends[d].per_share
      /\ dividends'[d].shares_outstanding = dividends[d].shares_outstanding
  BY <1>4, <1>5 DEF DividendRow
<1>7. \A i \in Call \ {k} : Claimed(i) => req[i].dividend \in Call \ {d}
  <2>1. SUFFICES ASSUME NEW i \in Call, Claimed(i), req[i].dividend = d PROVE i = k
    BY DEF Claimed, PayDividend
  <2>2. /\ [key |-> << d >>, owner |-> i] \in locks
        /\ [key |-> << d >>, owner |-> k] \in locks
    BY <1>3, <2>1 DEF ClaimsAreLocked
  <2>3. QED BY <2>2 DEF PositionsAreLocked
<1>8. \A e \in Call : Exists(e)' => Exists(e)
  BY <1>3, <1>5 DEF Exists
<1>9. TotalsAreKept'
  BY <1>2 DEF TotalsAreKept, Totalled, Declaring
<1>10. RowsAreDeclared'
  <2>1. ASSUME NEW e \in Call, Exists(e)'
        PROVE  /\ pc'[e] \in {"publish", "ok", "interrupted"}
               /\ req[e] \in DeclareDividend
               /\ dividends'[e].total_amount =
                    dividends'[e].per_share * dividends'[e].shares_outstanding
               /\ dividends'[e].total_amount = total[e]
               /\ total[e] > 0
    <3>1. /\ pc[e] \in {"publish", "ok", "interrupted"}
          /\ req[e] \in DeclareDividend
          /\ dividends[e].total_amount =
               dividends[e].per_share * dividends[e].shares_outstanding
          /\ dividends[e].total_amount = total[e]
          /\ total[e] > 0
      BY <1>8, <2>1 DEF RowsAreDeclared
    <3>2. /\ dividends'[e].total_amount = dividends[e].total_amount
          /\ dividends'[e].per_share = dividends[e].per_share
          /\ dividends'[e].shares_outstanding = dividends[e].shares_outstanding
      BY <1>5, <1>6
    <3>3. QED BY <1>2, <3>1, <3>2
  <2>2. QED BY <1>2, <2>1 DEF RowsAreDeclared
<1>11. ~ Fetched(k)' /\ ~ Claimed(k)'
  BY <1>2 DEF Fetched, Claimed
<1>12. \A i \in Call \ {k} : (Fetched(i)' <=> Fetched(i)) /\ (Claimed(i)' <=> Claimed(i))
  BY <1>2 DEF Fetched, Claimed
<1>13. PaymentsAgree'
  <2>1. \A e \in Call : /\ Exists(e) => Exists(e)'
                        /\ dividends'[e].total_amount = dividends[e].total_amount
    BY <1>5, <1>6 DEF Exists
  <2>2. \A i \in Call : Fetched(i) => req[i].dividend \in Call
    BY DEF Fetched, PayDividend
  <2>3. QED BY <1>2, <1>11, <1>12, <2>1, <2>2 DEF PaymentsAgree, Exists
<1>14. ClaimsAreLocked'
  <2>1. ASSUME NEW i \in Call, Claimed(i)'
        PROVE  /\ [key |-> << req[i].dividend >>, owner |-> i] \in Released(k)
               /\ dividends'[req[i].dividend].status = "declared"
    <3>1. i # k /\ Claimed(i)
      BY <1>11, <1>12, <2>1
    <3>2. /\ [key |-> << req[i].dividend >>, owner |-> i] \in locks
          /\ dividends[req[i].dividend].status = "declared"
      BY <3>1 DEF ClaimsAreLocked
    <3>3. QED BY <1>5, <1>7, <3>1, <3>2 DEF Released
  <2>2. QED BY <1>2, <2>1 DEF ClaimsAreLocked
<1>15. QED BY <1>1, <1>3, <1>5, <1>6, <1>9, <1>10, <1>13, <1>14

-----------------------------------------------------------------------------
(* The service's invariant.                                                *)

ServiceInv == ServiceTypeOK /\ RegisterInv /\ TotalsAgree /\ DividendInv

\* A step of the service is a step of the register or of a dividend verb.
LEMMA ServiceStepKinds ==
  ASSUME [ServiceNext]_serviceVars
  PROVE  \/ [RegisterNext]_registerVars /\ UNCHANGED dividendVars
         \/ \E k \in Call : DividendStep(k)
BY DEF ServiceNext, serviceVars

\* The invariant holds of an empty database.
LEMMA ServiceInvInit ==
  ASSUME ServiceInit
  PROVE  ServiceInv
<1>1. RegisterInv /\ TotalsAgree
  BY RegisterInvInit, TotalsAgreeInit DEF ServiceInit, RegisterInit
<1>2. ServiceTypeOK
  BY <1>1 DEF ServiceInit, ServiceTypeOK, RegisterInv
<1>3. DividendInv
  <2>1. \A k \in Call : ~ Exists(k) /\ ~ Fetched(k) /\ ~ Claimed(k) /\ ~ Totalled(pc[k])
    BY DEF ServiceInit, RegisterInit, HubInit, Exists, NoDividend, Fetched, Claimed,
           Totalled, Declaring
  <2>2. QED
    BY <2>1 DEF DividendInv, TotalsAreKept, RowsAreDeclared, PaymentsAgree, ClaimsAreLocked
<1>4. QED BY <1>1, <1>2, <1>3 DEF ServiceInv

\* Every step of the service keeps it.
LEMMA ServiceInvStep ==
  ASSUME ServiceInv, [ServiceNext]_serviceVars
  PROVE  ServiceInv'
<1> USE DEF ServiceInv
<1>1. RegisterInv' /\ TotalsAgree' /\ ServiceTypeOK'
  <2>1. CASE [RegisterNext]_registerVars /\ UNCHANGED dividendVars
    <3>1. RegisterInv' /\ TotalsAgree'
      BY <2>1, RegisterInvStep, TotalsAgreeStep
    <3>2. /\ dividends' = dividends /\ outstanding' = outstanding
          /\ total' = total /\ asOf' = asOf
      BY <2>1 DEF dividendVars
    <3>3. QED BY <3>1, <3>2 DEF ServiceTypeOK, RegisterInv
  <2>2. ASSUME NEW k \in Call, DividendStep(k)
        PROVE  RegisterInv' /\ TotalsAgree' /\ ServiceTypeOK'
    <3>1. TypeOK'
      BY <2>2, DividendTypeOK
    <3>2. RegisterInv'
      BY <2>2, <3>1, DividendKeepsRegister
    <3>3. register' = register
      BY <2>2, DividendShape DEF RegisterInv
    <3>4. TotalsAgree'
      BY <3>3, Zenon DEF TotalsAgree, HeldTotal, shares_outstanding, holding
    <3>5. ServiceTypeOK'
      BY <2>2, <3>1, DividendTables DEF ServiceTypeOK, DividendInv
    <3>6. QED BY <3>2, <3>4, <3>5
  <2>3. QED BY <2>1, <2>2, ServiceStepKinds
<1>2. DividendInv'
  <2>1. CASE Still
    BY <2>1 DEF Still, dividendVars, DividendInv, TotalsAreKept, RowsAreDeclared, Exists,
                PaymentsAgree, Fetched, ClaimsAreLocked, Claimed
  <2>2. TypeOK /\ ValidUnderWay /\ PositionsAreLocked
    BY DEF RegisterInv
  <2>3. QED
    BY <2>1, <2>2, ServiceShape, UnpaidSteps, TotalsKeep, FetchesKeep, DeclaresKeep, PaysKeep
<1>3. QED BY <1>1, <1>2

\* The invariant holds in every state of the service.
LEMMA ServiceInvariant == ServiceSpec => []ServiceInv
BY ServiceInvInit, ServiceInvStep, PTL DEF ServiceSpec

-----------------------------------------------------------------------------
(* The register, beside the dividend verbs.                                *)

\* Every state of the write service is typed; in particular a payment only ever
\* flips the status of a row that is there.
THEOREM ServiceTypeCorrect == ServiceSpec => []ServiceTypeOK
<1>1. ServiceInv => ServiceTypeOK
  BY DEF ServiceInv
<1>2. QED BY <1>1, ServiceInvariant, PTL

\* A payment past its claim owns the dividend: nobody else pays it, and it is
\* declared and unpaid until the payment commits.
THEOREM OnePaymentADividend == ServiceSpec => []ClaimIsExclusive
<1>1. ServiceInv => ClaimIsExclusive
  <2> SUFFICES ASSUME ServiceInv PROVE ClaimIsExclusive
    OBVIOUS
  <2> DEFINE Paying(c) == /\ req[c] # NoRequest /\ req[c].verb = "pay"
                          /\ pc[c] \in {"post", "stage", "commit"}
  <2>1. \A k \in Call : Paying(k) => Claimed(k)
    <3>1. \A k \in Call : Paying(k) => pc[k] \in Await /\ req[k].verb = "pay"
                                     /\ pc[k] \in {"post", "stage", "commit"}
      BY DEF Await
    <3>2. QED BY <3>1, DividendAwaits DEF Claimed, ServiceInv, ServiceTypeOK
  <2>2. \A k \in Call : Claimed(k) =>
          /\ [key |-> << req[k].dividend >>, owner |-> k] \in locks
          /\ dividends[req[k].dividend].status = "declared"
    BY DEF ServiceInv, DividendInv, ClaimsAreLocked
  <2>3. \A k, i \in Call : Claimed(k) /\ Claimed(i) /\ k # i =>
          req[k].dividend # req[i].dividend
    BY <2>2 DEF ServiceInv, RegisterInv, PositionsAreLocked
  <2>4. QED BY <2>1, <2>2, <2>3, Zenon DEF ClaimIsExclusive
<1>2. QED BY <1>1, ServiceInvariant, PTL

\* Beside the dividend verbs, too, no holder goes negative, a removal stays
\* covered, and what the holders of a class hold is what is outstanding.
THEOREM ServiceKeepsTheRegister ==
  ServiceSpec => [](NonNegative /\ CheckedBoundHolds /\ OutstandingIsHeld)
<1>1. ServiceInv => NonNegative /\ CheckedBoundHolds /\ OutstandingIsHeld
  BY HeldIsSetSum DEF ServiceInv, RegisterInv, TypeOK, TotalsAgree, OutstandingIsHeld
<1>2. QED BY <1>1, ServiceInvariant, PTL

\* The whole write service implements the cap table.
THEOREM ServiceImplementsCapTable == ServiceSpec => ImplementsCapTable
<1>1. ServiceInit => Abstract!CapTableInit
  BY PositionsInit DEF ServiceInit
<1>2. ServiceInv /\ [ServiceNext]_serviceVars => [Abstract!CapTableNext]_Positions
  <2> SUFFICES ASSUME ServiceInv, [ServiceNext]_serviceVars
               PROVE  [Abstract!CapTableNext]_Positions
    OBVIOUS
  <2>1. CASE [RegisterNext]_registerVars
    BY <2>1, PositionsStep DEF ServiceInv
  <2>2. ASSUME NEW k \in Call, DividendStep(k)
        PROVE  Positions' = Positions
    <3>1. register' = register
      BY <2>2, DividendShape DEF ServiceInv, ServiceTypeOK
    <3>2. QED BY <3>1, Zenon DEF Positions, holding
  <2>3. QED BY <2>1, <2>2, ServiceStepKinds
<1>3. QED
  BY <1>1, <1>2, ServiceInvariant, PTL
     DEF ServiceSpec, ImplementsCapTable, Abstract!CapTableSpec

-----------------------------------------------------------------------------
(* What a declaration read of the register.                                *)

\* A prefix of a sequence is a sequence, and does not change when it grows.
LEMMA PrefixStays ==
  ASSUME NEW S, NEW s \in Seq(S), NEW t \in Seq(S), NEW n \in 0 .. Len(s)
  PROVE  /\ SubSeq(s, 1, n) \in Seq(S)
         /\ n \in 0 .. Len(s \o t)
         /\ SubSeq(s \o t, 1, n) = SubSeq(s, 1, n)
<1>1. n \in Nat /\ n <= Len(s) /\ Len(s) \in Nat /\ Len(s \o t) = Len(s) + Len(t)
      /\ Len(t) \in Nat
  OBVIOUS
<1>2. SubSeq(s, 1, n) \in Seq(S) /\ SubSeq(s \o t, 1, n) \in Seq(S)
      /\ Len(SubSeq(s, 1, n)) = n /\ Len(SubSeq(s \o t, 1, n)) = n
  BY <1>1
<1>3. \A i \in 1 .. n : SubSeq(s \o t, 1, n)[i] = SubSeq(s, 1, n)[i]
  BY <1>1
<1>4. QED BY <1>1, <1>2, <1>3

\* A step of the service adds rows to the register at its end, and leaves the
\* terms of the dividends on the table.
LEMMA ServiceGrows ==
  ASSUME ServiceInv, [ServiceNext]_serviceVars
  PROVE  /\ \E rows \in Seq(Row) : register' = register \o rows
         /\ \A d \in Call : Exists(d) =>
              /\ Exists(d)'
              /\ dividends'[d].class = dividends[d].class
              /\ dividends'[d].per_share = dividends[d].per_share
              /\ dividends'[d].shares_outstanding = dividends[d].shares_outstanding
              /\ dividends'[d].total_amount = dividends[d].total_amount
<1> USE DEF ServiceInv, ServiceTypeOK, RegisterInv
<1>1. \E rows \in Seq(Row) : register' = register \o rows
  <2>1. CASE register' = register
    <3>1. << >> \in Seq(Row) /\ register = register \o << >>
      BY DEF TypeOK
    <3>2. QED BY <2>1, <3>1
  <2>2. ASSUME NEW k \in Call, Commits(k), req[k] \in Movement
        PROVE  \E rows \in Seq(Row) : register' = register \o rows
    <3>1. register \in Seq(Row)
      BY DEF TypeOK
    <3>2. Rows(k) \in Seq(Row) /\ register' = register \o Rows(k)
      BY <2>2, <3>1, RowsMove DEF Commits
    <3>3. QED BY <3>2
  <2>3. ASSUME NEW k \in Call, DividendStep(k)
        PROVE  register' = register
    BY <2>3, DividendShape
  <2>4. QED BY <2>1, <2>2, <2>3, ServiceStepKinds, RegisterStep
<1>2. ASSUME NEW d \in Call, Exists(d)
      PROVE  /\ Exists(d)'
             /\ dividends'[d].class = dividends[d].class
             /\ dividends'[d].per_share = dividends[d].per_share
             /\ dividends'[d].shares_outstanding = dividends[d].shares_outstanding
             /\ dividends'[d].total_amount = dividends[d].total_amount
  <2>1. CASE dividends'[d] = dividends[d]
    BY <1>2, <2>1 DEF Exists
  <2>2. ASSUME NEW k \in Call, Declares(k)
        PROVE  dividends'[d] = dividends[d]
    BY <1>2, <2>2, DeclaresKeep
  <2>3. ASSUME NEW k \in Call, Pays(k), dividends'[d] # dividends[d]
        PROVE  d = req[k].dividend
    BY <2>3 DEF Pays
  <2>4. ASSUME NEW k \in Call, Pays(k), dividends'[d] # dividends[d]
        PROVE  /\ Exists(d)'
               /\ dividends'[d].class = dividends[d].class
               /\ dividends'[d].per_share = dividends[d].per_share
               /\ dividends'[d].shares_outstanding = dividends[d].shares_outstanding
               /\ dividends'[d].total_amount = dividends[d].total_amount
    <3>1. dividends'[d] = [dividends[d] EXCEPT !.status = "paid"]
      BY <2>3, <2>4 DEF Pays
    <3>2. dividends[d] \in DividendRow
      BY <1>2 DEF Exists, NoDividend
    <3>3. QED BY <3>1, <3>2 DEF Exists, DividendRow
  <2>5. ASSUME NEW k \in Call, Opens(k) \/ Walks(k) \/ Stops(k) \/ Totals(k) \/ Fetches(k)
                                 \/ Claims(k)
        PROVE  dividends' = dividends
    BY <2>5 DEF Opens, Walks, Stops, Totals, Fetches, Claims, dividendVars
  <2>6. Still => dividends' = dividends
    BY DEF Still, dividendVars
  <2>7. QED BY <2>1, <2>2, <2>4, <2>5, <2>6, ServiceShape
<1>3. QED BY <1>1, <1>2

\* A declaration keeps what it read until it commits, but for the step in which
\* it reads the shares outstanding.
LEMMA DeclarationsMoveOn ==
  ASSUME ServiceInv, [ServiceNext]_serviceVars, NEW i \in Call
  PROVE  \/ Totals(i)
         \/ /\ asOf'[i] = asOf[i]
            /\ req'[i] \in DeclareDividend /\ Totalled(pc'[i]) =>
                 Totalled(pc[i]) /\ req'[i] = req[i] /\ outstanding'[i] = outstanding[i]
<1> USE DEF ServiceInv, ServiceTypeOK, RegisterInv
<1>1. CASE Still
  BY <1>1 DEF Still, dividendVars
<1>2. ASSUME NEW k \in Call \ {i},
             \/ Opens(k) \/ Walks(k) \/ Stops(k) \/ Totals(k) \/ Fetches(k)
             \/ Claims(k) \/ Declares(k) \/ Pays(k)
      PROVE  /\ asOf'[i] = asOf[i] /\ outstanding'[i] = outstanding[i]
             /\ req'[i] = req[i] /\ pc'[i] = pc[i]
  <2>1. asOf'[i] = asOf[i] /\ outstanding'[i] = outstanding[i]
    BY <1>2 DEF Opens, Walks, Stops, Totals, Fetches, Claims, Declares, Pays, dividendVars
  <2>2. req'[i] = req[i]
    <3>1. CASE Opens(k)
      BY <1>2, <3>1 DEF Opens
    <3>2. CASE ~ Opens(k)
      BY <1>2, <3>2 DEF Walks, Stops, Totals, Fetches, Claims, Declares, Pays
    <3>3. QED BY <3>1, <3>2
  <2>3. pc'[i] = pc[i]
    <3>1. CASE Opens(k)
      BY <3>1 DEF Opens
    <3>2. CASE Stops(k)
      BY <3>2 DEF Stops
    <3>3. CASE Advance(k)
      BY <3>3, <1>2 DEF Advance, TypeOK
    <3>4. QED
      BY <1>2, <3>1, <3>2, <3>3 DEF Walks, Totals, Fetches, Claims, Declares, Pays
  <2>4. QED BY <2>1, <2>2, <2>3
<1>3. CASE Opens(i)
  BY <1>3 DEF Opens, TypeOK, Totalled, Declaring, dividendVars
<1>4. CASE Walks(i)
  <2>1. /\ req[i] \in Request /\ pc[i] \in DOMAIN Awaits[req[i].verb]
        /\ pc'[i] = Awaits[req[i].verb][pc[i]]
        /\ req' = req /\ pc[i] \notin {"outstanding", "fetch", "claim", "publish"}
        /\ asOf' = asOf /\ outstanding' = outstanding
    BY <1>4, AdvanceShape DEF Walks, dividendVars
  <2>2. QED BY <2>1, DividendFollows DEF Totalled, Declaring
<1>5. CASE Stops(i)
  BY <1>5 DEF Stops, TypeOK, Totalled, Declaring, Ended, dividendVars
<1>6. CASE Fetches(i) \/ Claims(i) \/ Pays(i)
  <2>1. /\ req' = req /\ asOf' = asOf /\ pc[i] \in {"fetch", "claim", "commit"}
        /\ pc[i] = "commit" => req[i].verb = "pay"
    BY <1>6 DEF Fetches, Claims, Pays, dividendVars
  <2>2. req[i] \in PayDividend
    BY <2>1, DividendAwaits DEF Await
  <2>3. QED BY <2>1, <2>2 DEF PayDividend, DeclareDividend
<1>7. CASE Declares(i)
  <2>1. /\ req[i] \in Request /\ req[i] \in DeclareDividend /\ pc[i] = "commit"
        /\ pc[i] \in DOMAIN Awaits[req[i].verb] /\ pc'[i] = Awaits[req[i].verb][pc[i]]
        /\ asOf' = asOf
    BY <1>7, AdvanceShape, DividendAwaits DEF Declares, Await
  <2>2. pc'[i] = "publish"
    BY <2>1, DividendFollows
  <2>3. QED BY <2>1, <2>2 DEF Totalled, Declaring
<1>8. QED BY <1>1, <1>2, <1>3, <1>4, <1>5, <1>6, <1>7, ServiceShape

\* The first row of an id is committed by the declaration of that id.
LEMMA RowsAreNew ==
  ASSUME ServiceInv, [ServiceNext]_serviceVars, NEW d \in Call, ~ Exists(d), Exists(d)'
  PROVE  /\ req[d] \in DeclareDividend /\ Totalled(pc[d]) /\ ~ Totals(d)
         /\ dividends'[d].class = req[d].class
         /\ dividends'[d].shares_outstanding = outstanding[d]
<1> USE DEF ServiceInv, ServiceTypeOK, RegisterInv
<1>1. dividends'[d] # dividends[d]
  BY DEF Exists
<1>2. ASSUME NEW k \in Call, Pays(k) PROVE FALSE
  BY <1>1, <1>2, PaysKeep DEF Exists
<1>3. ASSUME NEW k \in Call, Opens(k) \/ Walks(k) \/ Stops(k) \/ Totals(k) \/ Fetches(k)
                               \/ Claims(k)
      PROVE  dividends' = dividends
  BY <1>3 DEF Opens, Walks, Stops, Totals, Fetches, Claims, dividendVars
<1>4. Still => dividends' = dividends
  BY DEF Still, dividendVars
<1>5. PICK k \in Call : Declares(k)
  BY <1>1, <1>2, <1>3, <1>4, ServiceShape
<1>6. k = d /\ dividends'[d] = NewDividendRow(d)
  BY <1>1, <1>5, DeclaresKeep
<1>7. pc[d] = "commit" /\ req[d] \in DeclareDividend
  BY <1>5, <1>6, DividendAwaits DEF Declares, Await
<1>8. QED BY <1>6, <1>7 DEF NewDividendRow, Totalled, Declaring, Totals

\* What the holders of a class held when a call read the register.
HeldThen(k, c) == HeldTotal(At(asOf[k]), c)

\* A declaration's number of shares, before and after its commit, is what the
\* holders of its class held at the moment it read the register.
SnapshotsHold ==
  \A k \in Call :
    /\ asOf[k] \in 0 .. Len(register)
    /\ req[k] \in DeclareDividend /\ Totalled(pc[k]) =>
         HeldThen(k, req[k].class) = outstanding[k]
    /\ Exists(k) => HeldThen(k, dividends[k].class) = dividends[k].shares_outstanding

\* It holds before anything is declared.
LEMMA SnapshotsInit ==
  ASSUME ServiceInit
  PROVE  SnapshotsHold
BY DEF ServiceInit, RegisterInit, HubInit, SnapshotsHold, Exists, NoDividend, Totalled,
       Declaring

\* The register only grows at its end, so what was read of it stays as it was.
LEMMA SnapshotsStep ==
  ASSUME ServiceInv, SnapshotsHold, [ServiceNext]_serviceVars
  PROVE  SnapshotsHold'
<1>1. register \in Seq(Row)
  BY DEF ServiceInv, ServiceTypeOK, TypeOK
<1>2. PICK rows \in Seq(Row) : register' = register \o rows
  BY ServiceGrows
<1>3. \A n \in 0 .. Len(register) : /\ n \in 0 .. Len(register')
                                    /\ SubSeq(register', 1, n) = SubSeq(register, 1, n)
  BY <1>1, <1>2, PrefixStays
<1>4. ASSUME NEW k \in Call
      PROVE  /\ asOf'[k] \in 0 .. Len(register')
             /\ req'[k] \in DeclareDividend /\ Totalled(pc'[k]) =>
                  HeldTotal(SubSeq(register', 1, asOf'[k]), req'[k].class) = outstanding'[k]
             /\ Exists(k)' =>
                  HeldTotal(SubSeq(register', 1, asOf'[k]), dividends'[k].class)
                    = dividends'[k].shares_outstanding
  <2>1. /\ asOf[k] \in 0 .. Len(register)
        /\ req[k] \in DeclareDividend /\ Totalled(pc[k]) =>
             HeldTotal(SubSeq(register, 1, asOf[k]), req[k].class) = outstanding[k]
        /\ Exists(k) => HeldTotal(SubSeq(register, 1, asOf[k]), dividends[k].class)
                          = dividends[k].shares_outstanding
    BY DEF SnapshotsHold, HeldThen, At
  <2>2. CASE Totals(k)
    <3>1. /\ pc[k] = "outstanding" /\ req' = req /\ dividends' = dividends
          /\ asOf'[k] = Len(register)
          /\ outstanding'[k] = shares_outstanding(register, req[k].class)
      BY <2>2 DEF Totals, ServiceInv, ServiceTypeOK
    <3>2. req[k] \in DeclareDividend /\ req[k].class \in ShareClass
      BY <3>1, DividendAwaits DEF ServiceInv, ServiceTypeOK, DeclareDividend
    <3>3. HeldTotal(register, req[k].class) = shares_outstanding(register, req[k].class)
      BY <3>2 DEF ServiceInv, TotalsAgree
    <3>4. Len(register) \in 0 .. Len(register)
          /\ SubSeq(register, 1, Len(register)) = register
      BY <1>1
    <3>5. SubSeq(register', 1, asOf'[k]) = register /\ asOf'[k] \in 0 .. Len(register')
      BY <1>3, <3>1, <3>4
    <3>6. ~ Exists(k)'
      BY <3>1 DEF ServiceInv, DividendInv, RowsAreDeclared, Exists
    <3>7. QED BY <3>1, <3>3, <3>5, <3>6
  <2>3. CASE ~ Totals(k)
    <3>1. /\ asOf'[k] = asOf[k]
          /\ req'[k] \in DeclareDividend /\ Totalled(pc'[k]) =>
               Totalled(pc[k]) /\ req'[k] = req[k] /\ outstanding'[k] = outstanding[k]
      BY <2>3, DeclarationsMoveOn
    <3>2. /\ asOf'[k] \in 0 .. Len(register')
          /\ SubSeq(register', 1, asOf'[k]) = SubSeq(register, 1, asOf[k])
      BY <1>3, <2>1, <3>1
    <3>3. CASE Exists(k)
      <4>1. /\ dividends'[k].class = dividends[k].class
            /\ dividends'[k].shares_outstanding = dividends[k].shares_outstanding
        BY <3>3, ServiceGrows
      <4>2. QED BY <2>1, <3>1, <3>2, <3>3, <4>1
    <3>4. CASE ~ Exists(k)
      BY <2>1, <3>1, <3>2, <3>4, RowsAreNew
    <3>5. QED BY <3>3, <3>4
  <2>4. QED BY <2>2, <2>3
<1>5. QED BY <1>4 DEF SnapshotsHold, HeldThen, At

\* What the shares of a dividend were read from is always still there.
LEMMA SnapshotsInvariant == ServiceSpec => []SnapshotsHold
BY SnapshotsInit, SnapshotsStep, ServiceInvariant, PTL DEF ServiceSpec

-----------------------------------------------------------------------------
(* What the steps of the service post.                                     *)

\* A ledger has a journal of a source.
Booking(ledger, source) == \E j \in ledger : j.source = source

\* The source a call posts under.
PostedUnder(k) == IF req[k].verb = "pay" THEN Derived(req[k].dividend) ELSE Minted(k)

\* The identities journals are posted under are told apart.
LEMMA SourcesDiffer ==
  ASSUME NEW k, NEW d
  PROVE  /\ Minted(k) # Derived(d)
         /\ Minted(k) = Minted(d) => k = d
         /\ Derived(k) = Derived(d) => k = d
         /\ Minted(k)[1] = k /\ Derived(d)[1] = d
BY DEF Minted, Derived

\* A call that posts books its journal, unless its source has one.
Books(k) ==
  /\ pc[k] = "post" /\ Advance(k) /\ req' = req /\ UNCHANGED dividendVars
  /\ \E j \in Journal :
       /\ j.leg = req[k].verb /\ j.source = PostedUnder(k)
       /\ req[k].verb \in DividendVerb => j.lines = DividendLines(k)
       /\ gl' = IF Booking(gl, PostedUnder(k)) THEN gl ELSE gl \cup {j}

\* Any other step books nothing, and no call gets past its posting.
BooksNothing ==
  /\ gl' = gl
  /\ \A k \in Call : pc[k] = "post" => pc'[k] \in {"post"} \cup Ended

\* Every step is of one of the two kinds.
LEMMA BookingStep ==
  ASSUME ServiceTypeOK, [ServiceNext]_serviceVars
  PROVE  BooksNothing \/ \E k \in Call : Books(k)
<1> USE DEF ServiceTypeOK
<1>1. CASE UNCHANGED serviceVars
  BY <1>1 DEF serviceVars, registerVars, hubVars, BooksNothing
<1>2. CASE Masters
  BY <1>2 DEF Masters, register_share_class, update_share_class, register_shareholder,
              hubVars, BooksNothing
<1>3. \A k \in Call : Refuse(k) => \A i \in Call : pc[i] = "post" => pc'[i] \in {"post"} \cup Ended
  BY DEF Refuse, TypeOK, Ended
<1>4. \A k \in Call : Advance(k) /\ pc[k] # "post" =>
        \A i \in Call : pc[i] = "post" => pc'[i] \in {"post"} \cup Ended
  BY DEF Advance, TypeOK
<1>5. ASSUME NEW k \in Call, begin_call(k) \/ MovementStep(k) \/ interrupt_call(k),
             UNCHANGED dividendVars
      PROVE  BooksNothing \/ Books(k)
  <2>1. CASE begin_call(k)
    BY <2>1 DEF begin_call, Begin, BooksNothing, TypeOK
  <2>2. CASE load_class(k)
    BY <1>3, <1>4, <2>2 DEF load_class, BooksNothing
  <2>3. CASE lock_position(k)
    BY <1>4, <2>3 DEF lock_position, BooksNothing
  <2>4. CASE check_holding(k)
    BY <1>3, <1>4, <2>4 DEF check_holding, BooksNothing
  <2>5. CASE insert_rows(k)
    BY <1>3, <1>4, <2>5 DEF insert_rows, BooksNothing
  <2>6. CASE post_movement(k)
    <3> DEFINE new == [leg |-> req[k].verb, source |-> Minted(k), lines |-> Lines(k)]
    <3>1. CASE Refuse(k) /\ gl' = gl
      BY <1>3, <3>1 DEF BooksNothing
    <3>2. CASE /\ Advance(k)
               /\ gl' = IF \E j \in gl : j.source = Minted(k) THEN gl ELSE gl \cup {new}
      <4>1. pc[k] = "post" /\ req' = req /\ req[k].verb \in MovementVerb
        BY <2>6 DEF post_movement, Post
      <4>2. req[k] \in Request /\ pc[k] \in DOMAIN Awaits[req[k].verb]
        BY <3>2, <4>1, AdvanceShape DEF Await
      <4>3. req[k].verb \in {"issue", "buyback"}
        BY <4>1, <4>2, PostingAwaits DEF MovementVerb
      <4>4. Lines(k) \in Seq(GlPostLine)
        BY <4>2, <4>3, MovementByVerb, LinesType DEF TypeOK
      <4>5. new \in Journal /\ new.leg = req[k].verb /\ new.source = Minted(k)
        BY <4>3, <4>4 DEF Journal, SourceId
      <4> HIDE DEF new
      <4>6. PostedUnder(k) = Minted(k) /\ req[k].verb \notin DividendVerb
        BY <4>3 DEF PostedUnder, DividendVerb
      <4>7. gl' = IF Booking(gl, PostedUnder(k)) THEN gl ELSE gl \cup {new}
        BY <3>2, <4>6 DEF Booking
      <4>8. QED BY <1>5, <3>2, <4>1, <4>5, <4>6, <4>7 DEF Books
    <3>3. QED BY <2>6, <3>1, <3>2 DEF post_movement, Post
  <2>7. CASE stage_event(k)
    BY <1>3, <1>4, <2>7 DEF stage_event, Stage, BooksNothing
  <2>8. CASE commit_movement(k)
    BY <1>4, <2>8 DEF commit_movement, CommitOutbox, BooksNothing
  <2>9. CASE publish_event(k)
    BY <2>9 DEF publish_event, Publish, BooksNothing, TypeOK, Ended
  <2>10. CASE interrupt_call(k)
    BY <2>10 DEF interrupt_call, Interrupt, BooksNothing, TypeOK, Ended
  <2>11. QED
    BY <1>5, <2>1, <2>2, <2>3, <2>4, <2>5, <2>6, <2>7, <2>8, <2>9, <2>10 DEF MovementStep
<1>6. ASSUME NEW k \in Call, DividendStep(k)
      PROVE  BooksNothing \/ Books(k)
  <2>1. CASE read_outstanding(k)
    BY <1>3, <1>4, <2>1 DEF read_outstanding, BooksNothing
  <2>2. CASE fetch_for_payment(k)
    BY <1>3, <1>4, <2>2 DEF fetch_for_payment, BooksNothing
  <2>3. CASE claim_payment(k)
    BY <1>3, <1>4, <2>3 DEF claim_payment, BooksNothing
  <2>4. CASE post_dividend(k)
    <3> DEFINE new == [leg |-> req[k].verb, source |-> Source(k), lines |-> DividendLines(k)]
    <3>1. CASE Refuse(k) /\ gl' = gl
      BY <1>3, <3>1 DEF BooksNothing
    <3>2. CASE /\ Advance(k)
               /\ gl' = IF \E j \in gl : j.source = Source(k) THEN gl ELSE gl \cup {new}
      <4>1. /\ pc[k] = "post" /\ req' = req /\ req[k].verb \in DividendVerb
            /\ UNCHANGED dividendVars
        BY <2>4 DEF post_dividend, Post
      <4>2. req[k] \in DeclareDividend \cup PayDividend
        BY <1>6, DividendShape
      <4>3. new \in Journal /\ new.leg = req[k].verb /\ new.source = Source(k)
            /\ new.lines = DividendLines(k)
        BY <4>2, DividendWritesType
      <4> HIDE DEF new
      <4>4. PostedUnder(k) = Source(k)
        BY <4>1 DEF PostedUnder, Source, DividendVerb
      <4>5. gl' = IF Booking(gl, PostedUnder(k)) THEN gl ELSE gl \cup {new}
        BY <3>2, <4>4 DEF Booking
      <4>6. QED BY <3>2, <4>1, <4>3, <4>4, <4>5 DEF Books
    <3>3. QED BY <2>4, <3>1, <3>2 DEF post_dividend, Post
  <2>5. CASE insert_dividend(k)
    BY <1>4, <2>5 DEF insert_dividend, BooksNothing
  <2>6. CASE commit_dividend(k)
    BY <1>4, <2>6 DEF commit_dividend, CommitOutbox, BooksNothing
  <2>7. QED BY <1>6, <2>1, <2>2, <2>3, <2>4, <2>5, <2>6 DEF DividendStep
<1>7. QED BY <1>1, <1>2, <1>5, <1>6 DEF ServiceNext, RegisterNext

-----------------------------------------------------------------------------
(* How calls and dividends move on, whatever the step.                     *)

\* A declaration past its posting, however it goes on.
Posted(await) == Declaring(await) \/ await = "publish" \/ await \in Ended

\* A call that has begun keeps its request; a declaration keeps its total, and
\* nobody skips the posting.
LEMMA CallsMoveOn ==
  ASSUME ServiceTypeOK, [ServiceNext]_serviceVars, NEW i \in Call
  PROVE  /\ pc[i] # "idle" => pc'[i] # "idle" /\ req'[i] = req[i]
         /\ req[i] \in DeclareDividend /\ Posted(pc[i]) => Posted(pc'[i]) /\ total'[i] = total[i]
         /\ req'[i] \in DeclareDividend /\ Declaring(pc'[i]) =>
              req'[i] = req[i] /\ (pc[i] = "post" \/ Declaring(pc[i]))
         /\ Claimed(i)' /\ pc'[i] # "post" => req'[i] = req[i] /\ Claimed(i)
<1> USE DEF ServiceTypeOK
<1>1. CASE Still
  BY <1>1 DEF Still, dividendVars, Claimed
<1>2. ASSUME NEW k \in Call, k # i,
             Opens(k) \/ Walks(k) \/ Stops(k) \/ Totals(k) \/ Fetches(k) \/ Claims(k)
               \/ Declares(k) \/ Pays(k)
      PROVE  pc'[i] = pc[i] /\ req'[i] = req[i] /\ total'[i] = total[i]
  BY <1>2 DEF Opens, Walks, Stops, Totals, Fetches, Claims, Declares, Pays, Advance,
              dividendVars, TypeOK
<1>3. CASE Opens(i)
  <2>1. pc[i] = "idle" /\ pc'[i] \in {"load", "lock", "outstanding", "fetch", "refused"}
    BY <1>3 DEF Opens, TypeOK
  <2>2. QED BY <2>1 DEF Posted, Declaring, Ended, Claimed
<1>4. CASE Stops(i)
  <2>1. pc'[i] \in Ended /\ req' = req /\ total' = total
    BY <1>4 DEF Stops, dividendVars, TypeOK
  <2>2. QED BY <2>1 DEF Posted, Declaring, Ended, Claimed
<1>5. ASSUME Advance(i), pc[i] \in Await, pc[i] # "publish", req' = req,
             total'[i] = total[i] \/ pc[i] \in {"outstanding", "fetch"}
      PROVE  /\ pc'[i] # "idle" /\ req'[i] = req[i]
             /\ req[i] \in DeclareDividend /\ Posted(pc[i]) =>
                  Posted(pc'[i]) /\ total'[i] = total[i]
             /\ req[i] \in DeclareDividend /\ Declaring(pc'[i]) =>
                  pc[i] = "post" \/ Declaring(pc[i])
             /\ Claimed(i)' /\ pc'[i] # "post" => Claimed(i)
  <2>1. /\ req[i] \in Request /\ pc[i] \in DOMAIN Awaits[req[i].verb]
        /\ pc'[i] = Awaits[req[i].verb][pc[i]]
    BY <1>5, AdvanceShape
  <2>2. pc'[i] # "idle"
    BY <2>1, AwaitsClosed DEF Await
  <2>3. req[i] \in DeclareDividend /\ Posted(pc[i]) =>
          Posted(pc'[i]) /\ total'[i] = total[i]
    <3>1. Posted(pc[i]) => pc[i] \in {"insert", "stage", "commit"} /\ total'[i] = total[i]
      BY <1>5 DEF Posted, Declaring, Await, Ended
    <3>2. req[i] \in DeclareDividend /\ pc[i] \in {"insert", "stage"} => Declaring(pc'[i])
      BY <2>1, DividendFollows DEF Declaring
    <3>3. pc[i] = "commit" => pc'[i] = "publish"
      BY <2>1, DividendFollows
    <3>4. QED BY <3>1, <3>2, <3>3 DEF Posted
  <2>4. req[i] \in DeclareDividend /\ Declaring(pc'[i]) =>
          pc[i] = "post" \/ Declaring(pc[i])
    BY <2>1, DividendFollows DEF Declaring
  <2>5. Claimed(i)' /\ pc'[i] # "post" => Claimed(i)
    BY <1>5, <2>1, DividendFollows DEF Claimed
  <2>6. QED BY <1>5, <2>2, <2>3, <2>4, <2>5
<1>6. ASSUME Walks(i) \/ Totals(i) \/ Fetches(i) \/ Claims(i) \/ Declares(i) \/ Pays(i)
      PROVE  /\ Advance(i) /\ pc[i] \in Await /\ pc[i] # "publish" /\ req' = req
             /\ total'[i] = total[i] \/ pc[i] \in {"outstanding", "fetch"}
  BY <1>6 DEF Walks, Totals, Fetches, Claims, Declares, Pays, dividendVars, Await
<1>7. QED BY <1>1, <1>2, <1>3, <1>4, <1>5, <1>6, ServiceShape DEF Claimed

\* A dividend on the table stays there with its total; one is put there by its
\* own declaration, and paid by a call that has claimed it.
LEMMA DividendsStay ==
  ASSUME ServiceInv, [ServiceNext]_serviceVars, NEW d \in Call
  PROVE  /\ Exists(d) => Exists(d)' /\ dividends'[d].total_amount = dividends[d].total_amount
         /\ Exists(d)' => Exists(d) \/ (req[d] \in DeclareDividend /\ pc[d] = "commit")
         /\ dividends[d].status = "paid" => dividends'[d].status = "paid"
         /\ dividends'[d].status = "paid" =>
              \/ dividends[d].status = "paid"
              \/ \E k \in Call : Claimed(k) /\ pc[k] = "commit" /\ req[k].dividend = d
<1> USE DEF ServiceInv, ServiceTypeOK, RegisterInv
<1>1. CASE dividends' = dividends
  BY <1>1 DEF Exists
<1>2. ASSUME NEW k \in Call, Declares(k)
      PROVE  /\ dividends'[d] = dividends[d] \/ (k = d /\ ~ Exists(d))
             /\ dividends'[k].status = "declared"
             /\ pc[k] = "commit" /\ req[k] \in DeclareDividend
  <2>1. pc[k] = "commit" /\ req[k] \in DeclareDividend
    BY <1>2, DividendAwaits DEF Declares, Await
  <2>2. /\ ~ Exists(k) /\ dividends'[k] = NewDividendRow(k)
        /\ \A e \in Call \ {k} : dividends'[e] = dividends[e]
    BY <1>2, DeclaresKeep
  <2>3. NewDividendRow(k).status = "declared"
    BY DEF NewDividendRow
  <2>4. QED BY <2>1, <2>2, <2>3
<1>3. ASSUME NEW k \in Call, Pays(k)
      PROVE  LET e == req[k].dividend IN
             /\ Claimed(k) /\ pc[k] = "commit"
             /\ dividends[e].status = "declared" /\ dividends'[e].status = "paid"
             /\ dividends'[e].total_amount = dividends[e].total_amount
             /\ d # e => dividends'[d] = dividends[d]
  BY <1>3, PaysKeep DEF Pays
<1>4. QED
  <2>1. ASSUME NEW k \in Call, Declares(k)
        PROVE  /\ Exists(d) => Exists(d)' /\ dividends'[d].total_amount = dividends[d].total_amount
               /\ Exists(d)' => Exists(d) \/ (req[d] \in DeclareDividend /\ pc[d] = "commit")
               /\ dividends[d].status = "paid" => dividends'[d].status = "paid"
               /\ dividends'[d].status = "paid" => dividends[d].status = "paid"
    BY <1>2, <2>1 DEF Exists
  <2>2. ASSUME NEW k \in Call, Pays(k)
        PROVE  /\ Exists(d) => Exists(d)' /\ dividends'[d].total_amount = dividends[d].total_amount
               /\ Exists(d)' => Exists(d)
               /\ dividends[d].status = "paid" => dividends'[d].status = "paid"
               /\ dividends'[d].status = "paid" =>
                    \/ dividends[d].status = "paid"
                    \/ Claimed(k) /\ pc[k] = "commit" /\ req[k].dividend = d
    BY <1>3, <2>2 DEF Exists
  <2>3. ASSUME NEW k \in Call, Opens(k) \/ Walks(k) \/ Stops(k) \/ Totals(k) \/ Fetches(k)
                                 \/ Claims(k)
        PROVE  dividends' = dividends
    BY <2>3 DEF Opens, Walks, Stops, Totals, Fetches, Claims, dividendVars
  <2>4. Still => dividends' = dividends
    BY DEF Still, dividendVars
  <2>5. QED BY <1>1, <2>1, <2>2, <2>3, <2>4, ServiceShape

-----------------------------------------------------------------------------
(* What the ledger says of the dividends.                                  *)

\* The journal of a declaration of some total, and that of a payment.
DeclareSays(j, n) == j.leg = "declare" /\ Net(j.lines, "dividend_payable") = - n
PaySays(j, n) == /\ j.leg = "pay"
                 /\ Net(j.lines, "dividend_payable") = n /\ Net(j.lines, "bank") = - n

\* A journal under a call's own identity is that of its verb, and no payment's;
\* that of a declaration books its total.
MintedLegs ==
  \A k \in Call, j \in gl : j.source = Minted(k) =>
    /\ pc[k] # "idle" /\ j.leg = req[k].verb /\ j.leg # "pay"
    /\ req[k] \in DeclareDividend => Posted(pc[k]) /\ DeclareSays(j, total[k])

\* A journal under a derived identity pays the dividend it is derived from.
DerivedLegs ==
  \A d \in Call, j \in gl : j.source = Derived(d) =>
    Exists(d) /\ PaySays(j, dividends[d].total_amount)

\* A declaration is booked before its row goes in, and a payment before it
\* commits.
DeclaredIsPosted ==
  \A k \in Call : ((req[k] \in DeclareDividend /\ Declaring(pc[k])) \/ Exists(k)) =>
    Booking(gl, Minted(k))
PaidIsPosted ==
  /\ \A k \in Call : (Claimed(k) /\ pc[k] # "post") => Booking(gl, Derived(req[k].dividend))
  /\ \A d \in Call : dividends[d].status = "paid" => Booking(gl, Derived(d))

LedgerInv ==
  /\ IsFiniteSet(gl)
  /\ OneJournalASource
  /\ MintedLegs
  /\ DerivedLegs
  /\ DeclaredIsPosted
  /\ PaidIsPosted

\* What was booked is booked still: nothing is taken off the ledger, and what a
\* call posts is on it when the call goes on.
LEMMA PostingsStay ==
  ASSUME ServiceInv, [ServiceNext]_serviceVars, DeclaredIsPosted, PaidIsPosted,
         gl \subseteq gl',
         \A k \in Call : pc[k] = "post" /\ pc'[k] \notin {"post"} \cup Ended =>
           Booking(gl', PostedUnder(k))
  PROVE  DeclaredIsPosted' /\ PaidIsPosted'
<1>1. \A source : Booking(gl, source) => Booking(gl', source)
  BY DEF Booking
<1>2. ASSUME NEW k \in Call, req'[k] \in DeclareDividend /\ Declaring(pc'[k])
      PROVE  Booking(gl', Minted(k))
  <2>1. req[k] \in DeclareDividend /\ (pc[k] = "post" \/ Declaring(pc[k]))
    BY <1>2, CallsMoveOn DEF ServiceInv
  <2>2. CASE Declaring(pc[k])
    BY <1>1, <2>1, <2>2 DEF DeclaredIsPosted
  <2>3. CASE pc[k] = "post"
    <3>1. pc'[k] \notin {"post"} \cup Ended
      BY <1>2 DEF Declaring, Ended
    <3>2. PostedUnder(k) = Minted(k)
      BY <2>1 DEF PostedUnder, DeclareDividend
    <3>3. Booking(gl', PostedUnder(k))
      BY <2>3, <3>1
    <3>4. QED BY <3>2, <3>3, Zenon
  <2>4. QED BY <2>1, <2>2, <2>3
<1>3. ASSUME NEW d \in Call, Exists(d)'
      PROVE  Booking(gl', Minted(d))
  <2>1. Exists(d) \/ (req[d] \in DeclareDividend /\ pc[d] = "commit")
    BY <1>3, DividendsStay
  <2>2. QED BY <1>1, <2>1 DEF DeclaredIsPosted, Declaring
<1>4. ASSUME NEW k \in Call, Claimed(k)', pc'[k] # "post"
      PROVE  Booking(gl', Derived(req'[k].dividend))
  <2>1. req'[k] = req[k] /\ Claimed(k)
    BY <1>4, CallsMoveOn DEF ServiceInv
  <2>2. CASE pc[k] # "post"
    BY <1>1, <2>1, <2>2 DEF PaidIsPosted
  <2>3. CASE pc[k] = "post"
    <3>1. pc'[k] \notin {"post"} \cup Ended
      BY <1>4 DEF Claimed, Ended
    <3>2. PostedUnder(k) = Derived(req[k].dividend)
      BY <2>1 DEF PostedUnder, Claimed, PayDividend
    <3>3. Booking(gl', PostedUnder(k))
      BY <2>3, <3>1
    <3>4. QED BY <2>1, <3>2, <3>3, Zenon
  <2>4. QED BY <2>2, <2>3
<1>5. ASSUME NEW d \in Call, dividends'[d].status = "paid"
      PROVE  Booking(gl', Derived(d))
  <2>1. \/ dividends[d].status = "paid"
        \/ \E k \in Call : Claimed(k) /\ pc[k] = "commit" /\ req[k].dividend = d
    BY <1>5, DividendsStay
  <2>2. QED BY <1>1, <2>1 DEF PaidIsPosted
<1>6. DeclaredIsPosted'
  BY <1>2, <1>3, Zenon DEF DeclaredIsPosted, Booking, Minted
<1>7. PaidIsPosted'
  BY <1>4, <1>5, Zenon DEF PaidIsPosted, Booking, Derived
<1>8. QED BY <1>6, <1>7

\* What the ledger said of a call or a dividend it says still.
LEMMA JournalsStay ==
  ASSUME ServiceInv, [ServiceNext]_serviceVars, MintedLegs, DerivedLegs, NEW j \in gl
  PROVE  /\ \A k \in Call : j.source = Minted(k) =>
              /\ pc'[k] # "idle" /\ j.leg = req'[k].verb /\ j.leg # "pay"
              /\ req'[k] \in DeclareDividend => Posted(pc'[k]) /\ DeclareSays(j, total'[k])
         /\ \A d \in Call : j.source = Derived(d) =>
              Exists(d)' /\ PaySays(j, dividends'[d].total_amount)
<1>1. ASSUME NEW k \in Call, j.source = Minted(k)
      PROVE  /\ pc'[k] # "idle" /\ j.leg = req'[k].verb /\ j.leg # "pay"
             /\ req'[k] \in DeclareDividend => Posted(pc'[k]) /\ DeclareSays(j, total'[k])
  <2>1. /\ pc[k] # "idle" /\ j.leg = req[k].verb /\ j.leg # "pay"
        /\ req[k] \in DeclareDividend => Posted(pc[k]) /\ DeclareSays(j, total[k])
    BY <1>1 DEF MintedLegs
  <2>2. pc'[k] # "idle" /\ req'[k] = req[k]
    BY <2>1, CallsMoveOn DEF ServiceInv
  <2>3. req[k] \in DeclareDividend => Posted(pc'[k]) /\ total'[k] = total[k]
    BY <2>1, CallsMoveOn DEF ServiceInv
  <2>4. QED BY <2>1, <2>2, <2>3
<1>2. ASSUME NEW d \in Call, j.source = Derived(d)
      PROVE  Exists(d)' /\ PaySays(j, dividends'[d].total_amount)
  <2>1. Exists(d) /\ PaySays(j, dividends[d].total_amount)
    BY <1>2 DEF DerivedLegs
  <2>2. Exists(d)' /\ dividends'[d].total_amount = dividends[d].total_amount
    BY <2>1, DividendsStay
  <2>3. QED BY <2>1, <2>2
<1>3. QED BY <1>1, <1>2

\* What a call books is its verb's journal, of the total it declares or pays.
LEMMA BookingSays ==
  ASSUME ServiceInv, NEW k \in Call, pc[k] = "post", Advance(k), req' = req,
         UNCHANGED dividendVars,
         NEW j \in Journal, j.leg = req[k].verb, j.source = PostedUnder(k),
         req[k].verb \in DividendVerb => j.lines = DividendLines(k)
  PROVE  /\ \A i \in Call : j.source = Minted(i) =>
              /\ pc'[i] # "idle" /\ j.leg = req'[i].verb /\ j.leg # "pay"
              /\ req'[i] \in DeclareDividend => Posted(pc'[i]) /\ DeclareSays(j, total'[i])
         /\ \A d \in Call : j.source = Derived(d) =>
              Exists(d)' /\ PaySays(j, dividends'[d].total_amount)
<1> USE DEF ServiceInv, ServiceTypeOK
<1>1. /\ req[k] \in Request /\ pc[k] \in DOMAIN Awaits[req[k].verb]
      /\ pc'[k] = Awaits[req[k].verb][pc[k]]
  BY AdvanceShape DEF Await
<1>2. dividends' = dividends /\ total' = total
  BY DEF dividendVars
<1>3. /\ req[k].verb = "declare" <=> req[k] \in DeclareDividend
      /\ req[k].verb = "pay" <=> req[k] \in PayDividend
      /\ req[k] \in PayDividend => req[k].dividend \in Call
  BY <1>1, DividendByVerb
<1>4. CASE req[k].verb = "pay"
  <2>1. j.source = Derived(req[k].dividend) /\ req[k].dividend \in Call
    BY <1>3, <1>4 DEF PostedUnder
  <2>2. Fetched(k)
    BY <1>3, <1>4 DEF Fetched
  <2>3. Exists(req[k].dividend) /\ total[k] = dividends[req[k].dividend].total_amount
    BY <2>2 DEF DividendInv, PaymentsAgree
  <2>4. j.lines = PayLines(total[k]) /\ total[k] \in Int
    BY <1>4 DEF DividendLines, DividendVerb
  <2>5. PaySays(j, total[k])
    <3>1. "dividend_payable" \in Account /\ "bank" \in Account
      BY DEF Account
    <3>2. /\ Net(PayLines(total[k]), "dividend_payable") = total[k]
          /\ Net(PayLines(total[k]), "bank") = - total[k]
      BY <2>4, <3>1, PayNets
    <3>3. QED BY <1>4, <2>4, <3>2 DEF PaySays
  <2>6. \A d \in Call : /\ j.source # Minted(d)
                        /\ j.source = Derived(d) => d = req[k].dividend
    BY <2>1, SourcesDiffer
  <2>7. QED BY <1>2, <2>3, <2>5, <2>6 DEF Exists
<1>5. CASE req[k].verb # "pay"
  <2>1. j.source = Minted(k)
    BY <1>5 DEF PostedUnder
  <2>2. pc'[k] # "idle"
    BY <1>1, AwaitsClosed DEF Await
  <2>3. req[k] \in DeclareDividend => Posted(pc'[k])
    BY <1>1, DividendFollows DEF Posted
  <2>4. req[k] \in DeclareDividend => DeclareSays(j, total[k])
    <3> SUFFICES ASSUME req[k].verb = "declare" PROVE DeclareSays(j, total[k])
      BY <1>3
    <3>1. j.lines = DeclareLines(total[k]) /\ total[k] \in Int
      BY DEF DividendLines, DividendVerb
    <3>2. "dividend_payable" \in Account
      BY DEF Account
    <3>3. Net(DeclareLines(total[k]), "dividend_payable") = - total[k]
      BY <3>1, <3>2, DeclareNets
    <3>4. QED BY <3>1, <3>3 DEF DeclareSays
  <2>5. \A i \in Call : /\ j.source # Derived(i)
                        /\ j.source = Minted(i) => i = k
    BY <2>1, SourcesDiffer
  <2>6. QED BY <1>2, <1>5, <2>2, <2>3, <2>4, <2>5
<1>6. QED BY <1>4, <1>5

\* The ledger of an empty database says nothing.
LEMMA LedgerInvInit ==
  ASSUME ServiceInit
  PROVE  LedgerInv
<1>1. gl = {} /\ \A k \in Call : pc[k] = "idle" /\ dividends[k] = NoDividend
  BY DEF ServiceInit, RegisterInit, HubInit
<1>2. IsFiniteSet(gl)
  BY <1>1, FS_EmptySet
<1>3. OneJournalASource /\ MintedLegs /\ DerivedLegs
  BY <1>1 DEF OneJournalASource, MintedLegs, DerivedLegs
<1>4. DeclaredIsPosted /\ PaidIsPosted
  BY <1>1 DEF DeclaredIsPosted, PaidIsPosted, Declaring, Claimed, Exists, NoDividend
<1>5. QED BY <1>2, <1>3, <1>4 DEF LedgerInv

\* Every step of the service keeps what the ledger says true.
LEMMA LedgerInvStep ==
  ASSUME ServiceInv, LedgerInv, [ServiceNext]_serviceVars
  PROVE  LedgerInv'
<1> USE DEF LedgerInv
<1>1. CASE BooksNothing
  <2>1. gl' = gl /\ \A k \in Call : pc[k] = "post" => pc'[k] \in {"post"} \cup Ended
    BY <1>1 DEF BooksNothing
  <2>2. DeclaredIsPosted' /\ PaidIsPosted'
    BY <2>1, PostingsStay
  <2>3. MintedLegs'
    BY <2>1, JournalsStay, Zenon DEF MintedLegs, Minted
  <2>4. DerivedLegs'
    BY <2>1, JournalsStay, Zenon DEF DerivedLegs, Derived
  <2>5. QED BY <2>1, <2>2, <2>3, <2>4 DEF OneJournalASource
<1>2. ASSUME NEW k \in Call, Books(k)
      PROVE  LedgerInv'
  <2>1. /\ pc[k] = "post" /\ Advance(k) /\ req' = req /\ UNCHANGED dividendVars
        /\ \A i \in Call \ {k} : pc'[i] = pc[i]
    BY <1>2 DEF Books, Advance, ServiceInv, ServiceTypeOK, TypeOK
  <2>2. PICK j \in Journal :
          /\ j.leg = req[k].verb /\ j.source = PostedUnder(k)
          /\ req[k].verb \in DividendVerb => j.lines = DividendLines(k)
          /\ gl' = IF Booking(gl, PostedUnder(k)) THEN gl ELSE gl \cup {j}
    BY <1>2 DEF Books
  <2>3. gl \subseteq gl' /\ Booking(gl', PostedUnder(k))
    BY <2>2 DEF Booking
  <2>4. DeclaredIsPosted' /\ PaidIsPosted'
    BY <2>1, <2>3, PostingsStay
  <2>5. gl' \subseteq gl \cup {j}
    BY <2>2
  <2>6. MintedLegs'
    <3>1. ASSUME NEW i \in Call, NEW m \in gl \cup {j}, m.source = Minted(i)
          PROVE  /\ pc'[i] # "idle" /\ m.leg = req'[i].verb /\ m.leg # "pay"
                 /\ req'[i] \in DeclareDividend => Posted(pc'[i]) /\ DeclareSays(m, total'[i])
      <4>1. CASE m \in gl
        BY <3>1, <4>1, JournalsStay
      <4>2. CASE m = j
        BY <2>1, <2>2, <3>1, <4>2, BookingSays
      <4>3. QED BY <4>1, <4>2
    <3>2. QED BY <2>5, <3>1, Zenon DEF MintedLegs, Minted
  <2>7. DerivedLegs'
    <3>1. ASSUME NEW d \in Call, NEW m \in gl \cup {j}, m.source = Derived(d)
          PROVE  Exists(d)' /\ PaySays(m, dividends'[d].total_amount)
      <4>1. CASE m \in gl
        BY <3>1, <4>1, JournalsStay
      <4>2. CASE m = j
        BY <2>1, <2>2, <3>1, <4>2, BookingSays
      <4>3. QED BY <4>1, <4>2
    <3>2. QED BY <2>5, <3>1, Zenon DEF DerivedLegs, Derived
  <2>8. OneJournalASource'
    <3>1. ASSUME NEW m \in gl', NEW n \in gl', m.source = n.source PROVE m = n
      <4>1. CASE Booking(gl, PostedUnder(k))
        BY <2>2, <3>1, <4>1 DEF OneJournalASource
      <4>2. CASE ~ Booking(gl, PostedUnder(k))
        <5>1. gl' = gl \cup {j} /\ \A x \in gl : x.source # j.source
          BY <2>2, <4>2 DEF Booking
        <5>2. QED BY <3>1, <5>1 DEF OneJournalASource
      <4>3. QED BY <4>1, <4>2
    <3>2. QED BY <3>1 DEF OneJournalASource
  <2>9. IsFiniteSet(gl')
    BY <2>2, FS_AddElement
  <2>10. QED BY <2>4, <2>6, <2>7, <2>8, <2>9
<1>3. QED BY <1>1, <1>2, BookingStep DEF ServiceInv

\* The ledger's invariant holds in every state of the service.
LEMMA LedgerInvariant == ServiceSpec => []LedgerInv
<1>1. ServiceInit => LedgerInv
  BY LedgerInvInit
<1>2. ServiceInv /\ LedgerInv /\ [ServiceNext]_serviceVars => LedgerInv'
  BY LedgerInvStep
<1>3. QED BY <1>1, <1>2, ServiceInvariant, PTL DEF ServiceSpec

\* Every dividend on the table was declared on what the holders of its class held
\* when the call read the register, whatever has moved since, at the rate on those
\* shares, and its journal was booked at exactly that total.
THEOREM DeclarationsAreBooked == ServiceSpec => []DeclaredIsBooked
<1>1. ServiceInv /\ LedgerInv /\ SnapshotsHold => DeclaredIsBooked
  <2> SUFFICES ASSUME ServiceInv, LedgerInv, SnapshotsHold, NEW d \in Call, Exists(d)
               PROVE  LET row == dividends[d]
                          shares == HeldInAll(At(asOf[d]), row.class)
                      IN  /\ row.shares_outstanding = shares
                          /\ row.total_amount = row.per_share * shares
                          /\ \E j \in gl :
                               /\ j.source = Minted(d) /\ j.leg = "declare"
                               /\ Net(j.lines, "dividend_payable") = - row.total_amount
    BY Zenon DEF DeclaredIsBooked
  <2>1. /\ req[d] \in DeclareDividend
        /\ dividends[d].total_amount = total[d]
        /\ dividends[d].total_amount =
             dividends[d].per_share * dividends[d].shares_outstanding
    BY DEF ServiceInv, DividendInv, RowsAreDeclared
  <2>2. PICK j \in gl : j.source = Minted(d)
    BY DEF LedgerInv, DeclaredIsPosted, Booking
  <2>3. DeclareSays(j, total[d])
    BY <2>1, <2>2 DEF LedgerInv, MintedLegs
  <2>4. dividends[d].shares_outstanding = HeldInAll(At(asOf[d]), dividends[d].class)
    <3>1. dividends[d].class \in ShareClass
      BY DEF ServiceInv, ServiceTypeOK, Exists, NoDividend, DividendRow
    <3>2. At(asOf[d]) \in Seq(Row)
      <4>1. register \in Seq(Row) /\ << >> \in Seq(Row) /\ asOf[d] \in 0 .. Len(register)
        BY DEF ServiceInv, ServiceTypeOK, TypeOK, SnapshotsHold
      <4>2. QED BY <4>1, PrefixStays DEF At
    <3>3. HeldInAll(At(asOf[d]), dividends[d].class) = HeldThen(d, dividends[d].class)
      BY <3>1, <3>2, HeldIsSetSum DEF HeldThen
    <3>4. QED BY <3>3 DEF SnapshotsHold
  <2>5. \E m \in gl : /\ m.source = Minted(d) /\ m.leg = "declare"
                      /\ Net(m.lines, "dividend_payable") = - dividends[d].total_amount
    BY <2>1, <2>2, <2>3, Zenon DEF DeclareSays
  <2>6. QED BY <2>1, <2>4, <2>5, Zenon
<1>2. QED BY <1>1, ServiceInvariant, LedgerInvariant, SnapshotsInvariant, PTL

-----------------------------------------------------------------------------
(* What the ledger has moved in all.                                       *)

\* The total of a dividend, and what a journal adds to an account.
TotalAmounts == [d \in Call |-> dividends[d].total_amount]
Nets(account) == [j \in gl |-> Net(j.lines, account)]

\* The dividends on the table, and the journals of a leg.
OnTheTable == {d \in Call : Exists(d)}
OfLeg(leg) == {j \in gl : j.leg = leg}

\* What was booked on an account, as a sum of a function.
LEMMA BookedIsSetSum ==
  ASSUME IsFiniteSet(gl), NEW legs, NEW account, \A j \in gl : Net(j.lines, account) \in Int
  PROVE  Booked(legs, account) = SetSum(Nets(account), {j \in gl : j.leg \in legs})
<1> DEFINE S == {j \in gl : j.leg \in legs}
           f == Nets(account)
           Sums(r) == r = [T \in SUBSET S |->
                             IF T = {} THEN 0
                             ELSE Net((CHOOSE x \in T : TRUE).lines, account)
                                    + r[T \ {CHOOSE x \in T : TRUE}]]
<1>1. IsFiniteSet(S) /\ \A j \in S : f[j] \in Int
  BY FS_Subset DEF Nets
<1>2. \A r : Sums(r) <=> IsSetSum(r, f, S)
  <2>1. \A T \in SUBSET S : T # {} =>
          f[CHOOSE x \in T : TRUE] = Net((CHOOSE x \in T : TRUE).lines, account)
    BY DEF Nets
  <2> HIDE DEF f
  <2>2. QED BY <2>1 DEF IsSetSum, Pick
<1>3. PICK r : IsSetSum(r, f, S)
  <2> HIDE DEF f, S
  <2>1. QED BY <1>1, SetSumExists
<1> DEFINE q == CHOOSE s : Sums(s)
<1>4. Sums(q)
  <2>1. Sums(r)
    BY <1>2, <1>3
  <2> HIDE DEF Sums
  <2>2. QED BY <2>1
<1>5. q[S] = SetSum(f, S)
  <2>1. IsSetSum(q, f, S)
    BY <1>2, <1>4
  <2> HIDE DEF q, f, S
  <2>2. QED BY <1>1, <2>1, SetSumIs
<1>6. Booked(legs, account) = q[S]
  BY DEF Booked, MapThenSumSet, MapThenFoldSet
<1>7. QED BY <1>5, <1>6

\* What was declared, as a sum of a function.
LEMMA TableIsSetSum ==
  ASSUME \A d \in OnTheTable : dividends[d].total_amount \in Int
  PROVE  MapThenSumSet(LAMBDA d : dividends[d].total_amount, {d \in Call : Exists(d)})
           = SetSum(TotalAmounts, OnTheTable)
<1> DEFINE f == TotalAmounts
           Sums(r) == r = [T \in SUBSET OnTheTable |->
                             IF T = {} THEN 0
                             ELSE dividends[CHOOSE x \in T : TRUE].total_amount
                                    + r[T \ {CHOOSE x \in T : TRUE}]]
<1>1. IsFiniteSet(OnTheTable) /\ \A d \in OnTheTable : f[d] \in Int
  BY IdsAssumption, FS_Subset DEF TotalAmounts, OnTheTable
<1>2. \A r : Sums(r) <=> IsSetSum(r, f, OnTheTable)
  <2>1. \A T \in SUBSET OnTheTable : T # {} =>
          f[CHOOSE x \in T : TRUE] = dividends[CHOOSE x \in T : TRUE].total_amount
    BY DEF TotalAmounts, OnTheTable
  <2> HIDE DEF f
  <2>2. QED BY <2>1 DEF IsSetSum, Pick
<1>3. PICK r : IsSetSum(r, f, OnTheTable)
  <2> HIDE DEF f
  <2>1. QED BY <1>1, SetSumExists
<1> DEFINE q == CHOOSE s : Sums(s)
<1>4. Sums(q)
  <2>1. Sums(r)
    BY <1>2, <1>3
  <2> HIDE DEF Sums
  <2>2. QED BY <2>1
<1>5. q[OnTheTable] = SetSum(f, OnTheTable)
  <2>1. IsSetSum(q, f, OnTheTable)
    BY <1>2, <1>4
  <2> HIDE DEF q, f
  <2>2. QED BY <1>1, <2>1, SetSumIs
<1>6. MapThenSumSet(LAMBDA d : dividends[d].total_amount, OnTheTable) = q[OnTheTable]
  BY DEF MapThenSumSet, MapThenFoldSet
<1>7. QED BY <1>5, <1>6, Zenon DEF OnTheTable

\* Whose journals they are: that of a payment is under the identity derived from
\* a dividend on the table, that of a declaration under the declaring call's own.
LEMMA WhoseJournal ==
  ASSUME ServiceInv, LedgerInv, NEW j \in gl
  PROVE  LET d == j.source[1] IN
         /\ d \in Call
         /\ j.leg = "pay" =>
              /\ j.source = Derived(d) /\ Exists(d)
              /\ PaySays(j, dividends[d].total_amount)
         /\ j.leg = "declare" =>
              /\ j.source = Minted(d) /\ req[d] \in DeclareDividend
              /\ DeclareSays(j, total[d])
<1> USE DEF ServiceInv, ServiceTypeOK, LedgerInv
<1>1. j.source \in SourceId
  BY DEF TypeOK, Journal
<1>2. PICK d \in Call : j.source = Minted(d) \/ j.source = Derived(d)
  BY <1>1 DEF SourceId
<1>3. j.source[1] = d
  BY <1>2, SourcesDiffer
<1>4. CASE j.source = Derived(d)
  <2>1. Exists(d) /\ PaySays(j, dividends[d].total_amount)
    BY <1>4 DEF DerivedLegs
  <2>2. QED BY <1>3, <1>4, <2>1, Zenon DEF PaySays
<1>5. CASE j.source = Minted(d)
  <2>1. /\ j.leg = req[d].verb /\ j.leg # "pay"
        /\ req[d] \in DeclareDividend => DeclareSays(j, total[d])
    BY <1>5 DEF MintedLegs
  <2>2. req[d].verb = "declare" => req[d] \in DeclareDividend
    <3>1. req[d] \in Request \cup {NoRequest} /\ NoRequest.verb = "none"
      BY DEF TypeOK, NoRequest
    <3>2. QED BY <3>1, DividendByVerb
  <2>3. QED BY <1>3, <1>5, <2>1, <2>2, Zenon
<1>6. QED BY <1>2, <1>4, <1>5

\* What a dividend on the table amounts to, and what a journal adds, are numbers.
LEMMA AmountsAreNumbers ==
  ASSUME ServiceInv
  PROVE  /\ IsFiniteSet(OnTheTable) /\ OnTheTable \subseteq Call
         /\ \A d \in OnTheTable : /\ dividends[d].total_amount \in Int
                                  /\ dividends[d].total_amount > 0
                                  /\ dividends[d].total_amount = total[d]
                                  /\ TotalAmounts[d] = dividends[d].total_amount
         /\ \A account : \A j \in gl : /\ Net(j.lines, account) \in Int
                                       /\ Nets(account)[j] = Net(j.lines, account)
<1>1. IsFiniteSet(OnTheTable) /\ OnTheTable \subseteq Call
  BY IdsAssumption, FS_Subset DEF OnTheTable
<1>2. \A d \in OnTheTable : /\ dividends[d].total_amount \in Int
                            /\ dividends[d].total_amount > 0
                            /\ dividends[d].total_amount = total[d]
                            /\ TotalAmounts[d] = dividends[d].total_amount
  BY DEF OnTheTable, ServiceInv, ServiceTypeOK, DividendInv, RowsAreDeclared, TotalAmounts
<1>3. ASSUME NEW j \in gl, NEW account
      PROVE  Net(j.lines, account) \in Int /\ Nets(account)[j] = Net(j.lines, account)
  <2>1. j.lines \in Seq(GlPostLine)
    BY DEF ServiceInv, ServiceTypeOK, TypeOK, Journal
  <2>2. Debit("bank", 0) \in GlPostLine
    BY DEF Debit, GlPostLine, Account
  <2>3. Net(j.lines, account) \in Int
    BY <2>1, <2>2, NetAppend
  <2>4. QED BY <2>3 DEF Nets
<1>4. QED BY <1>1, <1>2, <1>3

\* The payments booked have moved, out of the bank and off the payable, the
\* totals of the dividends they are derived from, each once.
LEMMA PaymentsSum ==
  ASSUME ServiceInv, LedgerInv
  PROVE  LET paid == {j.source[1] : j \in OfLeg("pay")} IN
         /\ IsFiniteSet(OfLeg("pay")) /\ paid \subseteq OnTheTable
         /\ SetSum(Nets("dividend_payable"), OfLeg("pay")) = SetSum(TotalAmounts, paid)
         /\ SetSum(Nets("bank"), OfLeg("pay")) = - SetSum(TotalAmounts, paid)
<1> DEFINE P == OfLeg("pay")
           h == [j \in P |-> j.source[1]]
           payable == Nets("dividend_payable")
           bank == Nets("bank")
           paid == {j.source[1] : j \in P}
<1>1. IsFiniteSet(P)
  BY FS_Subset DEF LedgerInv, OfLeg
<1>2. ASSUME NEW j \in P
      PROVE  /\ h[j] = j.source[1] /\ j.source = Derived(h[j]) /\ h[j] \in OnTheTable
             /\ payable[j] \in Int /\ TotalAmounts[h[j]] = payable[j]
             /\ bank[j] = - payable[j]
  <2>1. h[j] = j.source[1] /\ j \in gl /\ j.leg = "pay"
    BY DEF OfLeg
  <2> HIDE DEF h, P
  <2>2. /\ h[j] \in Call /\ j.source = Derived(h[j]) /\ Exists(h[j])
        /\ PaySays(j, dividends[h[j]].total_amount)
    BY <2>1, WhoseJournal, Zenon
  <2>3. h[j] \in OnTheTable
    BY <2>2, Zenon DEF OnTheTable
  <2>4. PICK n : n = dividends[h[j]].total_amount
    OBVIOUS
  <2>5. n \in Int /\ TotalAmounts[h[j]] = n
    BY <2>3, <2>4, AmountsAreNumbers
  <2>6. payable[j] = n /\ bank[j] = - n
    BY <2>1, <2>2, <2>4, AmountsAreNumbers DEF PaySays
  <2>7. QED BY <2>1, <2>2, <2>3, <2>5, <2>6
<1>3. \A i, j \in P : h[i] = h[j] => i = j
  <2>1. \A j \in P : j \in gl
    BY DEF OfLeg
  <2> HIDE DEF h, P
  <2>2. \A j \in P : j.source = Derived(h[j])
    BY <1>2
  <2>3. ASSUME NEW i \in P, NEW j \in P, h[i] = h[j] PROVE i = j
    <3>1. i.source = j.source
      BY <2>2, <2>3
    <3>2. QED BY <2>1, <3>1 DEF LedgerInv, OneJournalASource
  <2>4. QED BY <2>3
<1>4. {h[j] : j \in P} = paid
  BY <1>2, Zenon
<1> HIDE DEF P, h, payable, bank, paid
<1>5. SetSum(TotalAmounts, {h[j] : j \in P}) = SetSum(payable, P)
  BY <1>1, <1>2, <1>3, SetSumReindex
<1>6. SetSum(bank, P) = - SetSum(payable, P)
  BY <1>1, <1>2, SetSumNegate
<1>7. paid \subseteq OnTheTable
  BY <1>2, <1>4
<1>8. QED BY <1>1, <1>4, <1>5, <1>6, <1>7, Zenon DEF P, payable, bank, paid

\* Over all dividends the ledger has remitted at most what was declared, even
\* when a payment crashed after its posting and another call paid again.
THEOREM CashFollowsTheTable == ServiceSpec => []NeverRemitsMoreThanDeclared
<1>1. ServiceInv /\ LedgerInv => NeverRemitsMoreThanDeclared
  <2> SUFFICES ASSUME ServiceInv, LedgerInv PROVE NeverRemitsMoreThanDeclared
    OBVIOUS
  <2> DEFINE paid == {j.source[1] : j \in OfLeg("pay")}
  <2>1. /\ paid \subseteq OnTheTable
        /\ SetSum(Nets("bank"), OfLeg("pay")) = - SetSum(TotalAmounts, paid)
    BY PaymentsSum
  <2>2. Booked({"pay"}, "bank") = SetSum(Nets("bank"), OfLeg("pay"))
    <3>1. {j \in gl : j.leg \in {"pay"}} = OfLeg("pay")
      BY DEF OfLeg
    <3>2. Booked({"pay"}, "bank") = SetSum(Nets("bank"), {j \in gl : j.leg \in {"pay"}})
      BY AmountsAreNumbers, BookedIsSetSum DEF LedgerInv
    <3>3. QED BY <3>1, <3>2, Zenon
  <2>3. MapThenSumSet(LAMBDA d : dividends[d].total_amount, {d \in Call : Exists(d)})
          = SetSum(TotalAmounts, OnTheTable)
    BY AmountsAreNumbers, TableIsSetSum
  <2>4. /\ IsFiniteSet(OnTheTable) /\ IsFiniteSet(paid)
        /\ \A d \in OnTheTable : TotalAmounts[d] \in Int /\ TotalAmounts[d] >= 0
    BY <2>1, AmountsAreNumbers, FS_Subset
  <2> HIDE DEF paid
  <2>5. /\ SetSum(TotalAmounts, paid) <= SetSum(TotalAmounts, OnTheTable)
        /\ SetSum(TotalAmounts, paid) \in Int
    BY <2>1, <2>4, SetSumSubset, SetSumType
  <2>6. - Booked({"pay"}, "bank") <= SetSum(TotalAmounts, OnTheTable)
    BY <2>1, <2>2, <2>5
  <2>7. QED BY <2>3, <2>6, Zenon DEF NeverRemitsMoreThanDeclared
<1>2. QED BY <1>1, ServiceInvariant, LedgerInvariant, PTL

\* Once every declaration that posted has its row, the declarations booked have
\* put the totals on the table into the payable, each once.
LEMMA DeclarationsSum ==
  ASSUME ServiceInv, LedgerInv,
         \A k \in Call : req[k] # NoRequest /\ req[k].verb = "declare" =>
           (JournalsOf(k) # {} => Exists(k))
  PROVE  /\ IsFiniteSet(OfLeg("declare"))
         /\ SetSum(Nets("dividend_payable"), OfLeg("declare"))
              = - SetSum(TotalAmounts, OnTheTable)
<1> DEFINE D == OfLeg("declare")
           h == [j \in D |-> j.source[1]]
           payable == Nets("dividend_payable")
           declared == [j \in D |-> - payable[j]]
<1>1. IsFiniteSet(D)
  BY FS_Subset DEF LedgerInv, OfLeg
<1>2. ASSUME NEW j \in D
      PROVE  /\ j \in gl /\ j.source = Minted(h[j]) /\ h[j] \in OnTheTable
             /\ payable[j] \in Int /\ declared[j] \in Int
             /\ TotalAmounts[h[j]] = declared[j] /\ payable[j] = - declared[j]
  <2>1. h[j] = j.source[1] /\ j \in gl /\ j.leg = "declare" /\ declared[j] = - payable[j]
    BY DEF OfLeg
  <2> HIDE DEF h, D, declared
  <2>2. /\ h[j] \in Call /\ j.source = Minted(h[j]) /\ req[h[j]] \in DeclareDividend
        /\ DeclareSays(j, total[h[j]])
    BY <2>1, WhoseJournal, Zenon
  <2>3. j \in JournalsOf(h[j])
    BY <2>1, <2>2, Zenon DEF JournalsOf
  <2>4. req[h[j]] # NoRequest /\ req[h[j]].verb = "declare"
    BY <2>2 DEF DeclareDividend, NoRequest
  <2>5. h[j] \in OnTheTable
    BY <2>2, <2>3, <2>4, Zenon DEF OnTheTable
  <2>6. PICK n : n = total[h[j]]
    OBVIOUS
  <2>7. n \in Int /\ TotalAmounts[h[j]] = n
    BY <2>5, <2>6, AmountsAreNumbers
  <2>8. payable[j] = - n
    BY <2>1, <2>2, <2>6, AmountsAreNumbers DEF DeclareSays
  <2>9. QED BY <2>1, <2>2, <2>5, <2>7, <2>8
<1>3. \A i, j \in D : h[i] = h[j] => i = j
  <2> HIDE DEF h, D, declared
  <2>1. \A j \in D : j \in gl /\ j.source = Minted(h[j])
    BY <1>2
  <2>2. ASSUME NEW i \in D, NEW j \in D, h[i] = h[j] PROVE i = j
    <3>1. i.source = j.source
      BY <2>1, <2>2
    <3>2. QED BY <2>1, <3>1 DEF LedgerInv, OneJournalASource
  <2>3. QED BY <2>2
<1>4. {h[j] : j \in D} = OnTheTable
  <2>1. ASSUME NEW d \in OnTheTable PROVE \E j \in D : h[j] = d
    <3>1. d \in Call /\ Exists(d) /\ req[d] \in DeclareDividend
      BY <2>1 DEF OnTheTable, ServiceInv, DividendInv, RowsAreDeclared
    <3>2. PICK j \in gl : j.source = Minted(d)
      BY <3>1 DEF LedgerInv, DeclaredIsPosted, Booking
    <3>3. j.leg = "declare"
      BY <3>1, <3>2 DEF LedgerInv, MintedLegs, DeclareSays
    <3>4. j \in D /\ h[j] = d
      BY <3>2, <3>3, SourcesDiffer DEF OfLeg
    <3>5. QED BY <3>4
  <2> HIDE DEF h, D, declared
  <2>2. QED BY <1>2, <2>1
<1> HIDE DEF D, h, payable, declared
<1>5. SetSum(TotalAmounts, {h[j] : j \in D}) = SetSum(declared, D)
  BY <1>1, <1>2, <1>3, SetSumReindex
<1>6. SetSum(payable, D) = - SetSum(declared, D)
  BY <1>1, <1>2, SetSumNegate
<1>7. QED BY <1>1, <1>4, <1>5, <1>6, Zenon DEF D, payable

\* A company whose declarations all ended well and whose dividends are all paid
\* has nothing left in the dividend payable.
THEOREM PayableComesToZero == ServiceSpec => []PayableSettles
<1>1. ServiceInv /\ LedgerInv => PayableSettles
  <2> DEFINE Settled ==
        /\ \A k \in Call : (req[k] # NoRequest /\ req[k].verb = "declare") =>
             (JournalsOf(k) # {} => Exists(k))
        /\ \A d \in Call : Exists(d) => dividends[d].status = "paid"
  <2> SUFFICES ASSUME ServiceInv, LedgerInv, Settled
               PROVE  Booked(DividendVerb, "dividend_payable") = 0
    BY Zenon DEF PayableSettles
  <2> DEFINE P == OfLeg("pay")
             D == OfLeg("declare")
             payable == Nets("dividend_payable")
             paid == {j.source[1] : j \in P}
  <2>1. /\ IsFiniteSet(D)
        /\ SetSum(payable, D) = - SetSum(TotalAmounts, OnTheTable)
    BY DeclarationsSum
  <2>2. /\ IsFiniteSet(P) /\ paid \subseteq OnTheTable
        /\ SetSum(payable, P) = SetSum(TotalAmounts, paid)
    BY PaymentsSum
  <2>3. paid = OnTheTable
    <3>1. ASSUME NEW d \in OnTheTable PROVE d \in paid
      <4>1. d \in Call /\ dividends[d].status = "paid"
        BY <3>1 DEF OnTheTable
      <4>2. PICK j \in gl : j.source = Derived(d)
        BY <4>1 DEF LedgerInv, PaidIsPosted, Booking
      <4>3. j.leg = "pay"
        BY <4>1, <4>2 DEF LedgerInv, DerivedLegs, PaySays
      <4>4. j \in P /\ j.source[1] = d
        BY <4>2, <4>3, SourcesDiffer DEF OfLeg
      <4>5. QED BY <4>4
    <3> HIDE DEF paid
    <3>2. QED BY <2>2, <3>1
  <2>4. Booked(DividendVerb, "dividend_payable") = SetSum(payable, P \cup D)
    <3>1. {j \in gl : j.leg \in DividendVerb} = P \cup D
      BY DEF OfLeg, DividendVerb
    <3>2. Booked(DividendVerb, "dividend_payable")
            = SetSum(payable, {j \in gl : j.leg \in DividendVerb})
      BY AmountsAreNumbers, BookedIsSetSum DEF LedgerInv
    <3>3. QED BY <3>1, <3>2, Zenon
  <2>5. P \cap D = {} /\ \A j \in P \cup D : payable[j] \in Int
    <3>1. P \cap D = {} /\ P \cup D \subseteq gl
      BY DEF OfLeg
    <3> HIDE DEF P, D
    <3>2. \A j \in gl : payable[j] \in Int
      BY AmountsAreNumbers
    <3>3. QED BY <3>1, <3>2
  <2>6. SetSum(TotalAmounts, OnTheTable) \in Int
    BY AmountsAreNumbers, SetSumType
  <2> HIDE DEF P, D, payable, paid, Settled
  <2>7. SetSum(payable, P \cup D) = SetSum(payable, P) + SetSum(payable, D)
    <3>1. IsFiniteSet(P) /\ IsFiniteSet(D) /\ P \cap D = {}
      BY <2>1, <2>2, <2>5
    <3>2. QED BY <2>5, <3>1, SetSumUnion
  <2>8. SetSum(payable, P) = SetSum(TotalAmounts, OnTheTable)
    BY <2>2, <2>3, Zenon
  <2>9. SetSum(payable, P) + SetSum(payable, D) = 0
    BY <2>1, <2>6, <2>8
  <2>10. QED BY <2>4, <2>7, <2>9, Zenon
<1>2. QED BY <1>1, ServiceInvariant, LedgerInvariant, PTL

-----------------------------------------------------------------------------
(* What the outbox says of the dividends.                                  *)

DividendEventType == {"DividendDeclared", "DividendPaid"}

\* Record i tells a dividend's declaration, or its payment.
Tells(i, type, d) == outbox[i].event.type = type /\ outbox[i].event.dividend = d

\* A dividend is told of once a kind, exactly if it is there, and if it is paid.
EventsAreOnce ==
  \A type \in DividendEventType, d \in Call, i, j \in 1 .. Len(outbox) :
    Tells(i, type, d) /\ Tells(j, type, d) => i = j
DeclaredIsTold ==
  \A d \in Call : Exists(d) <=> \E i \in 1 .. Len(outbox) : Tells(i, "DividendDeclared", d)
PaidIsTold ==
  \A d \in Call : dividends[d].status = "paid" <=>
                    \E i \in 1 .. Len(outbox) : Tells(i, "DividendPaid", d)

\* A payment's record, and the stamp of a payment about to commit, come after the
\* declaration's.
PaymentComesAfter ==
  \A d \in Call, i, j \in 1 .. Len(outbox) :
    Tells(i, "DividendDeclared", d) /\ Tells(j, "DividendPaid", d) =>
      outbox[i].at < outbox[j].at
PaymentIsStamped ==
  \A k \in Call, i \in 1 .. Len(outbox) :
    Claimed(k) /\ pc[k] = "commit" /\ Tells(i, "DividendDeclared", req[k].dividend) =>
      outbox[i].at < stamp[k]

\* A payment's record tells the dividend's total.
PaidTellsTotal ==
  \A d \in Call, i \in 1 .. Len(outbox) :
    Tells(i, "DividendPaid", d) => outbox[i].event.total = dividends[d].total_amount

EventsInv ==
  /\ Stamped
  /\ EventsAreOnce
  /\ DeclaredIsTold
  /\ PaidIsTold
  /\ PaymentComesAfter
  /\ PaymentIsStamped
  /\ PaidTellsTotal

\* A call commits what it staged: a record of its own stamp, at the end.
RecordsOf(k, event) ==
  /\ pc[k] = "commit" /\ Advance(k) /\ req' = req /\ clock' = clock /\ stamp' = stamp
  /\ outbox' = Append(outbox, [call |-> k, at |-> stamp[k], event |-> event])

\* Every step takes no time and tells nothing, or stamps a record, or tells a
\* movement or a dividend.
LEMMA TellingStep ==
  ASSUME ServiceInv, [ServiceNext]_serviceVars
  PROVE  \/ Untimed /\ dividends' = dividends
         \/ \E k \in Call :
              \/ Stages(k) /\ dividends' = dividends
              \/ /\ \E e \in EquityEvent : RecordsOf(k, e) /\ e.type \notin DividendEventType
                 /\ dividends' = dividends
              \/ RecordsOf(k, DividendEvent(k)) /\ (Declares(k) \/ Pays(k))
<1> USE DEF ServiceInv, ServiceTypeOK
<1>1. CASE [RegisterNext]_registerVars /\ UNCHANGED dividendVars
  <2>1. dividends' = dividends
    BY <1>1 DEF dividendVars
  <2>2. ASSUME NEW k \in Call, Records(k)
        PROVE  \E e \in EquityEvent : RecordsOf(k, e) /\ e.type \notin DividendEventType
    <3>1. req[k] \in Movement
      <4>1. req[k] \in Request /\ req[k].verb \in MovementVerb
        BY <2>2, AdvanceShape DEF Records, Commits, Await
      <4>2. QED BY <4>1, DividendByVerb DEF Request
    <3>2. Event(k) \in SharesIssued \cup SharesTransferred \cup SharesBoughtBack
      BY <3>1, EventType
    <3>3. Event(k) \in EquityEvent /\ Event(k).type \notin DividendEventType
      BY <3>2 DEF EquityEvent, SharesIssued, SharesTransferred, SharesBoughtBack,
                  DividendEventType
    <3>4. QED BY <2>2, <3>3 DEF Records, Commits, RecordsOf
  <2>3. QED BY <1>1, <2>1, <2>2, TimeStep
<1>2. ASSUME NEW k \in Call, DividendStep(k)
      PROVE  \/ Untimed /\ dividends' = dividends
             \/ RecordsOf(k, DividendEvent(k)) /\ (Declares(k) \/ Pays(k))
  <2>1. /\ req' = req /\ register' = register /\ clock' = clock /\ stamp' = stamp
        /\ req[k].verb \in {"declare", "pay"}
    BY <1>2, DividendShape DEF DividendVerb
  <2>2. Refuse(k) => \A i \in Call : pc'[i] = "commit" => pc[i] = "commit"
    BY DEF Refuse, TypeOK
  <2>3. Advance(k) /\ pc[k] \in Await \ {"stage", "publish"} =>
          \A i \in Call : pc'[i] = "commit" => pc[i] = "commit"
    BY AdvanceShape, CommitFollowsStage
  <2>4. {"outstanding", "fetch", "claim", "post", "insert"} \subseteq Await \ {"stage", "publish"}
    BY DEF Await
  <2>5. CASE read_outstanding(k)
    BY <2>1, <2>2, <2>3, <2>4, <2>5 DEF read_outstanding, Untimed
  <2>6. CASE fetch_for_payment(k)
    BY <2>1, <2>2, <2>3, <2>4, <2>6 DEF fetch_for_payment, Untimed
  <2>7. CASE claim_payment(k)
    BY <2>1, <2>2, <2>3, <2>4, <2>7 DEF claim_payment, Untimed, dividendVars
  <2>8. CASE post_dividend(k)
    BY <2>1, <2>2, <2>3, <2>4, <2>8 DEF post_dividend, Post, Untimed, dividendVars
  <2>9. CASE insert_dividend(k)
    BY <2>1, <2>3, <2>4, <2>9 DEF insert_dividend, Untimed, dividendVars
  <2>10. CASE commit_dividend(k)
    BY <2>1, <2>10 DEF commit_dividend, CommitOutbox, RecordsOf, Declares, Pays
  <2>11. QED BY <1>2, <2>5, <2>6, <2>7, <2>8, <2>9, <2>10 DEF DividendStep
<1>3. QED BY <1>1, <1>2, ServiceStepKinds

\* Nothing is told of an empty database.
LEMMA EventsInvInit ==
  ASSUME ServiceInit
  PROVE  EventsInv
<1>1. /\ outbox = << >> /\ Len(outbox) = 0 /\ clock = 0
      /\ \A k \in Call : stamp[k] = 0 /\ dividends[k] = NoDividend
  BY DEF ServiceInit, RegisterInit, HubInit
<1>2. 1 .. Len(outbox) = {}
  BY <1>1
<1>3. \A d \in Call : ~ Exists(d) /\ dividends[d].status # "paid"
  BY <1>1 DEF Exists, NoDividend
<1>4. Stamped
  BY <1>1, <1>2 DEF Stamped
<1>5. QED
  BY <1>2, <1>3, <1>4
     DEF EventsInv, EventsAreOnce, DeclaredIsTold, PaidIsTold, PaymentComesAfter,
         PaymentIsStamped, PaidTellsTotal

\* A step that tells nothing keeps what was told, if a payment it brings to its
\* commit is stamped later than everything told.
LEMMA SilentStep ==
  ASSUME EventsInv, outbox' = outbox, dividends' = dividends, Stamped',
         \A k \in Call : Claimed(k)' /\ pc'[k] = "commit" =>
           \/ Claimed(k) /\ pc[k] = "commit" /\ req'[k] = req[k] /\ stamp'[k] = stamp[k]
           \/ \A i \in 1 .. Len(outbox) : outbox[i].at < stamp'[k]
  PROVE  EventsInv'
<1>1. EventsAreOnce' /\ PaymentComesAfter'
  BY DEF EventsInv, EventsAreOnce, PaymentComesAfter, Tells
<1>2. DeclaredIsTold' /\ PaidIsTold'
  BY DEF EventsInv, DeclaredIsTold, PaidIsTold, Tells, Exists
<1>3. PaidTellsTotal'
  BY DEF EventsInv, PaidTellsTotal, Tells
<1>4. PaymentIsStamped'
  BY DEF EventsInv, PaymentIsStamped, Tells
<1>5. QED BY <1>1, <1>2, <1>3, <1>4 DEF EventsInv

\* The outbox after a commit: one more record, of the committing call.
LEMMA OutboxGrows ==
  ASSUME ServiceTypeOK, Stamped, NEW k \in Call, NEW event \in EquityEvent,
         RecordsOf(k, event)
  PROVE  LET new == Len(outbox) + 1 IN
         /\ new \in 1 .. Len(outbox') /\ new \notin 1 .. Len(outbox)
         /\ outbox'[new].event = event /\ outbox'[new].at = stamp[k]
         /\ \A i \in 1 .. Len(outbox') : i \in 1 .. Len(outbox) \/ i = new
         /\ \A i \in 1 .. Len(outbox) : i \in 1 .. Len(outbox') /\ outbox'[i] = outbox[i]
         /\ stamp[k] \in Nat
         /\ Stamped'
         /\ \A i \in Call : pc'[i] = "commit" => i # k /\ pc[i] = "commit"
         /\ \A i \in Call : Claimed(i)' /\ pc'[i] = "commit" => Claimed(i)
<1> USE DEF ServiceTypeOK
<1> DEFINE rec == [call |-> k, at |-> stamp[k], event |-> event]
           new == Len(outbox) + 1
<1>1. /\ outbox \in Seq(OutboxRecord) /\ Len(outbox) \in Nat /\ stamp[k] \in Nat
      /\ outbox' = Append(outbox, rec)
  BY DEF TypeOK, RecordsOf
<1>2. rec.event = event /\ rec.at = stamp[k] /\ rec \in OutboxRecord
  BY <1>1 DEF OutboxRecord
<1> HIDE DEF rec
<1>3. /\ Len(outbox') = new /\ outbox'[new] = rec
      /\ \A i \in 1 .. Len(outbox) : outbox'[i] = outbox[i]
  BY <1>1, <1>2
<1>4. /\ new \in 1 .. Len(outbox') /\ new \notin 1 .. Len(outbox)
      /\ \A i \in 1 .. Len(outbox') : i \in 1 .. Len(outbox) \/ i = new
      /\ \A i \in 1 .. Len(outbox) : i \in 1 .. Len(outbox')
  BY <1>1, <1>3
<1>5. Stamped'
  <2>1. clock' = clock /\ stamp' = stamp
    BY DEF RecordsOf
  <2>2. \A i \in 1 .. Len(outbox') : outbox'[i].at <= clock
    BY <1>2, <1>3, <1>4 DEF Stamped
  <2>3. QED BY <2>1, <2>2 DEF Stamped
<1>6. \A i \in Call : pc'[i] = "commit" => i # k /\ pc[i] = "commit"
  <2>1. /\ req[k] \in Request /\ pc[k] \in DOMAIN Awaits[req[k].verb] /\ pc[k] = "commit"
        /\ pc'[k] = Awaits[req[k].verb][pc[k]]
        /\ \A i \in Call \ {k} : pc'[i] = pc[i]
    BY AdvanceShape DEF RecordsOf, Await
  <2>2. pc'[k] = "publish"
    BY <2>1, DividendFollows
  <2>3. QED BY <2>1, <2>2
<1>7. \A i \in Call : Claimed(i)' /\ pc'[i] = "commit" => Claimed(i)
  BY <1>6 DEF Claimed, RecordsOf
<1>8. QED BY <1>1, <1>2, <1>3, <1>4, <1>5, <1>6, <1>7

\* A movement that commits tells nothing of a dividend.
LEMMA MovementTells ==
  ASSUME ServiceTypeOK, EventsInv, NEW k \in Call, NEW event \in EquityEvent,
         RecordsOf(k, event), event.type \notin DividendEventType, dividends' = dividends
  PROVE  EventsInv'
<1> USE DEF EventsInv
<1> DEFINE new == Len(outbox) + 1
<1>1. /\ \A i \in 1 .. Len(outbox') : i \in 1 .. Len(outbox) \/ i = new
      /\ \A i \in 1 .. Len(outbox) : i \in 1 .. Len(outbox') /\ outbox'[i] = outbox[i]
      /\ outbox'[new].event = event
      /\ Stamped'
  BY OutboxGrows
<1>2. /\ \A i \in Call : Claimed(i)' /\ pc'[i] = "commit" => Claimed(i) /\ pc[i] = "commit"
      /\ req' = req /\ stamp' = stamp
  BY OutboxGrows DEF RecordsOf
<1>3. \A d : \A i \in 1 .. Len(outbox'), type \in DividendEventType :
        Tells(i, type, d)' => i \in 1 .. Len(outbox) /\ Tells(i, type, d)
  BY <1>1 DEF Tells
<1>4. \A type, d : \A i \in 1 .. Len(outbox) : Tells(i, type, d) => Tells(i, type, d)'
  BY <1>1 DEF Tells
<1>5. {"DividendDeclared", "DividendPaid"} \subseteq DividendEventType
  BY DEF DividendEventType
<1> HIDE DEF new
<1>6. EventsAreOnce'
  BY <1>3 DEF EventsAreOnce
<1>7. DeclaredIsTold' /\ PaidIsTold'
  BY <1>1, <1>3, <1>4, <1>5 DEF DeclaredIsTold, PaidIsTold, Exists
<1>8. PaymentComesAfter' /\ PaidTellsTotal'
  BY <1>1, <1>3, <1>5 DEF PaymentComesAfter, PaidTellsTotal
<1>9. PaymentIsStamped'
  BY <1>1, <1>2, <1>3, <1>5 DEF PaymentIsStamped
<1>10. QED BY <1>1, <1>6, <1>7, <1>8, <1>9

\* A declaration that commits is told as its row goes in, for the first time.
LEMMA DeclarationTells ==
  ASSUME ServiceInv, EventsInv, NEW k \in Call,
         RecordsOf(k, DividendEvent(k)), Declares(k)
  PROVE  EventsInv'
<1> USE DEF ServiceInv, EventsInv
<1>0. PICK new : new = Len(outbox) + 1
  OBVIOUS
<1>1. /\ ~ Exists(k) /\ dividends'[k] = NewDividendRow(k)
      /\ \A d \in Call \ {k} : dividends'[d] = dividends[d]
  BY DeclaresKeep
<1>2. /\ DividendEvent(k) \in EquityEvent
      /\ DividendEvent(k).type = "DividendDeclared" /\ DividendEvent(k).dividend = k
  <2>1. req[k] \in DeclareDividend /\ total[k] \in Int
    BY DividendAwaits DEF Declares, ServiceTypeOK, Await
  <2>2. DividendEvent(k) \in EquityEvent
    BY <2>1, DividendWritesType DEF ServiceTypeOK
  <2>3. QED BY <2>2 DEF DividendEvent, Declares
<1>3. /\ new \in 1 .. Len(outbox') /\ new \notin 1 .. Len(outbox)
      /\ \A i \in 1 .. Len(outbox') : i \in 1 .. Len(outbox) \/ i = new
      /\ \A i \in 1 .. Len(outbox) : i \in 1 .. Len(outbox') /\ outbox'[i] = outbox[i]
      /\ outbox'[new].event = DividendEvent(k)
      /\ Stamped'
  BY <1>0, <1>2, OutboxGrows
<1>4. /\ \A i \in Call : Claimed(i)' /\ pc'[i] = "commit" => Claimed(i) /\ pc[i] = "commit"
      /\ req' = req /\ stamp' = stamp
  BY <1>2, OutboxGrows DEF RecordsOf
<1>5. Tells(new, "DividendDeclared", k)'
      /\ \A type, d : Tells(new, type, d)' => type = "DividendDeclared" /\ d = k
  BY <1>2, <1>3 DEF Tells
<1>6. \A type, d : \A i \in 1 .. Len(outbox) : Tells(i, type, d)' <=> Tells(i, type, d)
  BY <1>3 DEF Tells
<1>7. \A i \in 1 .. Len(outbox) : /\ ~ Tells(i, "DividendDeclared", k)
                                  /\ ~ Tells(i, "DividendPaid", k)
  <2>1. dividends[k].status # "paid"
    BY <1>1 DEF Exists
  <2>2. QED BY <1>1, <2>1 DEF DeclaredIsTold, PaidIsTold
<1>8. \A d \in Call : Exists(d)' <=> Exists(d) \/ d = k
  BY <1>1 DEF Exists, NewDividendRow
<1>9. \A d \in Call : /\ dividends'[d].status = "paid" <=> dividends[d].status = "paid"
                      /\ d # k => dividends'[d].total_amount = dividends[d].total_amount
  BY <1>1 DEF Exists, NewDividendRow
<1>10. EventsAreOnce'
  BY <1>3, <1>5, <1>6, <1>7 DEF EventsAreOnce
<1>11. DeclaredIsTold' /\ PaidIsTold'
  <2>1. DeclaredIsTold'
    BY <1>3, <1>5, <1>6, <1>8 DEF DeclaredIsTold
  <2>2. ASSUME NEW d \in Call
        PROVE  (\E i \in 1 .. Len(outbox') : Tells(i, "DividendPaid", d)')
                 <=> \E i \in 1 .. Len(outbox) : Tells(i, "DividendPaid", d)
    BY <1>3, <1>5, <1>6
  <2>3. PaidIsTold'
    BY <1>9, <2>2 DEF PaidIsTold
  <2>4. QED BY <2>1, <2>3
<1>12. PaymentComesAfter'
  BY <1>3, <1>5, <1>6, <1>7 DEF PaymentComesAfter
<1>13. PaidTellsTotal'
  <2>1. ASSUME NEW d \in Call, NEW i \in 1 .. Len(outbox'), Tells(i, "DividendPaid", d)'
        PROVE  outbox'[i].event.total = dividends'[d].total_amount
    <3>1. i \in 1 .. Len(outbox) /\ Tells(i, "DividendPaid", d) /\ outbox'[i] = outbox[i]
      BY <1>3, <1>5, <1>6, <2>1
    <3>2. dividends'[d].total_amount = dividends[d].total_amount
      BY <1>7, <1>9, <3>1
    <3>3. QED BY <3>1, <3>2 DEF PaidTellsTotal
  <2>2. QED BY <2>1 DEF PaidTellsTotal
<1>14. PaymentIsStamped'
  <2>1. \A i \in Call : Claimed(i) => req[i].dividend # k
    BY <1>1 DEF DividendInv, ClaimsAreLocked, Exists
  <2>2. QED BY <1>3, <1>4, <1>5, <1>6, <2>1 DEF PaymentIsStamped
<1>15. QED BY <1>3, <1>10, <1>11, <1>12, <1>13, <1>14

\* A payment that commits is told as the row is flipped, for the first time, after
\* the declaration and at its total.
LEMMA PaymentTells ==
  ASSUME ServiceInv, EventsInv, NEW k \in Call,
         RecordsOf(k, DividendEvent(k)), Pays(k)
  PROVE  EventsInv'
<1> USE DEF ServiceInv, EventsInv, RegisterInv
<1>0. PICK new : new = Len(outbox) + 1
  OBVIOUS
<1>1. PICK p \in Call : p = req[k].dividend
  BY PaysKeep
<1>2. /\ Claimed(k) /\ pc[k] = "commit"
      /\ dividends[p].status = "declared" /\ dividends'[p].status = "paid"
      /\ dividends'[p].total_amount = dividends[p].total_amount
      /\ \A d \in Call \ {p} : dividends'[d] = dividends[d]
  BY <1>1, PaysKeep DEF Pays
<1>3. /\ DividendEvent(k) \in EquityEvent
      /\ DividendEvent(k).type = "DividendPaid" /\ DividendEvent(k).dividend = p
      /\ DividendEvent(k).total = dividends[p].total_amount
  <2>1. req[k] \in PayDividend /\ total[k] \in Int
    BY <1>2 DEF Claimed, ServiceTypeOK
  <2>2. DividendEvent(k) \in EquityEvent
    BY <2>1, DividendWritesType DEF ServiceTypeOK
  <2>3. total[k] = dividends[p].total_amount
    BY <1>1, <1>2 DEF DividendInv, PaymentsAgree, Fetched, Claimed
  <2>4. QED BY <1>1, <2>2, <2>3 DEF DividendEvent, Pays
<1>4. /\ new \in 1 .. Len(outbox') /\ new \notin 1 .. Len(outbox)
      /\ \A i \in 1 .. Len(outbox') : i \in 1 .. Len(outbox) \/ i = new
      /\ \A i \in 1 .. Len(outbox) : i \in 1 .. Len(outbox') /\ outbox'[i] = outbox[i]
      /\ outbox'[new].event = DividendEvent(k) /\ outbox'[new].at = stamp[k]
      /\ Stamped'
  BY <1>0, <1>3, OutboxGrows
<1>5. /\ \A i \in Call : Claimed(i)' /\ pc'[i] = "commit" => Claimed(i) /\ pc[i] = "commit"
      /\ req' = req /\ stamp' = stamp
  BY <1>3, OutboxGrows DEF RecordsOf
<1>6. Tells(new, "DividendPaid", p)'
      /\ \A type, d : Tells(new, type, d)' => type = "DividendPaid" /\ d = p
  BY <1>3, <1>4 DEF Tells
<1>7. \A type, d : \A i \in 1 .. Len(outbox) : Tells(i, type, d)' <=> Tells(i, type, d)
  BY <1>4 DEF Tells
<1>8. \A i \in 1 .. Len(outbox) : ~ Tells(i, "DividendPaid", p)
  BY <1>2 DEF PaidIsTold
<1>9. \A d \in Call : /\ Exists(d)' <=> Exists(d)
                      /\ dividends'[d].status = "paid" <=> dividends[d].status = "paid" \/ d = p
                      /\ dividends'[d].total_amount = dividends[d].total_amount
  BY <1>2 DEF Exists
<1>10. \A i \in 1 .. Len(outbox) : Tells(i, "DividendDeclared", p) => outbox[i].at < stamp[k]
  BY <1>1, <1>2 DEF PaymentIsStamped
<1>11. EventsAreOnce'
  BY <1>4, <1>6, <1>7, <1>8 DEF EventsAreOnce
<1>12. DeclaredIsTold' /\ PaidIsTold'
  <2>1. ASSUME NEW d \in Call
        PROVE  /\ (\E i \in 1 .. Len(outbox') : Tells(i, "DividendDeclared", d)')
                    <=> \E i \in 1 .. Len(outbox) : Tells(i, "DividendDeclared", d)
               /\ (\E i \in 1 .. Len(outbox') : Tells(i, "DividendPaid", d)')
                    <=> d = p \/ \E i \in 1 .. Len(outbox) : Tells(i, "DividendPaid", d)
    BY <1>4, <1>6, <1>7
  <2>2. DeclaredIsTold'
    BY <1>9, <2>1 DEF DeclaredIsTold
  <2>3. PaidIsTold'
    BY <1>9, <2>1 DEF PaidIsTold
  <2>4. QED BY <2>2, <2>3
<1>13. PaymentComesAfter'
  BY <1>4, <1>6, <1>7, <1>10 DEF PaymentComesAfter
<1>14. PaidTellsTotal'
  <2>1. ASSUME NEW d \in Call, NEW i \in 1 .. Len(outbox'), Tells(i, "DividendPaid", d)'
        PROVE  outbox'[i].event.total = dividends'[d].total_amount
    <3>1. CASE i \in 1 .. Len(outbox)
      <4>1. Tells(i, "DividendPaid", d) /\ outbox'[i] = outbox[i]
        BY <1>4, <1>7, <2>1, <3>1
      <4>2. QED BY <1>9, <3>1, <4>1 DEF PaidTellsTotal
    <3>2. CASE i = new
      BY <1>3, <1>4, <1>6, <1>9, <2>1, <3>2
    <3>3. QED BY <1>4, <3>1, <3>2
  <2>2. QED BY <2>1 DEF PaidTellsTotal
<1>15. PaymentIsStamped'
  BY <1>4, <1>5, <1>6, <1>7 DEF PaymentIsStamped
<1>16. QED BY <1>4, <1>11, <1>12, <1>13, <1>14, <1>15

\* Every step of the service keeps what the outbox says of the dividends true.
LEMMA EventsInvStep ==
  ASSUME ServiceInv, EventsInv, [ServiceNext]_serviceVars
  PROVE  EventsInv'
<1> USE DEF ServiceInv, EventsInv
<1>1. CASE Untimed /\ dividends' = dividends
  <2>1. /\ outbox' = outbox /\ dividends' = dividends /\ stamp' = stamp /\ Stamped'
        /\ \A k \in Call : pc'[k] = "commit" => pc[k] = "commit" /\ req'[k] = req[k]
    BY <1>1 DEF Untimed, Stamped
  <2>2. \A k \in Call : Claimed(k)' /\ pc'[k] = "commit" =>
          Claimed(k) /\ pc[k] = "commit" /\ req'[k] = req[k] /\ stamp'[k] = stamp[k]
    BY <2>1 DEF Claimed
  <2>3. QED BY <2>1, <2>2, SilentStep
<1>2. ASSUME NEW k \in Call, Stages(k), dividends' = dividends
      PROVE  EventsInv'
  <2>1. /\ outbox' = outbox /\ req' = req /\ clock' = clock + 1
        /\ stamp'[k] = clock + 1 /\ clock \in Nat
        /\ \A i \in Call \ {k} : pc'[i] = pc[i] /\ stamp'[i] = stamp[i]
        /\ \A i \in Call : stamp[i] \in Nat
    BY <1>2 DEF Stages, Advance, ServiceTypeOK, TypeOK
  <2>2. \A i \in 1 .. Len(outbox) : outbox[i].at \in Nat /\ outbox[i].at <= clock
    <3>1. \A i \in 1 .. Len(outbox) : outbox[i] \in OutboxRecord
      BY DEF ServiceTypeOK, TypeOK
    <3>2. \A r \in OutboxRecord : r.at \in Nat
      BY DEF OutboxRecord
    <3>3. QED BY <3>1, <3>2 DEF Stamped
  <2>3. Stamped'
    BY <2>1, <2>2 DEF Stamped
  <2>4. \A i \in 1 .. Len(outbox) : outbox[i].at < stamp'[k]
    BY <2>1, <2>2
  <2>5. \A i \in Call \ {k} : Claimed(i)' /\ pc'[i] = "commit" =>
          Claimed(i) /\ pc[i] = "commit" /\ req'[i] = req[i] /\ stamp'[i] = stamp[i]
    BY <2>1 DEF Claimed
  <2>6. QED BY <1>2, <2>1, <2>3, <2>4, <2>5, SilentStep
<1>3. ASSUME NEW k \in Call, NEW e \in EquityEvent, RecordsOf(k, e),
             e.type \notin DividendEventType, dividends' = dividends
      PROVE  EventsInv'
  BY <1>3, MovementTells
<1>4. ASSUME NEW k \in Call, RecordsOf(k, DividendEvent(k)), Declares(k) \/ Pays(k)
      PROVE  EventsInv'
  BY <1>4, DeclarationTells, PaymentTells
<1>5. QED BY <1>1, <1>2, <1>3, <1>4, TellingStep

\* It holds in every state of the service.
LEMMA EventsInvariant == ServiceSpec => []EventsInv
<1>1. ServiceInit => EventsInv
  BY EventsInvInit
<1>2. ServiceInv /\ EventsInv /\ [ServiceNext]_serviceVars => EventsInv'
  BY EventsInvStep
<1>3. QED BY <1>1, <1>2, ServiceInvariant, PTL DEF ServiceSpec

\* The records of a kind about a dividend: the one that tells it, if it is told.
LEMMA EventsAreAtMostOne ==
  ASSUME EventsInv, NEW type \in DividendEventType, NEW d \in Call
  PROVE  /\ \A i : i \in EventsOf(type, d) <=> i \in 1 .. Len(outbox) /\ Tells(i, type, d)
         /\ \A i \in EventsOf(type, d) : EventsOf(type, d) = {i}
<1>1. \A i : i \in EventsOf(type, d) <=> i \in 1 .. Len(outbox) /\ Tells(i, type, d)
  BY DEF EventsOf, Tells
<1>2. \A i, j \in EventsOf(type, d) : i = j
  BY <1>1 DEF EventsInv, EventsAreOnce
<1>3. QED BY <1>1, <1>2

\* The outbox tells of each dividend exactly what the table says, once, and its
\* payment after its declaration.
THEOREM DividendsAreToldOnce == ServiceSpec => []DividendEventsMatch
<1>1. ServiceInv /\ EventsInv => DividendEventsMatch
  <2> SUFFICES ASSUME EventsInv, NEW d \in Call
               PROVE  /\ Cardinality(EventsOf("DividendDeclared", d)) =
                           IF Exists(d) THEN 1 ELSE 0
                      /\ Cardinality(EventsOf("DividendPaid", d)) =
                           IF dividends[d].status = "paid" THEN 1 ELSE 0
                      /\ \A i \in EventsOf("DividendDeclared", d),
                            j \in EventsOf("DividendPaid", d) : outbox[i].at < outbox[j].at
    BY Zenon DEF DividendEventsMatch
  <2>1. {"DividendDeclared", "DividendPaid"} \subseteq DividendEventType
    BY DEF DividendEventType
  <2>2. \A type \in DividendEventType :
          Cardinality(EventsOf(type, d)) = IF EventsOf(type, d) = {} THEN 0 ELSE 1
    <3>1. ASSUME NEW type \in DividendEventType, NEW i \in EventsOf(type, d)
          PROVE  Cardinality(EventsOf(type, d)) = 1
      <4>1. EventsOf(type, d) = {i}
        BY EventsAreAtMostOne
      <4>2. QED BY <4>1, FS_Singleton
    <3>2. Cardinality({}) = 0
      BY FS_EmptySet
    <3>3. QED BY <3>1, <3>2
  <2>3. /\ Exists(d) <=> EventsOf("DividendDeclared", d) # {}
        /\ dividends[d].status = "paid" <=> EventsOf("DividendPaid", d) # {}
    BY <2>1, EventsAreAtMostOne DEF EventsInv, DeclaredIsTold, PaidIsTold
  <2>4. \A i \in EventsOf("DividendDeclared", d), j \in EventsOf("DividendPaid", d) :
          outbox[i].at < outbox[j].at
    BY <2>1, EventsAreAtMostOne DEF EventsInv, PaymentComesAfter
  <2>5. QED BY <2>1, <2>2, <2>3, <2>4
<1>2. QED BY <1>1, ServiceInvariant, EventsInvariant, PTL

-----------------------------------------------------------------------------
(* The dividend verbs implement the abstract ledger.                       *)

\* What was remitted of a dividend, read off the outbox, is its total if it is paid
\* and nothing if it is not.
LEMMA RemittedIs ==
  ASSUME ServiceInv, EventsInv, NEW d \in Call
  PROVE  Remitted[d] = IF dividends[d].status = "paid" THEN dividends[d].total_amount ELSE 0
<1> DEFINE S == EventsOf("DividendPaid", d)
           f == [i \in S |-> outbox[i].event.total]
           Sums(r) == r = [T \in SUBSET S |->
                             IF T = {} THEN 0
                             ELSE outbox[CHOOSE x \in T : TRUE].event.total
                                    + r[T \ {CHOOSE x \in T : TRUE}]]
<1>1. "DividendPaid" \in DividendEventType
  BY DEF DividendEventType
<1>2. /\ \A i : i \in S <=> i \in 1 .. Len(outbox) /\ Tells(i, "DividendPaid", d)
      /\ \A i \in S : S = {i}
      /\ dividends[d].status = "paid" <=> S # {}
  BY <1>1, EventsAreAtMostOne DEF EventsInv, PaidIsTold
<1>3. \A i \in S : f[i] = dividends[d].total_amount /\ f[i] \in Int
  <2>1. ASSUME NEW i \in S PROVE f[i] = dividends[d].total_amount
    BY <1>2 DEF EventsInv, PaidTellsTotal
  <2>2. S # {} => dividends[d].total_amount \in Int
    <3>1. dividends[d].status = "paid" => d \in OnTheTable
      BY DEF OnTheTable, Exists
    <3> HIDE DEF S
    <3>2. QED BY <1>2, <3>1, AmountsAreNumbers
  <2> HIDE DEF S, f
  <2>3. QED BY <2>1, <2>2
<1>4. IsFiniteSet(S)
  <2> HIDE DEF S
  <2>1. CASE S = {}
    BY <2>1, FS_EmptySet
  <2>2. ASSUME NEW i \in S PROVE IsFiniteSet(S)
    <3>1. S = {i}
      BY <1>2, <2>2
    <3>2. QED BY <3>1, FS_Singleton
  <2>3. QED BY <2>1, <2>2
<1>5. SetSum(f, S) = IF dividends[d].status = "paid" THEN dividends[d].total_amount ELSE 0
  <2> HIDE DEF S, f
  <2>1. SetSum(f, {}) = 0
    BY SetSumEmpty
  <2>2. ASSUME NEW i \in S PROVE SetSum(f, S) = dividends[d].total_amount
    <3>1. S = {} \cup {i} /\ IsFiniteSet({}) /\ i \notin {} /\ f[i] \in Int
      BY <1>2, <1>3, FS_EmptySet
    <3>2. SetSum(f, {} \cup {i}) = SetSum(f, {}) + f[i]
      BY <3>1, SetSumAdd
    <3>3. SetSum(f, {} \cup {i}) = f[i]
      BY <2>1, <3>1, <3>2
    <3>4. QED BY <1>3, <3>1, <3>3
  <2>3. QED BY <1>2, <2>1, <2>2
<1>6. \A r : Sums(r) <=> IsSetSum(r, f, S)
  <2>1. \A T \in SUBSET S : T # {} =>
          f[CHOOSE x \in T : TRUE] = outbox[CHOOSE x \in T : TRUE].event.total
    OBVIOUS
  <2> HIDE DEF f, S
  <2>2. QED BY <2>1 DEF IsSetSum, Pick
<1>7. PICK r : IsSetSum(r, f, S)
  <2> HIDE DEF f, S
  <2>1. QED BY <1>3, <1>4, SetSumExists
<1> DEFINE q == CHOOSE s : Sums(s)
<1>8. Sums(q)
  <2>1. Sums(r)
    BY <1>6, <1>7
  <2> HIDE DEF Sums
  <2>2. QED BY <2>1
<1>9. q[S] = SetSum(f, S)
  <2>1. IsSetSum(q, f, S)
    BY <1>6, <1>8
  <2> HIDE DEF q, f, S
  <2>2. QED BY <1>4, <2>1, SetSumIs
<1>10. Remitted[d] = q[S]
  BY DEF Remitted, MapThenSumSet, MapThenFoldSet
<1>11. QED BY <1>5, <1>9, <1>10

\* What the abstract ledger has of each dividend, by its status.
LedgerReads ==
  /\ Owed \in [Call -> Int] /\ Remitted \in [Call -> Int]
  /\ \A d \in Call :
       /\ dividends[d].status = "absent" => Owed[d] = 0 /\ Remitted[d] = 0
       /\ dividends[d].status = "declared" =>
            /\ Owed[d] = dividends[d].total_amount /\ Owed[d] > 0
            /\ Remitted[d] = 0
       /\ dividends[d].status = "paid" =>
            /\ Owed[d] = 0
            /\ Remitted[d] = dividends[d].total_amount

\* The mapped state is what the statuses of the dividends say.
LEMMA LedgerIs ==
  ASSUME ServiceInv, EventsInv
  PROVE  LedgerReads
<1>1. \A d \in Call : dividends[d].status # "absent" =>
        dividends[d].total_amount \in Int /\ dividends[d].total_amount > 0
  BY AmountsAreNumbers DEF OnTheTable, Exists
<1>2. \A d \in Call : Owed[d] = IF dividends[d].status = "declared"
                                 THEN dividends[d].total_amount ELSE 0
  BY DEF Owed
<1>3. DOMAIN Owed = Call /\ DOMAIN Remitted = Call
      /\ Owed = [d \in Call |-> Owed[d]] /\ Remitted = [d \in Call |-> Remitted[d]]
  BY DEF Owed, Remitted
<1>4. \A d \in Call : Owed[d] \in Int /\ Remitted[d] \in Int
  BY <1>1, <1>2, RemittedIs
<1>5. Owed \in [Call -> Int] /\ Remitted \in [Call -> Int]
  BY <1>3, <1>4
<1>6. QED BY <1>1, <1>2, <1>5, RemittedIs DEF LedgerReads

\* A dividend's status is one of three.
LEMMA StatusIs ==
  ASSUME ServiceTypeOK, NEW d \in Call
  PROVE  dividends[d].status \in {"absent", "declared", "paid"}
BY DEF ServiceTypeOK, DividendRow, NoDividend

\* A step that leaves every dividend alone leaves the abstract ledger alone.
LEMMA LedgerStays ==
  ASSUME ServiceTypeOK, LedgerReads, LedgerReads', dividends' = dividends
  PROVE  Owed' = Owed /\ Remitted' = Remitted
<1>1. \A d \in Call : Remitted'[d] = Remitted[d] /\ Owed'[d] = Owed[d]
  BY StatusIs DEF LedgerReads
<1>2. Owed' = Owed
  BY <1>1 DEF LedgerReads
<1>3. Remitted' = Remitted
  BY <1>1 DEF LedgerReads
<1>4. QED BY <1>2, <1>3

\* Every step of the service is one of the abstract ledger, or none of its business.
LEMMA LedgerStep ==
  ASSUME ServiceInv, EventsInv, ServiceInv', EventsInv', [ServiceNext]_serviceVars
  PROVE  [Ledger!LedgerNext]_<< Owed, Remitted >>
<1> USE DEF ServiceInv
<1>1. LedgerReads
  BY LedgerIs
<1>2. LedgerReads'
  BY LedgerIs, PTL
<1>3. ASSUME NEW k \in Call, Declares(k)
      PROVE  Ledger!Declare(k)
  <2>1. /\ dividends[k].status = "absent" /\ dividends'[k].status = "declared"
        /\ \A d \in Call \ {k} : dividends'[d] = dividends[d]
    <3>1. /\ ~ Exists(k) /\ dividends'[k] = NewDividendRow(k)
          /\ \A d \in Call \ {k} : dividends'[d] = dividends[d]
      BY <1>3, DeclaresKeep
    <3>2. NewDividendRow(k).status = "declared"
      BY DEF NewDividendRow
    <3>3. QED BY <3>1, <3>2 DEF Exists
  <2>2. /\ Owed[k] = 0 /\ Remitted[k] = 0 /\ Owed'[k] > 0 /\ Remitted'[k] = 0
        /\ \A d \in Call \ {k} : Owed'[d] = Owed[d] /\ Remitted'[d] = Remitted[d]
    BY <1>1, <1>2, <2>1, StatusIs DEF LedgerReads
  <2>3. Owed' = [Owed EXCEPT ![k] = Owed'[k]]
    BY <1>1, <1>2, <2>2 DEF LedgerReads
  <2>4. Remitted' = Remitted
    BY <1>1, <1>2, <2>2 DEF LedgerReads
  <2>5. QED BY <2>2, <2>3, <2>4 DEF Ledger!Declare
<1>4. ASSUME NEW k \in Call, Pays(k)
      PROVE  req[k].dividend \in Call /\ Ledger!Pay(req[k].dividend)
  <2>1. PICK d \in Call : d = req[k].dividend
    BY <1>4, PaysKeep DEF RegisterInv
  <2>2. /\ dividends[d].status = "declared" /\ dividends'[d].status = "paid"
        /\ dividends'[d].total_amount = dividends[d].total_amount
        /\ \A e \in Call \ {d} : dividends'[e] = dividends[e]
    BY <1>4, <2>1, PaysKeep DEF RegisterInv
  <2>3. /\ Owed[d] > 0 /\ Remitted[d] = 0 /\ Owed'[d] = 0 /\ Remitted'[d] = Owed[d]
        /\ \A e \in Call \ {d} : Owed'[e] = Owed[e] /\ Remitted'[e] = Remitted[e]
        /\ Owed[d] \in Int
    BY <1>1, <1>2, <2>2, StatusIs DEF LedgerReads
  <2>4. Owed' = [Owed EXCEPT ![d] = 0]
    BY <1>1, <1>2, <2>3 DEF LedgerReads
  <2>5. Remitted' = [Remitted EXCEPT ![d] = @ + Owed[d]]
    BY <1>1, <1>2, <2>3 DEF LedgerReads
  <2>6. Ledger!Pay(d)
    BY <2>3, <2>4, <2>5 DEF Ledger!Pay
  <2>7. QED BY <2>1, <2>6, Zenon
<1>5. CASE dividends' = dividends
  BY <1>1, <1>2, <1>5, LedgerStays
<1>6. QED BY <1>3, <1>4, <1>5, TellingStep DEF Ledger!LedgerNext

\* The dividend verbs implement the abstract ledger: a dividend is declared once,
\* for a total that stays, and paid at most once, for all of it.
THEOREM ServiceImplementsDividendLedger == ServiceSpec => ImplementsDividendLedger
<1>1. ServiceInit => Ledger!LedgerInit
  <2> SUFFICES ASSUME ServiceInit PROVE Ledger!LedgerInit
    OBVIOUS
  <2>1. LedgerReads
    BY ServiceInvInit, EventsInvInit, LedgerIs
  <2>2. \A d \in Call : dividends[d].status = "absent"
    BY DEF ServiceInit, NoDividend
  <2>3. QED BY <2>1, <2>2 DEF LedgerReads, Ledger!LedgerInit
<1>2. /\ ServiceInv /\ EventsInv /\ ServiceInv' /\ EventsInv' /\ [ServiceNext]_serviceVars
      => [Ledger!LedgerNext]_<< Owed, Remitted >>
  BY LedgerStep
<1>3. QED
  BY <1>1, <1>2, ServiceInvariant, EventsInvariant, PTL
     DEF ServiceSpec, ImplementsDividendLedger, Ledger!LedgerSpec
=============================================================================
