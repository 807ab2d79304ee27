------------------------ MODULE EquityRegisterProofs ------------------------
(***************************************************************************)
(* The register, for every set of calls, classes, holders, requests and    *)
(* par values: type correctness; no holder ever holds a negative number    *)
(* of shares; what its readers rely on, which is that the holdings of a    *)
(* class add up to its shares outstanding, that the verbs implement the    *)
(* atomic cap table and that the outbox, replayed in any prefix of its     *)
(* time, tells the same story; and that the journals and the rows of a     *)
(* movement agree, wherever the call that wrote them is stopped.           *)
(***************************************************************************)
EXTENDS EquityRegister, EquityGlProofs

-----------------------------------------------------------------------------
(* The register's sums.                                                    *)

\* Appending a row adds its signed quantity to a holding.
LEMMA HoldingAppend ==
  ASSUME NEW rows \in Seq(Row), NEW row \in Row,
         NEW c \in ShareClass, NEW h \in Shareholder
  PROVE  /\ holding(rows, c, h) \in Int
         /\ holding(Append(rows, row), c, h) = holding(rows, c, h) + Signed(row, c, h)
<1> DEFINE n == Len(rows)
           all == Append(rows, row)
           d == [i \in 1 .. n |-> Signed(rows[i], c, h)]
           e == [i \in 1 .. Len(all) |-> Signed(all[i], c, h)]
<1>1. n \in Nat /\ Len(all) = n + 1 /\ all[n + 1] = row
      /\ (\A i \in 1 .. n : all[i] = rows[i]) /\ (\A i \in 1 .. n : rows[i] \in Row)
  OBVIOUS
<1>2. \A r \in Row : Signed(r, c, h) \in Int
  BY DEF Row, Signed
<1> HIDE DEF all
<1>3. \A i \in 1 .. n + 1 : i \in 1 .. n \/ i = n + 1
  BY <1>1
<1>4. /\ d \in [1 .. n -> Int]
      /\ e \in [1 .. n + 1 -> Int]
      /\ e[n + 1] = Signed(row, c, h)
      /\ \A i \in 1 .. n : e[i] = d[i]
  BY <1>1, <1>2, <1>3
<1>5. SumSeq(d) \in Int /\ SumSeq(e) = SumSeq(d) + Signed(row, c, h)
  <2> HIDE DEF n, d, e
  <2>1. QED BY <1>1, <1>4, SumSeqExtend
<1>6. QED BY <1>1, <1>5 DEF holding, all

\* Appending one row, or two, as a sequence.
LEMMA HoldingConcat ==
  ASSUME NEW rows \in Seq(Row), NEW a \in Row, NEW b \in Row,
         NEW c \in ShareClass, NEW h \in Shareholder
  PROVE  /\ << a >> \in Seq(Row) /\ rows \o << a >> \in Seq(Row)
         /\ << a, b >> \in Seq(Row) /\ rows \o << a, b >> \in Seq(Row)
         /\ Signed(a, c, h) \in Int /\ Signed(b, c, h) \in Int
         /\ holding(rows, c, h) \in Int
         /\ holding(rows \o << a >>, c, h) = holding(rows, c, h) + Signed(a, c, h)
         /\ holding(rows \o << a, b >>, c, h)
              = holding(rows, c, h) + Signed(a, c, h) + Signed(b, c, h)
<1>1. /\ << a >> \in Seq(Row) /\ << a, b >> \in Seq(Row)
      /\ Append(rows, a) \in Seq(Row)
      /\ Append(Append(rows, a), b) \in Seq(Row)
  OBVIOUS
<1>2. rows \o << a >> = Append(rows, a)
  BY AppendIsConcat
<1>3. rows \o << a, b >> = Append(Append(rows, a), b)
  OBVIOUS
<1>4. Signed(a, c, h) \in Int /\ Signed(b, c, h) \in Int
  BY DEF Signed, Row
<1>5. /\ holding(rows, c, h) \in Int
      /\ holding(Append(rows, a), c, h) = holding(rows, c, h) + Signed(a, c, h)
  BY HoldingAppend
<1>6. holding(Append(Append(rows, a), b), c, h)
        = holding(Append(rows, a), c, h) + Signed(b, c, h)
  BY <1>1, HoldingAppend
<1>7. QED BY <1>1, <1>2, <1>3, <1>4, <1>5, <1>6

\* A register without rows holds nothing.
LEMMA HoldingEmpty ==
  ASSUME NEW c \in ShareClass, NEW h \in Shareholder
  PROVE  holding(<< >>, c, h) = 0
<1>1. [i \in 1 .. Len(<< >>) |-> Signed(<< >>[i], c, h)] = << >>
  OBVIOUS
<1>2. QED BY <1>1, SumSeqEmpty DEF holding

\* What a movement request does to a holding once it commits.
Moved(r, c, h) ==
  IF r.class # c THEN 0
  ELSE (IF r.verb # "buyback" /\ r.to = h THEN r.quantity ELSE 0)
         - (IF r.verb # "issue" /\ r.from = h THEN r.quantity ELSE 0)

\* The rows each verb writes.
LEMMA RowsOf ==
  ASSUME NEW k \in Call
  PROVE  /\ req[k].verb = "issue" => Rows(k) = << IssueRow(k) >>
         /\ req[k].verb = "buyback" => Rows(k) = << BuybackRow(k) >>
         /\ req[k].verb = "transfer" =>
              Rows(k) = << TransferLeg(k, "transfer_out", req[k].from),
                           TransferLeg(k, "transfer_in", req[k].to) >>
  BY Zenon DEF Rows

\* The rows of a movement are rows of the table, and committing them moves what
\* the request says.
LEMMA RowsMove ==
  ASSUME NEW k \in Call, req[k] \in Movement, register \in Seq(Row)
  PROVE  /\ Rows(k) \in Seq(Row)
         /\ register \o Rows(k) \in Seq(Row)
         /\ \A c \in ShareClass, h \in Shareholder :
              /\ holding(register, c, h) \in Int
              /\ holding(register \o Rows(k), c, h)
                   = holding(register, c, h) + Moved(req[k], c, h)
<1>1. ASSUME NEW c \in ShareClass, NEW h \in Shareholder
      PROVE  /\ Rows(k) \in Seq(Row)
             /\ register \o Rows(k) \in Seq(Row)
             /\ holding(register, c, h) \in Int
             /\ holding(register \o Rows(k), c, h)
                  = holding(register, c, h) + Moved(req[k], c, h)
  <2>1. CASE req[k] \in IssueShares
    <3> DEFINE row == IssueRow(k)
    <3>1. Rows(k) = << row >> /\ row \in Row /\ Signed(row, c, h) = Moved(req[k], c, h)
      BY <2>1, RowsOf DEF IssueShares, IssueRow, Row, TxnType, Signed, Moved
    <3> HIDE DEF row
    <3>2. /\ << row >> \in Seq(Row) /\ register \o << row >> \in Seq(Row)
          /\ holding(register, c, h) \in Int
          /\ holding(register \o << row >>, c, h)
               = holding(register, c, h) + Signed(row, c, h)
      BY <3>1, HoldingConcat
    <3>3. QED BY <3>1, <3>2
  <2>2. CASE req[k] \in BuybackShares
    <3> DEFINE row == BuybackRow(k)
    <3>1. Rows(k) = << row >> /\ row \in Row /\ Signed(row, c, h) = Moved(req[k], c, h)
      BY <2>2, RowsOf DEF BuybackShares, BuybackRow, Row, TxnType, Signed, Moved
    <3> HIDE DEF row
    <3>2. /\ << row >> \in Seq(Row) /\ register \o << row >> \in Seq(Row)
          /\ holding(register, c, h) \in Int
          /\ holding(register \o << row >>, c, h)
               = holding(register, c, h) + Signed(row, c, h)
      BY <3>1, HoldingConcat
    <3>3. QED BY <3>1, <3>2
  <2>3. CASE req[k] \in TransferShares
    <3> DEFINE out == TransferLeg(k, "transfer_out", req[k].from)
               in  == TransferLeg(k, "transfer_in", req[k].to)
    <3>1. /\ Rows(k) = << out, in >>
          /\ out \in Row /\ in \in Row
          /\ Signed(out, c, h) + Signed(in, c, h) = Moved(req[k], c, h)
      BY <2>3, RowsOf DEF TransferShares, TransferLeg, Row, TxnType, Signed, Moved
    <3> HIDE DEF out, in
    <3>2. /\ << out, in >> \in Seq(Row) /\ register \o << out, in >> \in Seq(Row)
          /\ holding(register, c, h) \in Int
          /\ Signed(out, c, h) \in Int /\ Signed(in, c, h) \in Int
          /\ holding(register \o << out, in >>, c, h)
               = holding(register, c, h) + Signed(out, c, h) + Signed(in, c, h)
      BY <3>1, HoldingConcat
    <3>3. QED BY <3>1, <3>2
  <2>4. QED BY <2>1, <2>2, <2>3 DEF Movement
<1>2. ShareClass # {} /\ Shareholder # {}
  BY DEF Movement, IssueShares, TransferShares, BuybackShares
<1>3. QED BY <1>1, <1>2

-----------------------------------------------------------------------------
(* The awaits of the verbs.                                                *)

\* Every await of a verb is followed by one of its awaits.
LEMMA AwaitsClosed ==
  ASSUME NEW r \in Request, NEW a \in DOMAIN Awaits[r.verb]
  PROVE  /\ r # NoRequest
         /\ Awaits[r.verb][a] \in AwaitsOf(r)
         /\ Awaits[r.verb][a] \in Await
<1>1. r.verb \in {"issue", "transfer", "buyback", "declare", "pay"} /\ r # NoRequest
  BY DEF Request, Movement, IssueShares, TransferShares, BuybackShares,
         DeclareDividend, PayDividend, NoRequest
<1>2. CASE r.verb = "issue"
  BY <1>1, <1>2 DEF Awaits, IssueAwaits, AwaitsOf, Await
<1>3. CASE r.verb = "transfer"
  BY <1>1, <1>3 DEF Awaits, TransferAwaits, AwaitsOf, Await
<1>4. CASE r.verb = "buyback"
  BY <1>1, <1>4 DEF Awaits, BuybackAwaits, AwaitsOf, Await
<1>5. CASE r.verb = "declare"
  BY <1>1, <1>5 DEF Awaits, DeclareAwaits, AwaitsOf, Await
<1>6. CASE r.verb = "pay"
  BY <1>1, <1>6 DEF Awaits, PayAwaits, AwaitsOf, Await
<1>7. QED BY <1>1, <1>2, <1>3, <1>4, <1>5, <1>6

\* The first await of a verb is one of its awaits.
LEMMA FirstAwait ==
  ASSUME NEW r \in Request
  PROVE  r # NoRequest /\ First[r.verb] \in AwaitsOf(r) /\ First[r.verb] \in Await
<1>1. r.verb \in {"issue", "transfer", "buyback", "declare", "pay"} /\ r # NoRequest
  BY DEF Request, Movement, IssueShares, TransferShares, BuybackShares,
         DeclareDividend, PayDividend, NoRequest
<1>2. QED
  BY <1>1 DEF First, AwaitsOf, Await, Awaits, IssueAwaits, TransferAwaits,
              BuybackAwaits, DeclareAwaits, PayAwaits

\* The part of TypeOK about the calls.
CallsOK ==
  /\ req \in [Call -> Request \cup {NoRequest}]
  /\ pc \in [Call -> Await \cup Ended \cup {"idle"}]
  /\ \A k \in Call : pc[k] \in AwaitsOf(req[k])

\* A call at an await carries a request; one that is not about to return is at
\* an await another follows.
LEMMA CallUnderWay ==
  ASSUME CallsOK, NEW k \in Call, pc[k] \in Await
  PROVE  /\ req[k] \in Request
         /\ pc[k] # "publish" => pc[k] \in DOMAIN Awaits[req[k].verb]
<1>1. pc[k] # "idle" /\ pc[k] \notin Ended
  BY DEF Await, Ended
<1>2. req[k] # NoRequest
  BY <1>1 DEF CallsOK, AwaitsOf
<1>3. QED BY <1>1, <1>2 DEF CallsOK, AwaitsOf

\* Advancing, refusing, interrupting and returning keep the calls typed.
LEMMA CallsStep ==
  ASSUME CallsOK, NEW k \in Call, pc[k] \in Await, req' = req,
         \/ Advance(k) /\ pc[k] # "publish"
         \/ \E e \in Ended : pc' = [pc EXCEPT ![k] = e]
  PROVE  CallsOK'
<1>1. CASE Advance(k) /\ pc[k] # "publish"
  <2>1. PICK r \in Request : r = req[k] /\ pc[k] \in DOMAIN Awaits[r.verb]
    BY <1>1, CallUnderWay
  <2>2. Awaits[r.verb][pc[k]] \in AwaitsOf(r) /\ Awaits[r.verb][pc[k]] \in Await
    BY <2>1, AwaitsClosed
  <2>3. pc' = [pc EXCEPT ![k] = Awaits[r.verb][pc[k]]]
    BY <1>1, <2>1 DEF Advance
  <2>4. QED BY <2>1, <2>2, <2>3 DEF CallsOK
<1>2. CASE \E e \in Ended : pc' = [pc EXCEPT ![k] = e]
  <2>1. PICK e \in Ended : pc' = [pc EXCEPT ![k] = e]
    BY <1>2
  <2>2. req[k] # NoRequest
    BY CallUnderWay DEF Request, Movement, IssueShares, TransferShares, BuybackShares,
                    DeclareDividend, PayDividend, NoRequest
  <2>3. e \in AwaitsOf(req[k])
    BY <2>2 DEF AwaitsOf
  <2>4. QED BY <2>1, <2>3 DEF CallsOK
<1>3. QED BY <1>1, <1>2

-----------------------------------------------------------------------------
(* Type correctness.                                                       *)

\* A movement request, by its verb.
LEMMA MovementByVerb ==
  ASSUME NEW r \in Request
  PROVE  /\ r.verb = "issue" <=> r \in IssueShares
         /\ r.verb = "transfer" <=> r \in TransferShares
         /\ r.verb = "buyback" <=> r \in BuybackShares
         /\ r.verb \in MovementVerb <=> r \in Movement
  BY DEF Request, Movement, IssueShares, TransferShares, BuybackShares,
         DeclareDividend, PayDividend, MovementVerb

\* The journal of an issue or a buyback is made of typed lines.
LEMMA LinesType ==
  ASSUME NEW k \in Call, req[k] \in IssueShares \cup BuybackShares, par \in [Call -> Int]
  PROVE  Lines(k) \in Seq(GlPostLine)
<1>1. /\ req[k].verb \in {"issue", "buyback"}
      /\ req[k].quantity \in Int /\ req[k].price \in Int /\ par[k] \in Int
  BY DEF IssueShares, BuybackShares
<1> DEFINE Line(a, d, c) == [account |-> a, debit |-> d, credit |-> c]
<1>2. \A a \in Account, d \in Int, c \in Int : Line(a, d, c) \in GlPostLine
  BY DEF GlPostLine
<1>3. \A a \in Account, n \in Int : Debit(a, n) \in GlPostLine /\ Credit(a, n) \in GlPostLine
  BY <1>2 DEF Debit, Credit
<1>4. ASSUME NEW q \in Int, NEW p \in Int, NEW n \in Int
      PROVE  IssueLines(q, p, n) \in Seq(GlPostLine) /\ BuybackLines(q, p, n) \in Seq(GlPostLine)
  <2>1. PICK amount \in Int : amount = q * p
    OBVIOUS
  <2>2. PICK capital \in Int : capital = q * n
    OBVIOUS
  <2>3. /\ amount - capital \in Int /\ -(amount - capital) \in Int
        /\ {"bank", "share_capital", "share_premium", "retained_earnings"} \subseteq Account
    BY DEF Account
  <2>4. /\ << Debit("bank", amount), Credit("share_capital", capital) >> \in Seq(GlPostLine)
        /\ Credit("share_premium", amount - capital) \in GlPostLine
        /\ << Debit("share_capital", capital) >> \in Seq(GlPostLine)
        /\ Debit("retained_earnings", amount - capital) \in GlPostLine
        /\ Credit("retained_earnings", -(amount - capital)) \in GlPostLine
        /\ Credit("bank", amount) \in GlPostLine
    BY <1>3, <2>3
  <2>5. \A lines \in Seq(GlPostLine), line \in GlPostLine : Append(lines, line) \in Seq(GlPostLine)
    OBVIOUS
  <2>6. IssueLines(q, p, n) \in Seq(GlPostLine)
    BY <2>1, <2>2, <2>4, <2>5 DEF IssueLines
  <2>7. BuybackLines(q, p, n) \in Seq(GlPostLine)
    BY <2>1, <2>2, <2>4, <2>5 DEF BuybackLines
  <2>8. QED BY <2>6, <2>7
<1>5. QED BY <1>1, <1>4 DEF Lines

\* The event of a movement is a lifecycle event of shares.
LEMMA EventType ==
  ASSUME NEW k \in Call, req[k] \in Movement
  PROVE  /\ Event(k) \in EquityEvent
         /\ Event(k) \in SharesIssued \cup SharesTransferred \cup SharesBoughtBack
<1>1. /\ req[k].verb = "issue" =>
           Event(k) = [type |-> "SharesIssued", class |-> req[k].class,
                       to |-> req[k].to, quantity |-> req[k].quantity]
      /\ req[k].verb = "transfer" =>
           Event(k) = [type |-> "SharesTransferred", class |-> req[k].class,
                       from |-> req[k].from, to |-> req[k].to,
                       quantity |-> req[k].quantity]
      /\ req[k].verb = "buyback" =>
           Event(k) = [type |-> "SharesBoughtBack", class |-> req[k].class,
                       from |-> req[k].from, quantity |-> req[k].quantity]
  BY Zenon DEF Event
<1>2. CASE req[k] \in IssueShares
  BY <1>1, <1>2 DEF IssueShares, EquityEvent, SharesIssued
<1>3. CASE req[k] \in TransferShares
  BY <1>1, <1>3 DEF TransferShares, EquityEvent, SharesTransferred
<1>4. CASE req[k] \in BuybackShares
  BY <1>1, <1>4 DEF BuybackShares, EquityEvent, SharesBoughtBack
<1>5. QED BY <1>2, <1>3, <1>4 DEF Movement

\* A row of a class's terms stays one when a class is registered or updated.
LEMMA MastersType ==
  ASSUME TypeOK, Masters
  PROVE  TypeOK'
<1> USE DEF TypeOK, hubVars
<1>1. \A p \in ParValues, s \in {"active", "inactive"} :
        [status |-> s, par_value |-> p] \in ShareClassRow
  BY ParValuesAssumption DEF ShareClassRow
<1>2. ASSUME NEW c \in ShareClass, register_share_class(c)
      PROVE  TypeOK'
  <2>1. classes' \in [ShareClass -> ShareClassRow]
    BY <1>1, <1>2 DEF register_share_class
  <2>2. QED BY <1>2, <2>1 DEF register_share_class, AwaitsOf
<1>3. ASSUME NEW c \in ShareClass, update_share_class(c)
      PROVE  TypeOK'
  <2>1. classes' \in [ShareClass -> ShareClassRow]
    BY <1>1, <1>3 DEF update_share_class
  <2>2. QED BY <1>3, <2>1 DEF update_share_class, AwaitsOf
<1>4. ASSUME NEW h \in Shareholder, register_shareholder(h)
      PROVE  TypeOK'
  BY <1>4 DEF register_shareholder, AwaitsOf
<1>5. QED BY <1>2, <1>3, <1>4 DEF Masters

\* A call's step keeps every type.
LEMMA CallType ==
  ASSUME TypeOK, NEW k \in Call,
         begin_call(k) \/ MovementStep(k) \/ interrupt_call(k)
  PROVE  TypeOK'
<1> DEFINE Tables == /\ locks \subseteq [key: LockKey, owner: Call]
                     /\ gl \subseteq Journal
                     /\ clock \in Nat
                     /\ stamp \in [Call -> Nat]
                     /\ outbox \in Seq(OutboxRecord)
                     /\ classes \in [ShareClass -> ShareClassRow]
                     /\ shareholders \subseteq Shareholder
                     /\ register \in Seq(Row)
                     /\ par \in [Call -> Int]
<1>1. CallsOK /\ Tables
  BY DEF TypeOK, CallsOK
<1>2. SUFFICES CallsOK' /\ Tables'
  BY DEF TypeOK, CallsOK
<1>3. Released(k) \subseteq [key: LockKey, owner: Call]
  BY <1>1 DEF Released
<1>4. {"load", "lock", "holding", "insert", "post", "stage", "commit", "publish"} \subseteq Await
      /\ {"ok", "refused", "interrupted"} \subseteq Ended
  BY DEF Await, Ended
<1>5. Refuse(k) => /\ \E e \in Ended : pc' = [pc EXCEPT ![k] = e]
                   /\ locks' \subseteq [key: LockKey, owner: Call]
  BY <1>3, <1>4 DEF Refuse
<1>6. CASE begin_call(k)
  <2>1. PICK r \in Requests[k] :
          /\ req' = [req EXCEPT ![k] = r]
          /\ pc' = [pc EXCEPT ![k] = IF Valid(r) THEN First[r.verb] ELSE "refused"]
    BY <1>6 DEF begin_call, Begin
  <2>2. r \in Request
    BY <2>1, RequestsAssumption
  <2>3. /\ pc'[k] \in AwaitsOf(r)
        /\ pc'[k] \in Await \cup Ended
        /\ \A i \in Call \ {k} : pc'[i] = pc[i] /\ req'[i] = req[i]
        /\ req'[k] = r
    BY <1>1, <1>4, <2>1, <2>2, FirstAwait DEF CallsOK, AwaitsOf
  <2>4. CallsOK'
    BY <1>1, <2>1, <2>2, <2>3 DEF CallsOK
  <2>5. Tables'
    BY <1>1, <1>6 DEF begin_call, Begin
  <2>6. QED BY <2>4, <2>5
<1>7. CASE load_class(k)
  <2>1. CallsOK'
    BY <1>1, <1>4, <1>5, <1>7, CallsStep DEF load_class
  <2>2. classes[req[k].class].par_value \in Int
    <3>1. req[k] \in Request /\ pc[k] \in DOMAIN Awaits[req[k].verb]
      BY <1>1, <1>4, <1>7, CallUnderWay DEF load_class
    <3>2. req[k].verb \in {"issue", "buyback"}
      BY <1>7, <3>1 DEF load_class, Awaits, TransferAwaits, DeclareAwaits, PayAwaits,
                        Request, Movement, IssueShares, TransferShares, BuybackShares,
                        DeclareDividend, PayDividend
    <3>3. req[k].class \in ShareClass
      BY <3>1, <3>2, MovementByVerb DEF IssueShares, BuybackShares
    <3>4. QED BY <1>1, <3>3 DEF ShareClassRow
  <2>3. Tables'
    <3>1. par' \in [Call -> Int]
      BY <1>1, <1>7, <2>2 DEF load_class
    <3>2. locks' \subseteq [key: LockKey, owner: Call]
      BY <1>1, <1>5, <1>7 DEF load_class
    <3>3. QED BY <1>1, <1>7, <3>1, <3>2 DEF load_class
  <2>4. QED BY <2>1, <2>3
<1>8. CASE lock_position(k)
  <2>1. CallsOK'
    BY <1>1, <1>4, <1>8, CallsStep DEF lock_position
  <2>2. req[k] \in Request /\ pc[k] \in DOMAIN Awaits[req[k].verb]
    BY <1>1, <1>4, <1>8, CallUnderWay DEF lock_position
  <2>3. req[k].verb \in Removal
    BY <1>8, <2>2 DEF lock_position, Removal, Awaits, IssueAwaits, DeclareAwaits,
                      PayAwaits, Request, Movement, IssueShares, TransferShares,
                      BuybackShares, DeclareDividend, PayDividend
  <2>4. << req[k].class, req[k].from >> \in LockKey
    BY <2>2, <2>3, MovementByVerb DEF LockKey, Removal, TransferShares, BuybackShares
  <2> DEFINE taken == [key |-> << req[k].class, req[k].from >>, owner |-> k]
  <2>5. locks' \subseteq [key: LockKey, owner: Call]
    <3>1. taken \in [key: LockKey, owner: Call]
      BY <2>4
    <3>2. locks' = locks \cup {taken}
      BY <1>8 DEF lock_position, Lock
    <3>3. QED BY <1>1, <3>1, <3>2
  <2>6. QED BY <1>1, <1>8, <2>1, <2>5 DEF lock_position
<1>9. CASE check_holding(k)
  <2>1. CallsOK'
    BY <1>1, <1>4, <1>5, <1>9, CallsStep DEF check_holding
  <2>2. Tables'
    BY <1>1, <1>5, <1>9 DEF check_holding
  <2>3. QED BY <2>1, <2>2
<1>10. CASE insert_rows(k)
  <2>1. CallsOK'
    BY <1>1, <1>4, <1>5, <1>10, CallsStep DEF insert_rows
  <2>2. Tables'
    BY <1>1, <1>5, <1>10 DEF insert_rows
  <2>3. QED BY <2>1, <2>2
<1>11. CASE post_movement(k)
  <2>1. CallsOK'
    BY <1>1, <1>4, <1>5, <1>11, CallsStep DEF post_movement, Post
  <2>2. req[k] \in Request /\ pc[k] \in DOMAIN Awaits[req[k].verb]
    BY <1>1, <1>4, <1>11, CallUnderWay DEF post_movement, Post
  <2>3. req[k].verb \in {"issue", "buyback"}
    BY <1>11, <2>2 DEF post_movement, Post, MovementVerb, Awaits, TransferAwaits
  <2>4. [leg |-> req[k].verb, source |-> Minted(k), lines |-> Lines(k)] \in Journal
    <3>1. Lines(k) \in Seq(GlPostLine)
      BY <1>1, <2>2, <2>3, MovementByVerb, LinesType
    <3>2. QED BY <2>3, <3>1 DEF Journal, SourceId
  <2>5. gl' \subseteq Journal
    BY <1>1, <1>11, <2>4 DEF post_movement, Post
  <2>6. QED BY <1>1, <1>5, <1>11, <2>1, <2>5 DEF post_movement, Post
<1>12. CASE stage_event(k)
  <2>1. CallsOK'
    BY <1>1, <1>4, <1>5, <1>12, CallsStep DEF stage_event, Stage
  <2>2. clock' \in Nat
    BY <1>1, <1>12 DEF stage_event, Stage
  <2>3. stamp' \in [Call -> Nat]
    BY <1>1, <1>12, <2>2 DEF stage_event, Stage
  <2>4. locks' \subseteq [key: LockKey, owner: Call]
    BY <1>1, <1>5, <1>12 DEF stage_event, Stage
  <2>5. Tables'
    BY <1>1, <1>12, <2>2, <2>3, <2>4 DEF stage_event, Stage
  <2>6. QED BY <2>1, <2>5
<1>13. CASE commit_movement(k)
  <2>1. CallsOK'
    BY <1>1, <1>4, <1>13, CallsStep DEF commit_movement, CommitOutbox
  <2>2. req[k] \in Movement
    BY <1>1, <1>4, <1>13, CallUnderWay, MovementByVerb DEF commit_movement, CommitOutbox
  <2>3. register' \in Seq(Row)
    BY <1>1, <1>13, <2>2, RowsMove DEF commit_movement
  <2>4. [call |-> k, at |-> stamp[k], event |-> Event(k)] \in OutboxRecord
    BY <1>1, <2>2, EventType DEF OutboxRecord
  <2>5. outbox' \in Seq(OutboxRecord)
    BY <1>1, <1>13, <2>4 DEF commit_movement, CommitOutbox
  <2>6. QED BY <1>1, <1>3, <1>13, <2>1, <2>3, <2>5 DEF commit_movement, CommitOutbox
<1>14. CASE publish_event(k)
  <2>1. CallsOK'
    BY <1>1, <1>4, <1>14, CallsStep DEF publish_event, Publish
  <2>2. QED BY <1>1, <1>14, <2>1 DEF publish_event, Publish
<1>15. CASE interrupt_call(k)
  <2>1. CallsOK'
    BY <1>1, <1>4, <1>15, CallsStep DEF interrupt_call, Interrupt
  <2>2. QED BY <1>1, <1>3, <1>15, <2>1 DEF interrupt_call, Interrupt
<1>16. QED
  BY <1>6, <1>7, <1>8, <1>9, <1>10, <1>11, <1>12, <1>13, <1>14, <1>15 DEF MovementStep

\* Every state of the register is typed: each call is at an await of the verb
\* it runs, and every table holds rows of its columns.
THEOREM TypeCorrect == RegisterSpec => []TypeOK
<1>1. RegisterInit => TypeOK
  BY DEF RegisterInit, HubInit, TypeOK, AwaitsOf, ShareClassRow
<1>2. TypeOK /\ [RegisterNext]_registerVars => TypeOK'
  <2> SUFFICES ASSUME TypeOK, [RegisterNext]_registerVars PROVE TypeOK'
    OBVIOUS
  <2>1. CASE UNCHANGED registerVars
    BY <2>1 DEF TypeOK, registerVars, hubVars, AwaitsOf
  <2>2. CASE RegisterNext
    BY <2>2, CallType, MastersType DEF RegisterNext
  <2>3. QED BY <2>1, <2>2
<1>3. QED BY <1>1, <1>2, PTL DEF RegisterSpec

-----------------------------------------------------------------------------
(* No holding goes negative.  The bound a removal checked stays true while *)
(* it holds its position's lock, because every other removal of the        *)
(* position would need that lock, and issues and incoming transfers only   *)
(* add to it.                                                              *)

\* A call under way carries a request its verb accepted.
ValidUnderWay == \A k \in Call : pc[k] \in Await => Valid(req[k])

\* The inductive invariant.
RegisterInv ==
  /\ TypeOK
  /\ ValidUnderWay
  /\ PositionsAreLocked
  /\ CheckedBoundHolds
  /\ NonNegative

\* What a step of a call does to the locks and the register, in four kinds: it
\* goes on, takes its lock, ends, or commits.
GoesOn(k) ==
  /\ Advance(k) /\ pc[k] \in Await \ {"lock", "commit", "publish"}
  /\ locks' = locks /\ register' = register
  /\ pc[k] = "holding" => req[k].quantity <= holding(register, req[k].class, req[k].from)
TakesLock(k) ==
  /\ Advance(k) /\ pc[k] = "lock"
  /\ Free(<< req[k].class, req[k].from >>) /\ Lock(k, << req[k].class, req[k].from >>)
  /\ register' = register
Ends(k) ==
  /\ pc[k] \in Await
  /\ \E e \in Ended : pc' = [pc EXCEPT ![k] = e]
  /\ locks' \in {locks, Released(k)} /\ register' = register
Commits(k) ==
  /\ Advance(k) /\ pc[k] = "commit" /\ req[k].verb \in MovementVerb
  /\ locks' = Released(k) /\ register' = register \o Rows(k)

\* A step of a call's code, or its interruption, is of one of the four kinds.
LEMMA StepShape ==
  ASSUME NEW k \in Call, MovementStep(k) \/ interrupt_call(k)
  PROVE  /\ req' = req
         /\ GoesOn(k) \/ TakesLock(k) \/ Ends(k) \/ Commits(k)
<1>1. {"load", "lock", "holding", "insert", "post", "stage", "commit", "publish"} \subseteq Await
      /\ {"ok", "refused", "interrupted"} \subseteq Ended
  BY DEF Await, Ended
<1>2. Refuse(k) => /\ \E e \in Ended : pc' = [pc EXCEPT ![k] = e]
                   /\ locks' = Released(k)
  BY <1>1 DEF Refuse
<1>3. CASE load_class(k)
  BY <1>1, <1>2, <1>3 DEF load_class, GoesOn, Ends
<1>4. CASE lock_position(k)
  BY <1>4 DEF lock_position, TakesLock
<1>5. CASE check_holding(k)
  BY <1>1, <1>2, <1>5 DEF check_holding, GoesOn, Ends
<1>6. CASE insert_rows(k)
  BY <1>1, <1>2, <1>6 DEF insert_rows, GoesOn, Ends
<1>7. CASE post_movement(k)
  BY <1>1, <1>2, <1>7 DEF post_movement, Post, GoesOn, Ends
<1>8. CASE stage_event(k)
  BY <1>1, <1>2, <1>8 DEF stage_event, Stage, GoesOn, Ends
<1>9. CASE commit_movement(k)
  BY <1>9 DEF commit_movement, CommitOutbox, Commits
<1>10. CASE publish_event(k)
  BY <1>1, <1>10 DEF publish_event, Publish, Ends
<1>11. CASE interrupt_call(k)
  BY <1>1, <1>11 DEF interrupt_call, Interrupt, Ends
<1>12. QED
  BY <1>3, <1>4, <1>5, <1>6, <1>7, <1>8, <1>9, <1>10, <1>11 DEF MovementStep

\* What the checks before the first await establish for a movement.
LEMMA ValidMovement ==
  ASSUME NEW r \in Movement, Valid(r)
  PROVE  r.quantity > 0 /\ (r.verb = "transfer" => r.from # r.to)
<1>1. /\ r.verb \in {"issue", "buyback"} => r.quantity > 0
      /\ r.verb = "transfer" => r.quantity > 0 /\ r.from # r.to
  BY Zenon DEF Valid
<1>2. r.verb \in {"issue", "transfer", "buyback"}
  BY DEF Movement, IssueShares, TransferShares, BuybackShares
<1>3. QED BY <1>1, <1>2

\* A movement lowers only the position a removal names, by its quantity.
LEMMA MovedBound ==
  ASSUME NEW r \in Movement, Valid(r), NEW c \in ShareClass, NEW h \in Shareholder
  PROVE  /\ Moved(r, c, h) \in Int
         /\ \/ Moved(r, c, h) >= 0
            \/ /\ r.verb \in Removal /\ r.class = c /\ r.from = h
               /\ r.quantity \in Int /\ Moved(r, c, h) = - r.quantity
  BY ValidMovement DEF Movement, IssueShares, TransferShares, BuybackShares, Moved, Removal

\* The awaits of a removal from its lock on: each is reached from the one before.
LEMMA RemovalAwaits ==
  ASSUME NEW r \in Request, r.verb \in Removal, NEW a \in DOMAIN Awaits[r.verb]
  PROVE  LET b == Awaits[r.verb][a] IN
         /\ b \in {"holding", "insert", "post", "stage", "commit"} =>
              a \in {"lock", "holding", "insert", "post", "stage"}
         /\ b \in {"insert", "post", "stage", "commit"} =>
              a \in {"holding", "insert", "post", "stage"}
         /\ a = "commit" => b = "publish"
<1>1. CASE r.verb = "transfer"
  BY <1>1 DEF Awaits, TransferAwaits
<1>2. CASE r.verb = "buyback"
  BY <1>2 DEF Awaits, BuybackAwaits
<1>3. QED BY <1>1, <1>2 DEF Removal

\* What a call at an await after its lock knows of the step it takes.
LEMMA AdvanceShape ==
  ASSUME TypeOK, NEW k \in Call, Advance(k), pc[k] \in Await, pc[k] # "publish"
  PROVE  /\ req[k] \in Request /\ pc[k] \in DOMAIN Awaits[req[k].verb]
         /\ pc'[k] = Awaits[req[k].verb][pc[k]]
         /\ \A i \in Call \ {k} : pc'[i] = pc[i]
<1>1. CallsOK
  BY DEF TypeOK, CallsOK
<1>2. QED BY <1>1, CallUnderWay DEF CallsOK, Advance

\* Every call keeps carrying a request its verb accepted.
LEMMA ValidStep ==
  ASSUME TypeOK, ValidUnderWay, NEW k \in Call,
         begin_call(k) \/ MovementStep(k) \/ interrupt_call(k)
  PROVE  ValidUnderWay'
<1>1. \A e \in Ended : e \notin Await
  BY DEF Ended, Await
<1>2. CASE begin_call(k)
  <2>1. PICK r \in Requests[k] :
          /\ req' = [req EXCEPT ![k] = r]
          /\ pc' = [pc EXCEPT ![k] = IF Valid(r) THEN First[r.verb] ELSE "refused"]
    BY <1>2 DEF begin_call, Begin
  <2>2. ASSUME NEW i \in Call, pc'[i] \in Await PROVE Valid(req'[i])
    <3>1. CASE i = k
      <4>1. pc'[k] # "refused"
        BY <2>2, <3>1, <1>1 DEF Ended
      <4>2. Valid(r)
        BY <2>1, <4>1 DEF TypeOK
      <4>3. req'[k] = r
        BY <2>1 DEF TypeOK
      <4>4. QED BY <3>1, <4>2, <4>3
    <3>2. CASE i # k
      <4>1. pc'[i] = pc[i] /\ req'[i] = req[i]
        BY <2>1, <3>2 DEF TypeOK
      <4>2. QED BY <2>2, <4>1 DEF ValidUnderWay
    <3>3. QED BY <3>1, <3>2
  <2>3. ASSUME NEW i \in Call, pc'[i] \in Await PROVE Valid(req[i])'
    BY <2>2, <2>3 DEF Valid
  <2>4. QED BY <2>3 DEF ValidUnderWay
<1>3. CASE MovementStep(k) \/ interrupt_call(k)
  <2>1. req' = req /\ pc[k] \in Await
        /\ (Advance(k) \/ \E e \in Ended : pc' = [pc EXCEPT ![k] = e])
    BY <1>3, StepShape DEF GoesOn, TakesLock, Ends, Commits, Await
  <2>2. \A i \in Call : pc'[i] \in Await => pc[i] \in Await
    BY <2>1, <1>1 DEF TypeOK, Advance
  <2>3. QED BY <2>1, <2>2 DEF ValidUnderWay, Valid
<1>4. QED BY <1>2, <1>3

\* Positions stay locked by the removals that need them, one owner a position.
LEMMA LocksStep ==
  ASSUME TypeOK, PositionsAreLocked, NEW k \in Call,
         begin_call(k) \/ MovementStep(k) \/ interrupt_call(k)
  PROVE  PositionsAreLocked'
<1> DEFINE Owned(i) == [key |-> << req[i].class, req[i].from >>, owner |-> i]
<1>1. CASE begin_call(k)
  <2>1. PICK r \in Requests[k] :
          /\ req' = [req EXCEPT ![k] = r]
          /\ pc' = [pc EXCEPT ![k] = IF Valid(r) THEN First[r.verb] ELSE "refused"]
    BY <1>1 DEF begin_call, Begin
  <2>2. r \in Request
    BY <2>1, RequestsAssumption
  <2>3. pc'[k] \in {"load", "lock", "outstanding", "fetch", "refused"}
    BY <2>1, <2>2 DEF TypeOK, First, Request, Movement, IssueShares, TransferShares,
                      BuybackShares, DeclareDividend, PayDividend
  <2>4. \A i \in Call \ {k} : pc'[i] = pc[i] /\ req'[i] = req[i]
    BY <2>1 DEF TypeOK
  <2>5. locks' = locks
    BY <1>1 DEF begin_call, Begin
  <2>6. QED BY <2>3, <2>4, <2>5 DEF PositionsAreLocked, Holds
<1>2. CASE MovementStep(k) \/ interrupt_call(k)
  <2>1. req' = req
    BY <1>2, StepShape
  <2>2. \A l \in locks : l.owner # k => l \in Released(k)
    BY DEF Released
  <2>3. Released(k) \subseteq locks
    BY DEF Released
  <2>4. CASE GoesOn(k)
    <3>1. /\ locks' = locks
          /\ \A i \in Call \ {k} : pc'[i] = pc[i]
          /\ Holds(k)' => Holds(k)
      <4>1. /\ req[k] \in Request /\ pc[k] \in DOMAIN Awaits[req[k].verb]
            /\ pc'[k] = Awaits[req[k].verb][pc[k]]
            /\ \A i \in Call \ {k} : pc'[i] = pc[i]
        BY <2>4, AdvanceShape DEF GoesOn
      <4>2. QED BY <2>1, <2>4, <4>1, RemovalAwaits DEF GoesOn, Holds
    <3>2. QED BY <2>1, <3>1 DEF PositionsAreLocked, Holds
  <2>5. CASE TakesLock(k)
    <3>1. \A i \in Call \ {k} : pc'[i] = pc[i]
      BY <2>5, AdvanceShape DEF TakesLock, Await
    <3>2. locks' = locks \cup {Owned(k)}
      BY <2>5 DEF TakesLock, Lock
    <3>3. \A l \in locks : l.key # Owned(k).key
      BY <2>5 DEF TakesLock, Free
    <3>4. \A i \in Call : Holds(i)' => Owned(i) \in locks'
      BY <2>1, <3>1, <3>2 DEF PositionsAreLocked, Holds
    <3>5. \A l, m \in locks' : l.key = m.key => l.owner = m.owner
      BY <3>2, <3>3 DEF PositionsAreLocked
    <3>6. QED BY <2>1, <3>4, <3>5 DEF PositionsAreLocked
  <2>6. CASE Ends(k)
    <3>1. ~ Holds(k)' /\ \A i \in Call \ {k} : pc'[i] = pc[i]
      BY <2>6 DEF Ends, Holds, Ended, TypeOK
    <3>2. \A i \in Call : Holds(i)' => i # k /\ Owned(i) \in locks
      BY <2>1, <3>1 DEF PositionsAreLocked, Holds
    <3>3. \A i \in Call : Holds(i)' => Owned(i) \in locks'
      BY <2>2, <2>6, <3>2 DEF Ends
    <3>4. locks' \subseteq locks
      BY <2>3, <2>6 DEF Ends
    <3>5. QED BY <2>1, <3>3, <3>4 DEF PositionsAreLocked
  <2>7. CASE Commits(k)
    <3>1. ~ Holds(k)' /\ \A i \in Call \ {k} : pc'[i] = pc[i]
      <4>1. /\ req[k] \in Request /\ pc[k] \in DOMAIN Awaits[req[k].verb]
            /\ pc'[k] = Awaits[req[k].verb][pc[k]]
            /\ \A i \in Call \ {k} : pc'[i] = pc[i]
        BY <2>7, AdvanceShape DEF Commits, Await
      <4>2. QED BY <2>1, <2>7, <4>1, RemovalAwaits DEF Commits, Holds
    <3>2. \A i \in Call : Holds(i)' => i # k /\ Owned(i) \in locks
      BY <2>1, <3>1 DEF PositionsAreLocked, Holds
    <3>3. \A i \in Call : Holds(i)' => Owned(i) \in locks'
      BY <2>2, <2>7, <3>2 DEF Commits
    <3>4. locks' \subseteq locks
      BY <2>3, <2>7 DEF Commits
    <3>5. QED BY <2>1, <3>3, <3>4 DEF PositionsAreLocked
  <2>8. QED BY <1>2, <2>4, <2>5, <2>6, <2>7, StepShape
<1>3. QED BY <1>1, <1>2

\* When a call commits, only its own removal lowers a position, and no other
\* removal of that position is under way.
LEMMA CommitMoves ==
  ASSUME TypeOK, ValidUnderWay, PositionsAreLocked, NEW k \in Call, Commits(k),
         NEW c \in ShareClass, NEW h \in Shareholder
  PROVE  LET before == holding(register, c, h)
             after  == holding(register, c, h)'
         IN  /\ before \in Int /\ after \in Int
             /\ \/ after >= before
                \/ /\ Checked(k) /\ req[k].class = c /\ req[k].from = h
                   /\ req[k].quantity \in Int /\ after = before - req[k].quantity
                   /\ \A i \in Call \ {k} :
                        ~ (Holds(i) /\ req[i].class = c /\ req[i].from = h)
<1>1. req[k] \in Movement /\ Valid(req[k])
  BY AdvanceShape, MovementByVerb DEF Commits, Await, ValidUnderWay
<1>2. register \in Seq(Row)
  BY DEF TypeOK
<1>3. /\ holding(register, c, h) \in Int
      /\ holding(register, c, h)' = holding(register, c, h) + Moved(req[k], c, h)
  BY <1>1, <1>2, RowsMove DEF Commits, holding
<1>4. CASE Moved(req[k], c, h) >= 0
  BY <1>1, <1>3, <1>4, MovedBound
<1>5. CASE /\ req[k].verb \in Removal /\ req[k].class = c /\ req[k].from = h
           /\ req[k].quantity \in Int /\ Moved(req[k], c, h) = - req[k].quantity
  <2>1. Holds(k) /\ Checked(k)
    BY <1>5 DEF Commits, Holds, Checked
  <2>2. [key |-> << c, h >>, owner |-> k] \in locks
    BY <1>5, <2>1 DEF PositionsAreLocked
  <2>3. \A i \in Call : Holds(i) /\ req[i].class = c /\ req[i].from = h =>
          [key |-> << c, h >>, owner |-> i] \in locks
    BY DEF PositionsAreLocked
  <2>4. \A i \in Call : Holds(i) /\ req[i].class = c /\ req[i].from = h => i = k
    BY <2>2, <2>3 DEF PositionsAreLocked
  <2>5. QED BY <1>3, <1>5, <2>1, <2>4
<1>6. QED BY <1>1, <1>4, <1>5, MovedBound

\* The bound of every checked removal stays true, and no holding goes negative.
LEMMA BoundStep ==
  ASSUME RegisterInv, NEW k \in Call,
         begin_call(k) \/ MovementStep(k) \/ interrupt_call(k)
  PROVE  CheckedBoundHolds' /\ NonNegative'
<1> USE DEF RegisterInv
<1>1. CASE begin_call(k)
  <2>1. PICK r \in Requests[k] :
          /\ req' = [req EXCEPT ![k] = r]
          /\ pc' = [pc EXCEPT ![k] = IF Valid(r) THEN First[r.verb] ELSE "refused"]
    BY <1>1 DEF begin_call, Begin
  <2>2. r \in Request
    BY <2>1, RequestsAssumption
  <2>3. pc'[k] \in {"load", "lock", "outstanding", "fetch", "refused"}
    BY <2>1, <2>2 DEF TypeOK, First, Request, Movement, IssueShares, TransferShares,
                      BuybackShares, DeclareDividend, PayDividend
  <2>4. \A i \in Call \ {k} : pc'[i] = pc[i] /\ req'[i] = req[i]
    BY <2>1 DEF TypeOK
  <2>5. register' = register
    BY <1>1 DEF begin_call
  <2>6. QED
    BY <2>3, <2>4, <2>5 DEF CheckedBoundHolds, Checked, NonNegative, holding
<1>2. CASE MovementStep(k) \/ interrupt_call(k)
  <2>1. req' = req
    BY <1>2, StepShape
  <2>2. CASE GoesOn(k) \/ TakesLock(k) \/ Ends(k)
    <3>1. register' = register
      BY <2>2 DEF GoesOn, TakesLock, Ends
    <3>2. \A i \in Call \ {k} : pc'[i] = pc[i]
      BY <2>2, AdvanceShape DEF GoesOn, TakesLock, Ends, TypeOK, Await
    <3>3. Checked(k)' => req[k].quantity <= holding(register, req[k].class, req[k].from)
      <4>1. CASE Ends(k)
        BY <4>1 DEF Ends, Checked, Ended, TypeOK
      <4>2. CASE GoesOn(k) \/ TakesLock(k)
        <5>1. /\ req[k] \in Request /\ pc[k] \in DOMAIN Awaits[req[k].verb]
              /\ pc'[k] = Awaits[req[k].verb][pc[k]]
          BY <4>2, AdvanceShape DEF GoesOn, TakesLock, Await
        <5>2. SUFFICES ASSUME Checked(k)'
              PROVE  req[k].quantity <= holding(register, req[k].class, req[k].from)
          OBVIOUS
        <5>3. pc[k] = "holding" \/ Checked(k)
          BY <2>1, <5>1, <5>2, RemovalAwaits DEF Checked
        <5>4. QED BY <4>2, <5>3 DEF GoesOn, TakesLock, CheckedBoundHolds, Checked
      <4>3. QED BY <2>2, <4>1, <4>2
    <3>4. \A i \in Call : Checked(i)' =>
            req[i].quantity <= holding(register, req[i].class, req[i].from)
      BY <2>1, <3>2, <3>3 DEF CheckedBoundHolds, Checked
    <3>5. QED BY <2>1, <3>1, <3>4 DEF CheckedBoundHolds, NonNegative, holding
  <2>3. CASE Commits(k)
    <3>1. pc'[k] = "publish" \/ req[k].verb \notin Removal
      BY <2>3, AdvanceShape, RemovalAwaits DEF Commits, Await
    <3>2. \A i \in Call \ {k} : pc'[i] = pc[i]
      BY <2>3, AdvanceShape DEF Commits, Await
    <3>3. ASSUME NEW i \in Call, Checked(i)'
          PROVE  req[i].quantity <= holding(register, req[i].class, req[i].from)'
      <4>1. i # k /\ Checked(i) /\ Holds(i)
        BY <2>1, <3>1, <3>2, <3>3 DEF Checked, Holds
      <4>2. req[i] \in Movement
        <5>1. pc[i] \in Await
          BY <4>1 DEF Checked, Await
        <5>2. CallsOK
          BY DEF TypeOK, CallsOK
        <5>3. QED BY <4>1, <5>1, <5>2, CallUnderWay, MovementByVerb DEF Checked, Removal,
                                                                 MovementVerb
      <4>3. req[i].class \in ShareClass /\ req[i].from \in Shareholder /\ req[i].quantity \in Int
        BY <4>1, <4>2 DEF Checked, Removal, Movement, IssueShares, TransferShares,
                          BuybackShares
      <4>4. PICK c \in ShareClass, h \in Shareholder : c = req[i].class /\ h = req[i].from
        BY <4>3
      <4>5. /\ holding(register, c, h) \in Int /\ holding(register, c, h)' \in Int
            /\ holding(register, c, h)' >= holding(register, c, h)
        BY <2>3, <4>1, <4>4, CommitMoves
      <4>6. req[i].quantity <= holding(register, c, h)
        BY <4>1, <4>4 DEF CheckedBoundHolds
      <4>7. holding(register, req[i].class, req[i].from)' = holding(register, c, h)'
        BY <2>1, <4>4 DEF holding
      <4>8. QED BY <4>3, <4>5, <4>6, <4>7
    <3>4. ASSUME NEW c \in ShareClass, NEW h \in Shareholder
          PROVE  holding(register, c, h)' >= 0
      <4>1. holding(register, c, h) >= 0
        BY DEF NonNegative
      <4>2. Checked(k) /\ req[k].class = c /\ req[k].from = h =>
              req[k].quantity <= holding(register, c, h)
        BY DEF CheckedBoundHolds
      <4>3. QED BY <2>3, <4>1, <4>2, CommitMoves
    <3>5. QED BY <2>1, <3>3, <3>4 DEF CheckedBoundHolds, NonNegative
  <2>4. QED BY <1>2, <2>2, <2>3, StepShape
<1>3. QED BY <1>1, <1>2

\* A master change touches nothing the invariant speaks of.
LEMMA MastersInv ==
  ASSUME RegisterInv, Masters \/ UNCHANGED registerVars, TypeOK'
  PROVE  RegisterInv'
<1>1. /\ pc' = pc /\ req' = req /\ locks' = locks /\ register' = register
  BY DEF Masters, register_share_class, update_share_class, register_shareholder,
         registerVars, hubVars
<1>2. ValidUnderWay'
  BY <1>1, Zenon DEF RegisterInv, ValidUnderWay, Valid
<1>3. PositionsAreLocked' /\ CheckedBoundHolds' /\ NonNegative'
  BY <1>1 DEF RegisterInv, PositionsAreLocked, Holds, CheckedBoundHolds, Checked,
              NonNegative, holding
<1>4. QED BY <1>2, <1>3 DEF RegisterInv

\* The invariant holds of an empty register.
LEMMA RegisterInvInit ==
  ASSUME RegisterInit
  PROVE  RegisterInv
<1>1. TypeOK
  BY DEF RegisterInit, HubInit, TypeOK, AwaitsOf, ShareClassRow
<1>2. \A k \in Call : pc[k] \notin Await /\ ~ Holds(k) /\ ~ Checked(k)
  BY DEF RegisterInit, HubInit, Await, Holds, Checked
<1>3. locks = {} /\ register = << >>
  BY DEF RegisterInit, HubInit
<1>4. \A c \in ShareClass, h \in Shareholder : holding(register, c, h) >= 0
  BY <1>3, HoldingEmpty
<1>5. QED
  BY <1>1, <1>2, <1>3, <1>4 DEF RegisterInv, ValidUnderWay, PositionsAreLocked,
                                CheckedBoundHolds, NonNegative

\* Every step keeps the invariant.
LEMMA RegisterInvStep ==
  ASSUME RegisterInv, [RegisterNext]_registerVars
  PROVE  RegisterInv'
<1>1. CASE Masters \/ UNCHANGED registerVars
  <2>1. TypeOK'
    BY <1>1, MastersType DEF RegisterInv, TypeOK, registerVars, hubVars, AwaitsOf
  <2>2. QED BY <1>1, <2>1, MastersInv
<1>2. ASSUME NEW k \in Call, begin_call(k) \/ MovementStep(k) \/ interrupt_call(k)
      PROVE  RegisterInv'
  <2>1. TypeOK' /\ ValidUnderWay' /\ PositionsAreLocked'
    BY <1>2, CallType, ValidStep, LocksStep DEF RegisterInv
  <2>2. QED BY <1>2, <2>1, BoundStep DEF RegisterInv
<1>3. QED BY <1>1, <1>2 DEF RegisterNext

\* The invariant holds in every state.
LEMMA RegisterInvariant == RegisterSpec => []RegisterInv
BY RegisterInvInit, RegisterInvStep, PTL DEF RegisterSpec

\* No holder ever holds a negative number of shares, whatever transfers,
\* buybacks and issues interleave and wherever they are interrupted.
THEOREM HoldingsNeverNegative == RegisterSpec => []NonNegative
<1>1. RegisterInv => NonNegative
  BY DEF RegisterInv
<1>2. QED BY <1>1, RegisterInvariant, PTL

\* The holding a removal was checked against covers it until the removal ends.
THEOREM BoundNeverStale == RegisterSpec => []CheckedBoundHolds
<1>1. RegisterInv => CheckedBoundHolds
  BY DEF RegisterInv
<1>2. QED BY <1>1, RegisterInvariant, PTL

\* A position is locked by the one removal of it that is under way.
THEOREM OneRemovalAPosition == RegisterSpec => []PositionsAreLocked
<1>1. RegisterInv => PositionsAreLocked
  BY DEF RegisterInv
<1>2. QED BY <1>1, RegisterInvariant, PTL

-----------------------------------------------------------------------------
(* A step either leaves the register alone or commits one movement.        *)

\* The rows of the register change when a movement commits, and only then.
LEMMA RegisterStep ==
  ASSUME RegisterInv, [RegisterNext]_registerVars
  PROVE  \/ register' = register
         \/ \E k \in Call : /\ Commits(k) /\ req' = req
                            /\ req[k] \in Movement /\ Valid(req[k])
<1>1. CASE Masters \/ UNCHANGED registerVars
  BY <1>1 DEF Masters, register_share_class, update_share_class, register_shareholder,
              registerVars, hubVars
<1>2. ASSUME NEW k \in Call, begin_call(k)
      PROVE  register' = register
  BY <1>2 DEF begin_call
<1>3. ASSUME NEW k \in Call, MovementStep(k) \/ interrupt_call(k)
      PROVE  register' = register \/ (/\ Commits(k) /\ req' = req
                                      /\ req[k] \in Movement /\ Valid(req[k]))
  <2>1. CASE GoesOn(k) \/ TakesLock(k) \/ Ends(k)
    BY <2>1 DEF GoesOn, TakesLock, Ends
  <2>2. CASE Commits(k)
    <3>1. req[k] \in Movement /\ Valid(req[k])
      BY <2>2, AdvanceShape, MovementByVerb DEF Commits, Await, ValidUnderWay, RegisterInv
    <3>2. QED BY <1>3, <2>2, <3>1, StepShape
  <2>3. QED BY <1>3, <2>1, <2>2, StepShape
<1>4. QED BY <1>1, <1>2, <1>3 DEF RegisterNext

-----------------------------------------------------------------------------
(* Shares are neither made nor lost between holders.                       *)

\* What the holders of a class hold together.
HeldTotal(rows, c) ==
  SetSum([h \in Shareholder |-> holding(rows, c, h)], Shareholder)

\* What a row adds to it.
Weight(row, c) ==
  IF row.class # c THEN 0
  ELSE IF row.txn_type \in {"issue", "transfer_in"} THEN row.quantity
                                                    ELSE - row.quantity

\* A holding is a number.
LEMMA HoldingType ==
  ASSUME NEW rows \in Seq(Row), NEW c \in ShareClass, NEW h \in Shareholder
  PROVE  holding(rows, c, h) \in Int
<1>1. \A r \in Row : Signed(r, c, h) \in Int
  BY DEF Row, Signed
<1>2. [i \in 1 .. Len(rows) |-> Signed(rows[i], c, h)] \in Seq(Int)
  <2>1. Len(rows) \in Nat /\ \A i \in 1 .. Len(rows) : rows[i] \in Row
    OBVIOUS
  <2>2. [i \in 1 .. Len(rows) |-> Signed(rows[i], c, h)] \in [1 .. Len(rows) -> Int]
    BY <1>1, <2>1
  <2>3. QED BY <2>1, <2>2, SeqDef
<1>3. QED BY <1>2, SumSeqType DEF holding

\* A row changes the holding of its holder, and so the total by its weight.
LEMMA HeldTotalAppend ==
  ASSUME NEW rows \in Seq(Row), NEW row \in Row, NEW c \in ShareClass
  PROVE  /\ HeldTotal(rows, c) \in Int
         /\ HeldTotal(Append(rows, row), c) = HeldTotal(rows, c) + Weight(row, c)
<1> DEFINE f == [h \in Shareholder |-> holding(rows, c, h)]
           g == [h \in Shareholder |-> holding(Append(rows, row), c, h)]
<1>1. \A h \in Shareholder :
        /\ f[h] \in Int /\ Signed(row, c, h) \in Int
        /\ g[h] = f[h] + Signed(row, c, h)
  <2>1. \A h \in Shareholder : Signed(row, c, h) \in Int
    BY DEF Signed, Row
  <2>2. QED BY <2>1, HoldingAppend
<1>2. /\ row.holder \in Shareholder
      /\ \A h \in Shareholder \ {row.holder} : Signed(row, c, h) = 0
      /\ Signed(row, c, row.holder) = Weight(row, c)
  BY DEF Row, Signed, Weight
<1> HIDE DEF f, g
<1>3. /\ \A h \in Shareholder : f[h] \in Int /\ g[h] \in Int
      /\ \A h \in Shareholder \ {row.holder} : g[h] = f[h]
      /\ g[row.holder] - f[row.holder] = Weight(row, c)
  BY <1>1, <1>2
<1>4. /\ SetSum(f, Shareholder) \in Int
      /\ SetSum(g, Shareholder) = SetSum(f, Shareholder) + (g[row.holder] - f[row.holder])
  BY <1>2, <1>3, IdsAssumption, SetSumUpdate
<1>5. QED BY <1>3, <1>4 DEF HeldTotal, f, g

\* A row adds what it counts for to the shares outstanding.
LEMMA OutstandingAppend ==
  ASSUME NEW rows \in Seq(Row), NEW row \in Row, NEW c \in ShareClass
  PROVE  /\ shares_outstanding(rows, c) \in Int
         /\ shares_outstanding(Append(rows, row), c)
              = shares_outstanding(rows, c) + Counted(row, c)
<1> DEFINE n == Len(rows)
           all == Append(rows, row)
           d == [i \in 1 .. n |-> Counted(rows[i], c)]
           e == [i \in 1 .. Len(all) |-> Counted(all[i], c)]
<1>1. n \in Nat /\ Len(all) = n + 1 /\ all[n + 1] = row
      /\ (\A i \in 1 .. n : all[i] = rows[i]) /\ (\A i \in 1 .. n : rows[i] \in Row)
  OBVIOUS
<1>2. \A r \in Row : Counted(r, c) \in Int
  BY DEF Row, Counted
<1> HIDE DEF all
<1>3. \A i \in 1 .. n + 1 : i \in 1 .. n \/ i = n + 1
  BY <1>1
<1>4. /\ d \in [1 .. n -> Int]
      /\ e \in [1 .. n + 1 -> Int]
      /\ e[n + 1] = Counted(row, c)
      /\ \A i \in 1 .. n : e[i] = d[i]
  BY <1>1, <1>2, <1>3
<1>5. SumSeq(d) \in Int /\ SumSeq(e) = SumSeq(d) + Counted(row, c)
  <2> HIDE DEF n, d, e
  <2>1. QED BY <1>1, <1>4, SumSeqExtend
<1>6. QED BY <1>1, <1>5 DEF shares_outstanding, all

\* Both totals are numbers.
LEMMA TotalsType ==
  ASSUME NEW rows \in Seq(Row), NEW c \in ShareClass
  PROVE  HeldTotal(rows, c) \in Int /\ shares_outstanding(rows, c) \in Int
<1>1. HeldTotal(rows, c) \in Int
  <2> DEFINE f == [h \in Shareholder |-> holding(rows, c, h)]
  <2>1. \A h \in Shareholder : f[h] \in Int
    BY HoldingType
  <2> HIDE DEF f
  <2>2. SetSum(f, Shareholder) \in Int
    BY <2>1, IdsAssumption, SetSumType
  <2>3. QED BY <2>2 DEF HeldTotal, f
<1>2. shares_outstanding(rows, c) \in Int
  <2>1. \A r \in Row : Counted(r, c) \in Int
    BY DEF Row, Counted
  <2>2. Len(rows) \in Nat /\ \A i \in 1 .. Len(rows) : rows[i] \in Row
    OBVIOUS
  <2>3. [i \in 1 .. Len(rows) |-> Counted(rows[i], c)] \in [1 .. Len(rows) -> Int]
    BY <2>1, <2>2
  <2>4. QED BY <2>2, <2>3, SeqDef, SumSeqType DEF shares_outstanding
<1>3. QED BY <1>1, <1>2

\* The rows of a movement change both by the same.
LEMMA RowsKeepTotal ==
  ASSUME NEW k \in Call, req[k] \in Movement, register \in Seq(Row),
         NEW c \in ShareClass
  PROVE  HeldTotal(register \o Rows(k), c) - shares_outstanding(register \o Rows(k), c)
           = HeldTotal(register, c) - shares_outstanding(register, c)
<1> DEFINE Excess(rows) == HeldTotal(rows, c) - shares_outstanding(rows, c)
           Adds(row) == Weight(row, c) - Counted(row, c)
<1>1. \A rows \in Seq(Row) : \A row \in Row :
        /\ Append(rows, row) \in Seq(Row) /\ rows \o << row >> = Append(rows, row)
        /\ Excess(rows) \in Int /\ Adds(row) \in Int
        /\ Excess(Append(rows, row)) = Excess(rows) + Adds(row)
  <2> TAKE rows \in Seq(Row)
  <2> TAKE row \in Row
  <2>1. Weight(row, c) \in Int /\ Counted(row, c) \in Int
    BY DEF Weight, Counted, Row
  <2>2. rows \o << row >> = Append(rows, row) /\ Append(rows, row) \in Seq(Row)
    BY AppendIsConcat
  <2>3. QED BY <2>1, <2>2, HeldTotalAppend, OutstandingAppend
<1>2. CASE req[k] \in IssueShares \cup BuybackShares
  <2>1. PICK row \in Row : Rows(k) = << row >> /\ Adds(row) = 0
    <3>1. CASE req[k] \in IssueShares
      <4>1. /\ Rows(k) = << IssueRow(k) >> /\ IssueRow(k) \in Row
            /\ Adds(IssueRow(k)) = 0
        BY <3>1, RowsOf DEF IssueShares, IssueRow, Row, TxnType, Weight, Counted
      <4> HIDE DEF Adds
      <4>2. QED BY <4>1
    <3>2. CASE req[k] \in BuybackShares
      <4>1. /\ Rows(k) = << BuybackRow(k) >> /\ BuybackRow(k) \in Row
            /\ Adds(BuybackRow(k)) = 0
        BY <3>2, RowsOf DEF BuybackShares, BuybackRow, Row, TxnType, Weight, Counted
      <4> HIDE DEF Adds
      <4>2. QED BY <4>1
    <3>3. QED BY <1>2, <3>1, <3>2
  <2> HIDE DEF Excess, Adds
  <2>2. register \o Rows(k) = Append(register, row)
    BY <1>1, <2>1
  <2>3. Excess(Append(register, row)) = Excess(register) + Adds(row) /\ Excess(register) \in Int
    BY <1>1, Zenon
  <2>4. Excess(register \o Rows(k)) = Excess(register)
    <3>1. Excess(register \o Rows(k)) = Excess(register) + Adds(row)
      BY <2>2, <2>3, Zenon
    <3>2. QED BY <2>1, <2>3, <3>1
  <2>5. QED BY <2>4 DEF Excess
<1>3. CASE req[k] \in TransferShares
  <2> DEFINE out == TransferLeg(k, "transfer_out", req[k].from)
             in  == TransferLeg(k, "transfer_in", req[k].to)
             once == Append(register, out)
  <2>1. /\ Rows(k) = << out, in >> /\ out \in Row /\ in \in Row
        /\ Adds(out) + Adds(in) = 0
    BY <1>3, RowsOf DEF TransferShares, TransferLeg, Row, TxnType, Weight, Counted
  <2> HIDE DEF out, in, Excess, Adds
  <2>2. register \o << out, in >> = Append(once, in)
    OBVIOUS
  <2> HIDE DEF once
  <2>3. /\ once \in Seq(Row) /\ Excess(register) \in Int /\ Adds(out) \in Int
        /\ Excess(once) = Excess(register) + Adds(out)
    BY <1>1, <2>1, Zenon DEF once
  <2>4. Adds(in) \in Int /\ Excess(Append(once, in)) = Excess(once) + Adds(in)
    BY <1>1, <2>1, <2>3, Zenon
  <2>5. Excess(register \o Rows(k)) = Excess(register)
    <3>1. Excess(register \o Rows(k)) = Excess(once) + Adds(in)
      BY <2>1, <2>2, <2>4, Zenon
    <3>2. Adds(out) + Adds(in) = 0
      BY <2>1
    <3>3. QED BY <2>3, <2>4, <3>1, <3>2
  <2>6. QED BY <2>5 DEF Excess
<1>4. QED BY <1>2, <1>3 DEF Movement

\* The property's sum, as a sum of a function.
LEMMA HeldIsSetSum ==
  ASSUME NEW rows \in Seq(Row), NEW c \in ShareClass
  PROVE  HeldInAll(rows, c) = HeldTotal(rows, c)
<1> DEFINE f == [h \in Shareholder |-> holding(rows, c, h)]
           Sums(r) == r = [T \in SUBSET Shareholder |->
                             IF T = {} THEN 0
                             ELSE holding(rows, c, CHOOSE x \in T : TRUE)
                                    + r[T \ {CHOOSE x \in T : TRUE}]]
<1>1. \A h \in Shareholder : f[h] \in Int
  <2>1. \A h \in Shareholder : holding(rows, c, h) \in Int
    BY HoldingType
  <2>2. QED BY <2>1
<1>2. \A r : Sums(r) <=> IsSetSum(r, f, Shareholder)
  <2>1. \A T \in SUBSET Shareholder : T # {} =>
          f[CHOOSE x \in T : TRUE] = holding(rows, c, CHOOSE x \in T : TRUE)
    OBVIOUS
  <2>2. QED BY <2>1 DEF IsSetSum, Pick
<1>3. PICK r : IsSetSum(r, f, Shareholder)
  <2> HIDE DEF f
  <2>1. QED BY <1>1, IdsAssumption, SetSumExists
<1> DEFINE q == CHOOSE s : Sums(s)
<1>4. Sums(q)
  <2>1. Sums(r)
    BY <1>2, <1>3
  <2> HIDE DEF Sums
  <2>2. QED BY <2>1
<1>5. q[Shareholder] = SetSum(f, Shareholder)
  <2>1. IsSetSum(q, f, Shareholder)
    BY <1>2, <1>4
  <2> HIDE DEF q, f
  <2>2. QED BY <2>1, IdsAssumption, SetSumIs
<1>6. HeldInAll(rows, c) = q[Shareholder]
  BY DEF HeldInAll, MapThenSumSet, MapThenFoldSet
<1>7. QED BY <1>5, <1>6 DEF HeldTotal

\* The two totals of every class agree.
TotalsAgree ==
  \A c \in ShareClass : HeldTotal(register, c) = shares_outstanding(register, c)

\* They agree on an empty register.
LEMMA TotalsAgreeInit ==
  ASSUME register = << >>
  PROVE  TotalsAgree
<1> SUFFICES ASSUME NEW c \in ShareClass
             PROVE  HeldTotal(<< >>, c) = shares_outstanding(<< >>, c)
  BY DEF TotalsAgree
<1> DEFINE f == [h \in Shareholder |-> holding(<< >>, c, h)]
           zero == [h \in Shareholder |-> 0]
<1>1. SetSum(f, Shareholder) = SetSum(zero, Shareholder)
  <2>1. \A h \in Shareholder : f[h] \in Int /\ f[h] = zero[h]
    BY HoldingEmpty
  <2> HIDE DEF f, zero
  <2>2. QED BY <2>1, IdsAssumption, SetSumSame
<1>2. SetSum(zero, Shareholder) = 0
  <2>1. \A h \in Shareholder : zero[h] = 0
    OBVIOUS
  <2> HIDE DEF zero
  <2>2. QED BY <2>1, IdsAssumption, SetSumZero
<1>3. [i \in 1 .. Len(<< >>) |-> Counted(<< >>[i], c)] = << >>
  OBVIOUS
<1>4. shares_outstanding(<< >>, c) = 0
  BY <1>3, SumSeqEmpty DEF shares_outstanding
<1>5. QED BY <1>1, <1>2, <1>4 DEF HeldTotal

\* A step keeps them in agreement.
LEMMA TotalsAgreeStep ==
  ASSUME RegisterInv, TotalsAgree, [RegisterNext]_registerVars
  PROVE  TotalsAgree'
<1> SUFFICES ASSUME NEW c \in ShareClass
             PROVE  HeldTotal(register', c) = shares_outstanding(register', c)
  BY Zenon DEF TotalsAgree, HeldTotal, shares_outstanding, holding
<1>1. HeldTotal(register, c) = shares_outstanding(register, c)
  BY DEF TotalsAgree
<1>2. CASE register' = register
  BY <1>1, <1>2, Zenon
<1>3. ASSUME NEW k \in Call, Commits(k), req[k] \in Movement
      PROVE  HeldTotal(register', c) = shares_outstanding(register', c)
  <2> DEFINE rows == register \o Rows(k)
  <2>1. register \in Seq(Row) /\ rows \in Seq(Row)
    BY <1>3, RowsMove DEF RegisterInv, TypeOK
  <2>2. HeldTotal(rows, c) - shares_outstanding(rows, c)
          = HeldTotal(register, c) - shares_outstanding(register, c)
    BY <1>3, <2>1, RowsKeepTotal
  <2>3. register' = rows
    BY <1>3 DEF Commits
  <2> HIDE DEF rows
  <2>4. /\ HeldTotal(register, c) \in Int /\ shares_outstanding(register, c) \in Int
        /\ HeldTotal(rows, c) \in Int /\ shares_outstanding(rows, c) \in Int
    BY <2>1, TotalsType
  <2>5. QED BY <1>1, <2>2, <2>3, <2>4
<1>4. QED BY <1>2, <1>3, RegisterStep

\* What the holders of a class hold adds up to its shares outstanding, at every
\* moment: however the movements interleave, each commits whole.
THEOREM SharesAreHeld == RegisterSpec => []OutstandingIsHeld
<1>1. RegisterInit => TotalsAgree
  BY TotalsAgreeInit DEF RegisterInit
<1>2. RegisterInv /\ TotalsAgree => OutstandingIsHeld
  BY HeldIsSetSum DEF RegisterInv, TypeOK, TotalsAgree, OutstandingIsHeld
<1>3. QED BY <1>1, <1>2, TotalsAgreeStep, RegisterInvariant, PTL DEF RegisterSpec

-----------------------------------------------------------------------------
(* The verbs implement the cap table.                                      *)

\* The positions are numbers, and a movement that commits changes them by what
\* its request says.
LEMMA PositionsMove ==
  ASSUME RegisterInv, NEW k \in Call, Commits(k), req[k] \in Movement
  PROVE  /\ Positions \in [ShareClass -> [Shareholder -> Int]]
         /\ Positions' \in [ShareClass -> [Shareholder -> Int]]
         /\ \A c \in ShareClass, h \in Shareholder :
              /\ Positions[c][h] = holding(register, c, h)
              /\ Moved(req[k], c, h) \in Int
              /\ Positions'[c][h] = Positions[c][h] + Moved(req[k], c, h)
<1>1. register \in Seq(Row) /\ register' \in Seq(Row) /\ register' = register \o Rows(k)
  BY RowsMove DEF RegisterInv, TypeOK, Commits
<1>2. \A c \in ShareClass, h \in Shareholder :
        /\ holding(register, c, h) \in Int /\ holding(register', c, h) \in Int
        /\ holding(register', c, h) = holding(register, c, h) + Moved(req[k], c, h)
  BY <1>1, RowsMove, HoldingType
<1>3. \A c \in ShareClass, h \in Shareholder : Moved(req[k], c, h) \in Int
  BY DEF Moved, Movement, IssueShares, TransferShares, BuybackShares
<1>4. /\ Positions = [c \in ShareClass |-> [h \in Shareholder |-> holding(register, c, h)]]
      /\ Positions' = [c \in ShareClass |-> [h \in Shareholder |-> holding(register', c, h)]]
  BY Zenon DEF Positions, holding
<1> HIDE DEF Positions
<1>5. QED BY <1>2, <1>3, <1>4

\* A movement that commits is one step of the cap table.
LEMMA CommitIsMovement ==
  ASSUME RegisterInv, NEW k \in Call, Commits(k), req[k] \in Movement, Valid(req[k])
  PROVE  Abstract!CapTableNext
<1> DEFINE r == req[k]
           c == r.class
           P == Positions
           Q == Positions'
<1>1. /\ P \in [ShareClass -> [Shareholder -> Int]]
      /\ Q \in [ShareClass -> [Shareholder -> Int]]
      /\ \A d \in ShareClass, h \in Shareholder :
           /\ P[d][h] = holding(register, d, h)
           /\ Q[d][h] = P[d][h] + Moved(r, d, h)
  BY PositionsMove
<1>2. r.quantity > 0 /\ (r.verb = "transfer" => r.from # r.to)
  BY ValidMovement
<1>3. r.verb \in Removal => Checked(k)
  BY DEF Commits, Checked
<1> HIDE DEF P, Q
<1>4. CASE r \in IssueShares
  <2>1. c \in ShareClass /\ r.to \in Shareholder /\ r.quantity \in Int
    BY <1>4 DEF IssueShares
  <2>2. \A d \in ShareClass, h \in Shareholder :
          Moved(r, d, h) = IF d = c /\ h = r.to THEN r.quantity ELSE 0
    BY <1>4 DEF IssueShares, Moved
  <2>3. /\ Q = [P EXCEPT ![c][r.to] = Q[c][r.to]]
        /\ P[c][r.to] - Q[c][r.to] < 0
    <3>1. /\ \A d \in ShareClass, h \in Shareholder :
               d # c \/ h # r.to => Q[d][h] = P[d][h]
          /\ Q[c][r.to] = P[c][r.to] + r.quantity
          /\ P[c][r.to] \in Int
      BY <1>1, <2>1, <2>2
    <3>2. Q = [P EXCEPT ![c][r.to] = Q[c][r.to]]
      BY <1>1, <2>1, <3>1
    <3>3. QED BY <1>2, <2>1, <3>1, <3>2
  <2>4. Abstract!Issue(c, r.to)
    BY <2>3 DEF Abstract!Issue, Abstract!Lost, P, Q
  <2>5. QED BY <2>1, <2>4 DEF Abstract!CapTableNext
<1>5. CASE r \in BuybackShares
  <2>1. c \in ShareClass /\ r.from \in Shareholder /\ r.quantity \in Int
        /\ r.verb = "buyback"
    BY <1>5 DEF BuybackShares
  <2>2. \A d \in ShareClass, h \in Shareholder :
          Moved(r, d, h) = IF d = c /\ h = r.from THEN - r.quantity ELSE 0
    BY <1>5 DEF BuybackShares, Moved
  <2>3. r.quantity <= P[c][r.from]
    BY <1>1, <1>3, <2>1 DEF Removal, RegisterInv, CheckedBoundHolds
  <2>4. /\ Q = [P EXCEPT ![c][r.from] = Q[c][r.from]]
        /\ P[c][r.from] - Q[c][r.from] > 0
        /\ P[c][r.from] - Q[c][r.from] <= P[c][r.from]
    <3>1. /\ \A d \in ShareClass, h \in Shareholder :
               d # c \/ h # r.from => Q[d][h] = P[d][h]
          /\ Q[c][r.from] = P[c][r.from] - r.quantity
          /\ P[c][r.from] \in Int
      BY <1>1, <2>1, <2>2
    <3>2. Q = [P EXCEPT ![c][r.from] = Q[c][r.from]]
      BY <1>1, <2>1, <3>1
    <3>3. QED BY <1>2, <2>1, <2>3, <3>1, <3>2
  <2>5. Abstract!Buyback(c, r.from)
    BY <2>4 DEF Abstract!Buyback, Abstract!Lost, P, Q
  <2>6. QED BY <2>1, <2>5 DEF Abstract!CapTableNext
<1>6. CASE r \in TransferShares
  <2>1. /\ c \in ShareClass /\ r.from \in Shareholder /\ r.to \in Shareholder
        /\ r.quantity \in Int /\ r.verb = "transfer" /\ r.from # r.to
    BY <1>2, <1>6 DEF TransferShares
  <2>2. \A d \in ShareClass, h \in Shareholder :
          Moved(r, d, h) = IF d = c /\ h = r.from THEN - r.quantity
                           ELSE IF d = c /\ h = r.to THEN r.quantity ELSE 0
    BY <1>6, <2>1 DEF TransferShares, Moved
  <2>3. r.quantity <= P[c][r.from]
    BY <1>1, <1>3, <2>1 DEF Removal, RegisterInv, CheckedBoundHolds
  <2> DEFINE lost == P[c][r.from] - Q[c][r.from]
  <2>4. lost = r.quantity
    BY <1>1, <2>1, <2>2
  <2>5. Q = [P EXCEPT ![c][r.from] = @ - lost, ![c][r.to] = @ + lost]
    <3> DEFINE R == [P EXCEPT ![c][r.from] = @ - lost, ![c][r.to] = @ + lost]
    <3>1. R \in [ShareClass -> [Shareholder -> Int]]
      BY <1>1, <2>1, <2>4
    <3>2. \A d \in ShareClass, h \in Shareholder : d # c => R[d][h] = Q[d][h]
      BY <1>1, <2>1, <2>2
    <3>3. R[c] = [P[c] EXCEPT ![r.from] = @ - lost, ![r.to] = @ + lost]
      BY <1>1, <2>1
    <3>4. \A h \in Shareholder : R[c][h] = Q[c][h]
      BY <1>1, <2>1, <2>2, <2>4, <3>3
    <3> HIDE DEF R
    <3>5. \A d \in ShareClass, h \in Shareholder : R[d][h] = Q[d][h]
      BY <3>2, <3>4
    <3>6. R = Q
      BY <1>1, <3>1, <3>5
    <3>7. QED BY <3>6 DEF R
  <2>6. Abstract!Transfer(c, r.from, r.to)
    BY <1>2, <2>1, <2>3, <2>4, <2>5 DEF Abstract!Transfer, Abstract!Lost, P, Q
  <2>7. QED BY <2>1, <2>6 DEF Abstract!CapTableNext
<1>7. QED BY <1>4, <1>5, <1>6 DEF Movement

\* An empty register is an empty cap table.
LEMMA PositionsInit ==
  ASSUME RegisterInit
  PROVE  Abstract!CapTableInit
BY HoldingEmpty DEF RegisterInit, Abstract!CapTableInit, Positions

\* A step of the register is a step of the cap table, or leaves it alone.
LEMMA PositionsStep ==
  ASSUME RegisterInv, [RegisterNext]_registerVars
  PROVE  [Abstract!CapTableNext]_Positions
<1> SUFFICES Abstract!CapTableNext \/ Positions' = Positions
  OBVIOUS
<1>1. CASE register' = register
  BY <1>1, Zenon DEF Positions, holding
<1>2. ASSUME NEW k \in Call, Commits(k), req[k] \in Movement, Valid(req[k])
      PROVE  Abstract!CapTableNext
  BY <1>2, CommitIsMovement
<1>3. QED BY <1>1, <1>2, RegisterStep

\* Every step of the register is one whole movement of the cap table, or leaves
\* the positions alone: no reader ever sees a transfer half done.
THEOREM RegisterImplementsCapTable == RegisterSpec => ImplementsCapTable
BY PositionsInit, PositionsStep, RegisterInvariant, PTL
   DEF RegisterSpec, ImplementsCapTable, Abstract!CapTableSpec

-----------------------------------------------------------------------------
(* Replaying the outbox.  A record is stamped before it is committed, and  *)
(* records commit in another order than they were stamped.  Replaying what *)
(* was stamped up to a time t still never drives a holder negative, since  *)
(* a removal takes its stamp while it holds the lock of its position: what *)
(* was there when it was checked has been stamped before.                  *)

\* The replay of a given log.
ReplayedIn(log, t, c, h) ==
  SumSeq([i \in 1 .. Len(log) |->
            IF log[i].at <= t THEN Effect(log[i].event, c, h) ELSE 0])

\* The records and the stamps taken so far are not from the future.
Stamped ==
  /\ \A k \in Call : stamp[k] <= clock
  /\ \A i \in 1 .. Len(outbox) : outbox[i].at <= clock

\* A removal about to commit is covered by what was stamped before it.
StampedBound ==
  \A k \in Call : (pc[k] = "commit" /\ req[k].verb \in Removal) =>
    \A t \in Nat : t >= stamp[k] =>
      req[k].quantity <= Replayed(t, req[k].class, req[k].from)

\* At no time does the replay have a holder negative.
ReplayedNotNegative ==
  \A c \in ShareClass, h \in Shareholder, t \in Nat : Replayed(t, c, h) >= 0

ReplayInv == Stamped /\ ReplayIsRegister /\ StampedBound /\ ReplayedNotNegative

\* The steps, by what they do to the clock and the outbox.
Stages(k) ==
  /\ pc[k] = "stage" /\ Advance(k) /\ req' = req
  /\ clock' = clock + 1 /\ stamp' = [stamp EXCEPT ![k] = clock + 1]
  /\ outbox' = outbox /\ register' = register
Records(k) ==
  /\ Commits(k) /\ req' = req /\ clock' = clock /\ stamp' = stamp
  /\ outbox' = Append(outbox, [call |-> k, at |-> stamp[k], event |-> Event(k)])
Untimed ==
  /\ outbox' = outbox /\ clock' = clock /\ stamp' = stamp /\ register' = register
  /\ \A i \in Call : pc'[i] = "commit" => pc[i] = "commit" /\ req'[i] = req[i]

\* Only a staged record is about to be committed.
LEMMA CommitFollowsStage ==
  ASSUME NEW r \in Request, NEW a \in DOMAIN Awaits[r.verb], Awaits[r.verb][a] = "commit"
  PROVE  a = "stage"
<1>1. r.verb \in {"issue", "transfer", "buyback", "declare", "pay"}
  BY DEF Request, Movement, IssueShares, TransferShares, BuybackShares,
         DeclareDividend, PayDividend
<1>2. CASE r.verb = "issue"
  BY <1>2 DEF Awaits, IssueAwaits
<1>3. CASE r.verb = "transfer"
  BY <1>3 DEF Awaits, TransferAwaits
<1>4. CASE r.verb = "buyback"
  BY <1>4 DEF Awaits, BuybackAwaits
<1>5. CASE r.verb = "declare"
  BY <1>5 DEF Awaits, DeclareAwaits
<1>6. CASE r.verb = "pay"
  BY <1>6 DEF Awaits, PayAwaits
<1>7. QED BY <1>1, <1>2, <1>3, <1>4, <1>5, <1>6

\* Every step is of one of these kinds.
LEMMA TimeStep ==
  ASSUME RegisterInv, [RegisterNext]_registerVars
  PROVE  Untimed \/ \E k \in Call : Stages(k) \/ Records(k)
<1> USE DEF RegisterInv
<1>1. CASE Masters \/ UNCHANGED registerVars
  BY <1>1 DEF Masters, register_share_class, update_share_class, register_shareholder,
              registerVars, hubVars, Untimed
<1>2. ASSUME NEW k \in Call, begin_call(k)
      PROVE  Untimed
  <2>1. PICK r \in Requests[k] :
          /\ req' = [req EXCEPT ![k] = r]
          /\ pc' = [pc EXCEPT ![k] = IF Valid(r) THEN First[r.verb] ELSE "refused"]
    BY <1>2 DEF begin_call, Begin
  <2>2. r \in Request
    BY <2>1, RequestsAssumption
  <2>3. pc'[k] \in {"load", "lock", "outstanding", "fetch", "refused"}
    BY <2>1, <2>2 DEF TypeOK, First, Request, Movement, IssueShares, TransferShares,
                      BuybackShares, DeclareDividend, PayDividend
  <2>4. \A i \in Call \ {k} : pc'[i] = pc[i] /\ req'[i] = req[i]
    BY <2>1 DEF TypeOK
  <2>5. /\ outbox' = outbox /\ clock' = clock /\ stamp' = stamp /\ register' = register
    BY <1>2 DEF begin_call, Begin
  <2>6. QED BY <2>3, <2>4, <2>5 DEF Untimed
<1>3. ASSUME NEW k \in Call, MovementStep(k) \/ interrupt_call(k)
      PROVE  Untimed \/ Stages(k) \/ Records(k)
  <2>1. req' = req
    BY <1>3, StepShape
  <2>2. \A e \in Ended : pc' = [pc EXCEPT ![k] = e] =>
          \A i \in Call : pc'[i] = "commit" => pc[i] = "commit"
    BY DEF TypeOK, Ended
  <2>3. Refuse(k) => \A i \in Call : pc'[i] = "commit" => pc[i] = "commit"
    BY <2>2 DEF Refuse, Ended
  <2>4. Advance(k) /\ pc[k] \in Await \ {"stage", "publish"} =>
          \A i \in Call : pc'[i] = "commit" => pc[i] = "commit"
    BY AdvanceShape, CommitFollowsStage
  <2>5. {"load", "lock", "holding", "insert", "post"} \subseteq Await \ {"stage", "publish"}
    BY DEF Await
  <2>6. CASE load_class(k)
    BY <2>1, <2>3, <2>4, <2>5, <2>6 DEF load_class, Untimed
  <2>7. CASE lock_position(k)
    BY <2>1, <2>4, <2>5, <2>7 DEF lock_position, Untimed
  <2>8. CASE check_holding(k)
    BY <2>1, <2>3, <2>4, <2>5, <2>8 DEF check_holding, Untimed
  <2>9. CASE insert_rows(k)
    BY <2>1, <2>3, <2>4, <2>5, <2>9 DEF insert_rows, Untimed
  <2>10. CASE post_movement(k)
    BY <2>1, <2>3, <2>4, <2>5, <2>10 DEF post_movement, Post, Untimed
  <2>11. CASE stage_event(k)
    <3>1. CASE Refuse(k) /\ UNCHANGED << clock, stamp >>
      BY <2>1, <2>3, <2>11, <3>1 DEF stage_event, Stage, Untimed
    <3>2. CASE Advance(k) /\ clock' = clock + 1 /\ stamp' = [stamp EXCEPT ![k] = clock']
      BY <2>1, <2>11, <3>2 DEF stage_event, Stage, Stages
    <3>3. QED BY <2>11, <3>1, <3>2 DEF stage_event, Stage
  <2>12. CASE commit_movement(k)
    BY <2>1, <2>12 DEF commit_movement, CommitOutbox, Commits, Records
  <2>13. CASE publish_event(k)
    BY <2>1, <2>2, <2>13 DEF publish_event, Publish, Untimed, Ended
  <2>14. CASE interrupt_call(k)
    BY <2>1, <2>2, <2>14 DEF interrupt_call, Interrupt, Untimed, Ended
  <2>15. QED
    BY <1>3, <2>6, <2>7, <2>8, <2>9, <2>10, <2>11, <2>12, <2>13, <2>14 DEF MovementStep
<1>4. QED BY <1>1, <1>2, <1>3 DEF RegisterNext

\* The effect of an event is a number.
LEMMA EffectType ==
  ASSUME NEW e \in EquityEvent, NEW c \in ShareClass, NEW h \in Shareholder
  PROVE  Effect(e, c, h) \in Int
BY DEF Effect, EquityEvent, SharesIssued, SharesTransferred, SharesBoughtBack,
       DividendDeclared, DividendPaid

\* The effect of a movement's event is what the movement does to the register.
LEMMA EffectIsMoved ==
  ASSUME NEW k \in Call, req[k] \in Movement, NEW c \in ShareClass, NEW h \in Shareholder
  PROVE  Effect(Event(k), c, h) = Moved(req[k], c, h)
<1>1. /\ req[k].verb = "issue" =>
           Event(k) = [type |-> "SharesIssued", class |-> req[k].class,
                       to |-> req[k].to, quantity |-> req[k].quantity]
      /\ req[k].verb = "transfer" =>
           Event(k) = [type |-> "SharesTransferred", class |-> req[k].class,
                       from |-> req[k].from, to |-> req[k].to,
                       quantity |-> req[k].quantity]
      /\ req[k].verb = "buyback" =>
           Event(k) = [type |-> "SharesBoughtBack", class |-> req[k].class,
                       from |-> req[k].from, quantity |-> req[k].quantity]
  BY Zenon DEF Event
<1>2. CASE req[k] \in IssueShares
  BY <1>1, <1>2 DEF IssueShares, Effect, Moved
<1>3. CASE req[k] \in TransferShares
  BY <1>1, <1>3 DEF TransferShares, Effect, Moved
<1>4. CASE req[k] \in BuybackShares
  BY <1>1, <1>4 DEF BuybackShares, Effect, Moved
<1>5. QED BY <1>2, <1>3, <1>4 DEF Movement

\* A record adds its effect to the replay of every time from its stamp on.
LEMMA ReplayAppend ==
  ASSUME NEW log \in Seq(OutboxRecord), NEW rec \in OutboxRecord,
         NEW t \in Nat, NEW c \in ShareClass, NEW h \in Shareholder
  PROVE  /\ ReplayedIn(log, t, c, h) \in Int
         /\ ReplayedIn(Append(log, rec), t, c, h)
              = ReplayedIn(log, t, c, h)
                  + IF rec.at <= t THEN Effect(rec.event, c, h) ELSE 0
<1> DEFINE n == Len(log)
           all == Append(log, rec)
           Adds(r) == IF r.at <= t THEN Effect(r.event, c, h) ELSE 0
           d == [i \in 1 .. n |-> Adds(log[i])]
           e == [i \in 1 .. Len(all) |-> Adds(all[i])]
<1>1. n \in Nat /\ Len(all) = n + 1 /\ all[n + 1] = rec
      /\ (\A i \in 1 .. n : all[i] = log[i]) /\ (\A i \in 1 .. n : log[i] \in OutboxRecord)
  OBVIOUS
<1>2. \A r \in OutboxRecord : Adds(r) \in Int
  BY EffectType DEF OutboxRecord
<1>3. ReplayedIn(log, t, c, h) = SumSeq(d) /\ ReplayedIn(all, t, c, h) = SumSeq(e)
  BY DEF ReplayedIn
<1>4. Adds(rec) = IF rec.at <= t THEN Effect(rec.event, c, h) ELSE 0
  OBVIOUS
<1> HIDE DEF all, Adds
<1>5. \A i \in 1 .. n + 1 : i \in 1 .. n \/ i = n + 1
  BY <1>1
<1>6. /\ d \in [1 .. n -> Int]
      /\ e \in [1 .. n + 1 -> Int]
      /\ e[n + 1] = Adds(rec)
      /\ \A i \in 1 .. n : e[i] = d[i]
  BY <1>1, <1>2, <1>5
<1>7. SumSeq(d) \in Int /\ SumSeq(e) = SumSeq(d) + Adds(rec)
  <2> HIDE DEF n, d, e
  <2>1. QED BY <1>1, <1>6, SumSeqExtend
<1>8. QED BY <1>3, <1>4, <1>7 DEF all

\* From the last stamp on, the replay stays the same.
LEMMA ReplayedLate ==
  ASSUME NEW log \in Seq(OutboxRecord), NEW t \in Nat, NEW u \in Nat,
         \A i \in 1 .. Len(log) : log[i].at <= t /\ log[i].at <= u,
         NEW c, NEW h
  PROVE  ReplayedIn(log, t, c, h) = ReplayedIn(log, u, c, h)
BY DEF ReplayedIn

\* The parts of the invariant, with the tables they read named.
LEMMA ReplayNamed ==
  /\ ReplayIsRegister <=>
       \A c \in ShareClass, h \in Shareholder :
         ReplayedIn(outbox, clock, c, h) = holding(register, c, h)
  /\ StampedBound <=>
       \A k \in Call : (pc[k] = "commit" /\ req[k].verb \in Removal) =>
         \A t \in Nat : t >= stamp[k] =>
           req[k].quantity <= ReplayedIn(outbox, t, req[k].class, req[k].from)
  /\ ReplayedNotNegative <=>
       \A c \in ShareClass, h \in Shareholder, t \in Nat : ReplayedIn(outbox, t, c, h) >= 0
BY Zenon DEF ReplayIsRegister, StampedBound, ReplayedNotNegative, Replayed, ReplayedIn

\* The same after a step.
LEMMA ReplayNamedNext ==
  /\ ReplayIsRegister' <=>
       \A c \in ShareClass, h \in Shareholder :
         ReplayedIn(outbox', clock', c, h) = holding(register', c, h)
  /\ StampedBound' <=>
       \A k \in Call : (pc'[k] = "commit" /\ req'[k].verb \in Removal) =>
         \A t \in Nat : t >= stamp'[k] =>
           req'[k].quantity <= ReplayedIn(outbox', t, req'[k].class, req'[k].from)
  /\ ReplayedNotNegative' <=>
       \A c \in ShareClass, h \in Shareholder, t \in Nat : ReplayedIn(outbox', t, c, h) >= 0
BY Zenon DEF ReplayIsRegister, StampedBound, ReplayedNotNegative, Replayed, ReplayedIn, holding

\* A step that is not about time keeps the replay.
LEMMA UntimedKeepsReplay ==
  ASSUME ReplayInv, Untimed
  PROVE  ReplayInv'
<1>1. Stamped'
  BY DEF ReplayInv, Stamped, Untimed
<1>2. ReplayIsRegister'
  BY ReplayNamed, ReplayNamedNext, Zenon DEF ReplayInv, Untimed
<1>3. StampedBound'
  BY ReplayNamed, ReplayNamedNext DEF ReplayInv, Untimed
<1>4. ReplayedNotNegative'
  BY ReplayNamed, ReplayNamedNext, Zenon DEF ReplayInv, Untimed
<1>5. QED BY <1>1, <1>2, <1>3, <1>4 DEF ReplayInv

\* A removal that takes its stamp finds everything it relies on stamped before:
\* its holding was summed under the lock, from rows whose records are older.
LEMMA StageKeepsReplay ==
  ASSUME RegisterInv, ReplayInv, NEW k \in Call, Stages(k)
  PROVE  ReplayInv'
<1>1. /\ clock \in Nat /\ clock' = clock + 1 /\ clock' \in Nat
      /\ outbox \in Seq(OutboxRecord) /\ outbox' = outbox
      /\ register' = register /\ req' = req
      /\ stamp \in [Call -> Nat] /\ stamp' = [stamp EXCEPT ![k] = clock + 1]
  BY DEF RegisterInv, TypeOK, Stages
<1>2. \A i \in 1 .. Len(outbox) : outbox[i].at \in Nat /\ outbox[i].at <= clock
  <2>1. \A i \in 1 .. Len(outbox) : outbox[i] \in OutboxRecord
    BY <1>1
  <2>2. QED BY <2>1 DEF ReplayInv, Stamped, OutboxRecord
<1>3. \A t \in Nat, c \in ShareClass, h \in Shareholder :
        t >= clock => ReplayedIn(outbox, t, c, h) = holding(register, c, h)
  <2> TAKE t \in Nat, c \in ShareClass, h \in Shareholder
  <2> HAVE t >= clock
  <2>1. \A i \in 1 .. Len(outbox) : outbox[i].at <= t /\ outbox[i].at <= clock
    BY <1>1, <1>2
  <2>2. ReplayedIn(outbox, t, c, h) = ReplayedIn(outbox, clock, c, h)
    <3>1. outbox \in Seq(OutboxRecord) /\ clock \in Nat /\ t \in Nat
      BY <1>1
    <3>2. \A log \in Seq(OutboxRecord), u \in Nat, v \in Nat :
            (\A i \in 1 .. Len(log) : log[i].at <= u /\ log[i].at <= v) =>
              ReplayedIn(log, u, c, h) = ReplayedIn(log, v, c, h)
      BY ReplayedLate
    <3>3. QED BY <2>1, <3>1, <3>2
  <2>3. ReplayedIn(outbox, clock, c, h) = holding(register, c, h)
    BY ReplayNamed DEF ReplayInv
  <2>4. QED BY <2>2, <2>3
<1>4. Stamped'
  BY <1>1, <1>2 DEF ReplayInv, Stamped
<1>5. ReplayIsRegister'
  <2>1. \A c \in ShareClass, h \in Shareholder :
          ReplayedIn(outbox, clock', c, h) = holding(register, c, h)
    BY <1>1, <1>3
  <2>2. QED BY <1>1, <2>1, ReplayNamedNext, Zenon
<1>6. ReplayedNotNegative'
  BY <1>1, ReplayNamed, ReplayNamedNext, Zenon DEF ReplayInv
<1>7. ASSUME NEW i \in Call, pc'[i] = "commit", req[i].verb \in Removal,
             NEW t \in Nat, t >= stamp'[i]
      PROVE  req[i].quantity <= ReplayedIn(outbox, t, req[i].class, req[i].from)
  <2>1. CASE i = k
    <3>1. Checked(k)
      BY <1>7, <2>1 DEF Stages, Checked
    <3>2. req[k].quantity <= holding(register, req[k].class, req[k].from)
      BY <3>1 DEF RegisterInv, CheckedBoundHolds
    <3>3. req[k] \in Movement
      BY <1>7, <2>1, AdvanceShape, MovementByVerb
         DEF Stages, Await, RegisterInv, Removal, MovementVerb
    <3>4. req[k].class \in ShareClass /\ req[k].from \in Shareholder
      BY <1>7, <2>1, <3>3 DEF Removal, Movement, IssueShares, TransferShares, BuybackShares
    <3>5. t >= clock
      BY <1>1, <1>7, <2>1
    <3>6. QED BY <1>3, <2>1, <3>2, <3>4, <3>5
  <2>2. CASE i # k
    <3>1. pc[i] = "commit"
      BY <1>7, <2>2, AdvanceShape DEF Stages, Await, RegisterInv
    <3>2. t >= stamp[i]
      BY <1>1, <1>7, <2>2
    <3>3. QED BY <1>7, <3>1, <3>2, ReplayNamed DEF ReplayInv
  <2>3. QED BY <2>1, <2>2
<1>8. StampedBound'
  BY <1>1, <1>7, ReplayNamedNext
<1>9. QED BY <1>4, <1>5, <1>6, <1>8 DEF ReplayInv

\* A record that commits adds, from its stamp on, what its call moved: no other
\* removal of the position it lowers is under way, and at every such time the
\* position covers it.
LEMMA RecordKeepsReplay ==
  ASSUME RegisterInv, ReplayInv, NEW k \in Call, Records(k)
  PROVE  ReplayInv'
<1> DEFINE Adds(t, c, h) == IF stamp[k] <= t THEN Moved(req[k], c, h) ELSE 0
<1>1. /\ req[k] \in Movement /\ Valid(req[k]) /\ pc[k] = "commit"
      /\ clock \in Nat /\ clock' = clock /\ stamp' = stamp /\ req' = req
      /\ stamp[k] \in Nat /\ stamp[k] <= clock
      /\ register \in Seq(Row) /\ register' = register \o Rows(k)
  BY AdvanceShape, MovementByVerb
     DEF Records, Commits, Await, RegisterInv, TypeOK, ValidUnderWay, ReplayInv, Stamped
<1>2. /\ pc'[k] # "commit" \/ req[k].verb \notin Removal
      /\ \A i \in Call \ {k} : pc'[i] = pc[i]
  BY AdvanceShape, RemovalAwaits DEF Records, Commits, Await, RegisterInv
<1> DEFINE rec == [call |-> k, at |-> stamp[k], event |-> Event(k)]
<1>3. rec \in OutboxRecord /\ rec.at = stamp[k] /\ rec.event = Event(k)
  BY <1>1, EventType DEF OutboxRecord
<1>4. outbox \in Seq(OutboxRecord) /\ outbox' = Append(outbox, rec)
  BY DEF RegisterInv, TypeOK, Records
<1> HIDE DEF rec
<1>5. ASSUME NEW t \in Nat, NEW c \in ShareClass, NEW h \in Shareholder
      PROVE  /\ ReplayedIn(outbox, t, c, h) \in Int
             /\ Moved(req[k], c, h) \in Int
             /\ ReplayedIn(outbox', t, c, h) = ReplayedIn(outbox, t, c, h) + Adds(t, c, h)
  <2>1. /\ ReplayedIn(outbox, t, c, h) \in Int
        /\ ReplayedIn(Append(outbox, rec), t, c, h)
             = ReplayedIn(outbox, t, c, h)
                 + IF rec.at <= t THEN Effect(rec.event, c, h) ELSE 0
    BY <1>3, <1>4, ReplayAppend
  <2>2. Effect(rec.event, c, h) = Moved(req[k], c, h)
    BY <1>1, <1>3, EffectIsMoved
  <2>3. QED BY <1>1, <1>3, <1>4, <2>1, <2>2, MovedBound
<1>6. Stamped'
  <2>1. Len(outbox') = Len(outbox) + 1 /\ outbox'[Len(outbox) + 1] = rec
        /\ \A i \in 1 .. Len(outbox) : outbox'[i] = outbox[i]
    BY <1>3, <1>4
  <2>2. \A i \in 1 .. Len(outbox') : outbox'[i].at <= clock
    BY <1>1, <1>3, <1>4, <2>1 DEF ReplayInv, Stamped
  <2>3. QED BY <1>1, <2>2 DEF ReplayInv, Stamped
<1>7. ReplayIsRegister'
  <2>1. ASSUME NEW c \in ShareClass, NEW h \in Shareholder
        PROVE  ReplayedIn(outbox', clock', c, h) = holding(register', c, h)
    <3>1. /\ ReplayedIn(outbox', clock, c, h)
               = ReplayedIn(outbox, clock, c, h) + Moved(req[k], c, h)
      BY <1>1, <1>5
    <3>2. ReplayedIn(outbox, clock, c, h) = holding(register, c, h)
      BY ReplayNamed DEF ReplayInv
    <3>3. holding(register', c, h) = holding(register, c, h) + Moved(req[k], c, h)
      BY <1>1, RowsMove
    <3>4. QED BY <1>1, <3>1, <3>2, <3>3
  <2>2. QED BY <2>1, ReplayNamedNext, Zenon
<1>8. ASSUME NEW c \in ShareClass, NEW h \in Shareholder, NEW t \in Nat
      PROVE  ReplayedIn(outbox', t, c, h) >= 0
  <2>1. ReplayedIn(outbox, t, c, h) >= 0
    BY ReplayNamed DEF ReplayInv
  <2>2. CASE Adds(t, c, h) >= 0
    BY <1>5, <2>1, <2>2
  <2>3. CASE Adds(t, c, h) < 0
    <3>1. stamp[k] <= t /\ Adds(t, c, h) = Moved(req[k], c, h) /\ Moved(req[k], c, h) < 0
      BY <1>5, <2>3
    <3>2. /\ req[k].verb \in Removal /\ req[k].class = c /\ req[k].from = h
          /\ req[k].quantity \in Int /\ Moved(req[k], c, h) = - req[k].quantity
      BY <1>1, <1>5, <3>1, MovedBound
    <3>3. req[k].quantity <= ReplayedIn(outbox, t, c, h)
      BY <1>1, <3>1, <3>2, ReplayNamed DEF ReplayInv
    <3>4. QED BY <1>5, <3>1, <3>2, <3>3
  <2>4. QED BY <1>5, <1>1, <2>2, <2>3
<1>9. ReplayedNotNegative'
  BY <1>8, ReplayNamedNext, Zenon
<1>10. ASSUME NEW i \in Call, pc'[i] = "commit", req[i].verb \in Removal,
              NEW t \in Nat, t >= stamp[i]
       PROVE  req[i].quantity <= ReplayedIn(outbox', t, req[i].class, req[i].from)
  <2>1. i # k /\ pc[i] = "commit" /\ Holds(i)
    BY <1>2, <1>10 DEF Holds
  <2>2. req[i] \in Movement
    <3>1. CallsOK /\ pc[i] \in Await
      BY <2>1 DEF RegisterInv, TypeOK, CallsOK, Await
    <3>2. QED BY <1>10, <3>1, CallUnderWay, MovementByVerb DEF Removal, MovementVerb
  <2>3. /\ req[i].class \in ShareClass /\ req[i].from \in Shareholder
        /\ req[i].quantity \in Int
    BY <1>10, <2>2 DEF Removal, Movement, IssueShares, TransferShares, BuybackShares
  <2>4. PICK c \in ShareClass, h \in Shareholder : c = req[i].class /\ h = req[i].from
    BY <2>3
  <2>5. req[i].quantity <= ReplayedIn(outbox, t, c, h)
    BY <1>10, <2>1, <2>4, ReplayNamed DEF ReplayInv
  <2>6. Moved(req[k], c, h) >= 0
    <3>1. ~ (Holds(k) /\ req[k].class = c /\ req[k].from = h)
      BY <2>1, <2>4 DEF RegisterInv, PositionsAreLocked
    <3>2. ~ (req[k].verb \in Removal /\ req[k].class = c /\ req[k].from = h)
      BY <1>1, <3>1 DEF Holds
    <3>3. QED BY <1>1, <3>2, MovedBound
  <2>7. ReplayedIn(outbox', t, c, h) >= ReplayedIn(outbox, t, c, h)
    <3>1. /\ ReplayedIn(outbox, t, c, h) \in Int /\ Moved(req[k], c, h) \in Int
          /\ ReplayedIn(outbox', t, c, h) = ReplayedIn(outbox, t, c, h) + Adds(t, c, h)
      BY <1>5
    <3>2. QED BY <2>6, <3>1
  <2>8. req[i].quantity <= ReplayedIn(outbox', t, c, h)
    <3>1. /\ ReplayedIn(outbox, t, c, h) \in Int /\ Adds(t, c, h) \in Int
          /\ ReplayedIn(outbox', t, c, h) = ReplayedIn(outbox, t, c, h) + Adds(t, c, h)
      BY <1>5
    <3>2. QED BY <2>3, <2>5, <2>7, <3>1
  <2>9. QED BY <2>4, <2>8, Zenon
<1>11. StampedBound'
  BY <1>1, <1>10, ReplayNamedNext
<1>12. QED BY <1>6, <1>7, <1>9, <1>11 DEF ReplayInv

\* The replay's invariant holds of an empty outbox.
LEMMA ReplayInvInit ==
  ASSUME RegisterInit
  PROVE  ReplayInv
<1>1. /\ outbox = << >> /\ register = << >> /\ clock = 0
      /\ \A k \in Call : stamp[k] = 0 /\ pc[k] = "idle"
  BY DEF RegisterInit, HubInit
<1>2. \A t, c, h : ReplayedIn(<< >>, t, c, h) = 0
  <2> TAKE t, c, h
  <2>1. [i \in 1 .. Len(<< >>) |->
           IF << >>[i].at <= t THEN Effect(<< >>[i].event, c, h) ELSE 0] = << >>
    OBVIOUS
  <2>2. QED BY <2>1, SumSeqEmpty DEF ReplayedIn
<1>3. Stamped
  BY <1>1 DEF Stamped
<1>4. ReplayIsRegister
  BY <1>1, <1>2, HoldingEmpty, ReplayNamed
<1>5. StampedBound
  BY <1>1 DEF StampedBound
<1>6. ReplayedNotNegative
  BY <1>1, <1>2, ReplayNamed
<1>7. QED BY <1>3, <1>4, <1>5, <1>6 DEF ReplayInv

\* Every step keeps the replay's invariant.
LEMMA ReplayInvStep ==
  ASSUME RegisterInv, ReplayInv, [RegisterNext]_registerVars
  PROVE  ReplayInv'
BY TimeStep, UntimedKeepsReplay, StageKeepsReplay, RecordKeepsReplay

\* The replay's invariant holds in every state.
LEMMA ReplayInvariant == RegisterSpec => []ReplayInv
BY ReplayInvInit, ReplayInvStep, RegisterInvariant, PTL DEF RegisterSpec

\* Replaying the whole outbox gives the register's positions, at every moment.
THEOREM ReplayTellsTheRegister == RegisterSpec => []ReplayIsRegister
<1>1. ReplayInv => ReplayIsRegister
  BY DEF ReplayInv
<1>2. QED BY <1>1, ReplayInvariant, PTL

\* Replaying the events up to any time never has a holder negative, although
\* records are stamped in one order and committed in another.
THEOREM ReplayStaysCovered == RegisterSpec => []ReplayNeverNegative
<1>1. RegisterInv /\ ReplayInv => ReplayNeverNegative
  BY DEF RegisterInv, TypeOK, ReplayInv, ReplayedNotNegative, ReplayNeverNegative
<1>2. QED BY <1>1, RegisterInvariant, ReplayInvariant, PTL

-----------------------------------------------------------------------------
(* The journals: their inductive invariant.                                *)

\* A ledger has a journal under the identity of call k.
HasJournal(ledger, k) == \E j \in ledger : j.source = Minted(k)

\* The awaits of a call that has posted: an issue posts before its rows go in, a
\* buyback after.
HasPosted(await, verb) ==
  \/ verb = "issue" /\ await \in {"insert", "stage", "commit", "publish"}
  \/ verb = "buyback" /\ await \in {"stage", "commit", "publish"}

\* The awaits at which a journal is explained: what refuses a call that has posted
\* is the insert of an issue's rows.
Explained(await, verb) ==
  \/ HasPosted(await, verb)
  \/ await \in {"ok", "interrupted"}
  \/ await = "refused" /\ verb = "issue"

\* The awaits of a call that has committed.
Committed(await) == await \in {"publish", "ok", "interrupted"}

\* A journal is the one request r posts.
JournalSays(j, r) ==
  /\ r \in IssueShares \cup BuybackShares
  /\ r.scoped
  /\ j.leg = r.verb
  /\ Net(j.lines, "bank") = IF r.verb = "issue" THEN r.quantity * r.price
                                                ELSE - (r.quantity * r.price)

\* A row is one that request r writes.
RowSays(row, r) ==
  /\ r \in Movement
  /\ r.scoped
  /\ row.gl_posted = (r.verb # "transfer")
  /\ row.gl_posted => row.txn_type = r.verb /\ row.amount = r.quantity * r.price

\* One journal is booked for a source.
OneJournalASource == \A i, j \in gl : i.source = j.source => i = j

\* A journal under a call's identity is the one its verb posts, and the call has
\* got far enough to have posted it.
JournalsAreTheirs ==
  \A k \in Call, j \in gl :
    j.source = Minted(k) => JournalSays(j, req[k]) /\ Explained(pc[k], req[k].verb)

\* A call that has posted has its journal.
PostedIsBooked ==
  \A k \in Call : HasPosted(pc[k], req[k].verb) => HasJournal(gl, k)

\* A row is one its call wrote, and a row that says it was posted has a journal.
RowsAreTheirs ==
  \A i \in 1 .. Len(register) :
    LET row == register[i] IN
    /\ Committed(pc[row.txn])
    /\ RowSays(row, req[row.txn])
    /\ row.gl_posted => HasJournal(gl, row.txn)

\* A movement that returns Ok is recorded.
OkIsRecorded ==
  \A k \in Call : pc[k] \in {"publish", "ok"} =>
    \E i \in 1 .. Len(register) : register[i].txn = k

\* Only a call with a scope reaches its commit.
CommitIsScoped == \A k \in Call : pc[k] = "commit" => req[k].scoped

\* A record is one its call staged.
EventsAreTheirs ==
  \A i \in 1 .. Len(outbox) :
    LET k == outbox[i].call IN
    Committed(pc[k]) /\ req[k] # NoRequest /\ req[k].scoped

JournalInv ==
  /\ OneJournalASource
  /\ JournalsAreTheirs
  /\ PostedIsBooked
  /\ RowsAreTheirs
  /\ OkIsRecorded
  /\ CommitIsScoped
  /\ EventsAreTheirs

-----------------------------------------------------------------------------
(* The steps, by what they do to the calls and to what the calls write.    *)

Unwritten == gl' = gl /\ register' = register /\ outbox' = outbox

\* A master change, or nothing at all.
Elsewhere == pc' = pc /\ req' = req /\ Unwritten
Begins(k) ==
  /\ pc[k] = "idle" /\ Unwritten
  /\ \E r \in Request, a \in {"load", "lock", "outstanding", "fetch", "refused"} :
       req' = [req EXCEPT ![k] = r] /\ pc' = [pc EXCEPT ![k] = a]
Proceeds(k) ==
  /\ pc[k] \in {"load", "lock", "holding", "insert", "stage"}
  /\ pc[k] = "stage" => req[k].scoped
  /\ Advance(k) /\ req' = req /\ Unwritten
Posts(k) ==
  /\ pc[k] = "post" /\ req[k].verb \in MovementVerb /\ req[k].scoped
  /\ gl' = IF \E j \in gl : j.source = Minted(k)
             THEN gl
             ELSE gl \cup {[leg |-> req[k].verb, source |-> Minted(k), lines |-> Lines(k)]}
  /\ Advance(k) /\ req' = req /\ register' = register /\ outbox' = outbox
WritesRows(k) ==
  /\ pc[k] = "commit" /\ req[k].verb \in MovementVerb
  /\ register' = register \o Rows(k)
  /\ outbox' = Append(outbox, [call |-> k, at |-> stamp[k], event |-> Event(k)])
  /\ Advance(k) /\ req' = req /\ gl' = gl
Fails(k) ==
  /\ pc[k] \in {"load", "holding", "insert", "post", "stage"}
  /\ pc[k] = "stage" => ~ req[k].scoped
  /\ pc' = [pc EXCEPT ![k] = "refused"] /\ req' = req /\ Unwritten
Closes(k) ==
  /\ \/ pc[k] = "publish" /\ pc' = [pc EXCEPT ![k] = "ok"]
     \/ pc[k] \in Await /\ pc' = [pc EXCEPT ![k] = "interrupted"]
  /\ req' = req /\ Unwritten

\* Every step is of one of these kinds.
LEMMA WritingStep ==
  ASSUME TypeOK, [RegisterNext]_registerVars
  PROVE  \/ Elsewhere
         \/ \E k \in Call : Begins(k) \/ Proceeds(k) \/ Posts(k) \/ WritesRows(k)
                            \/ Fails(k) \/ Closes(k)
<1>1. CASE Masters \/ UNCHANGED registerVars
  BY <1>1 DEF Masters, register_share_class, update_share_class, register_shareholder,
              registerVars, hubVars, Elsewhere, Unwritten
<1>2. ASSUME NEW k \in Call, begin_call(k)
      PROVE  Begins(k)
  <2>1. PICK r \in Requests[k] :
          /\ req' = [req EXCEPT ![k] = r]
          /\ pc' = [pc EXCEPT ![k] = IF Valid(r) THEN First[r.verb] ELSE "refused"]
    BY <1>2 DEF begin_call, Begin
  <2>2. r \in Request
    BY <2>1, RequestsAssumption
  <2>3. PICK a : a = IF Valid(r) THEN First[r.verb] ELSE "refused"
    OBVIOUS
  <2>4. a \in {"load", "lock", "outstanding", "fetch", "refused"}
    BY <2>2, <2>3 DEF First, Request, Movement, IssueShares, TransferShares, BuybackShares,
                      DeclareDividend, PayDividend
  <2>5. pc[k] = "idle" /\ Unwritten
    BY <1>2 DEF begin_call, Begin, Unwritten
  <2>6. req' = [req EXCEPT ![k] = r] /\ pc' = [pc EXCEPT ![k] = a]
    BY <2>1, <2>3
  <2>7. QED BY <2>2, <2>4, <2>5, <2>6 DEF Begins
<1>3. ASSUME NEW k \in Call, MovementStep(k) \/ interrupt_call(k)
      PROVE  Proceeds(k) \/ Posts(k) \/ WritesRows(k) \/ Fails(k) \/ Closes(k)
  <2>1. CASE load_class(k)
    BY <2>1 DEF load_class, Refuse, Proceeds, Fails, Unwritten
  <2>2. CASE lock_position(k)
    BY <2>2 DEF lock_position, Proceeds, Unwritten
  <2>3. CASE check_holding(k)
    BY <2>3 DEF check_holding, Refuse, Proceeds, Fails, Unwritten
  <2>4. CASE insert_rows(k)
    BY <2>4 DEF insert_rows, Refuse, Proceeds, Fails, Unwritten
  <2>5. CASE post_movement(k)
    BY <2>5 DEF post_movement, Post, Refuse, Posts, Fails, Unwritten
  <2>6. CASE stage_event(k)
    BY <2>6 DEF stage_event, Stage, Refuse, Proceeds, Fails, Unwritten
  <2>7. CASE commit_movement(k)
    BY <2>7 DEF commit_movement, CommitOutbox, WritesRows
  <2>8. CASE publish_event(k)
    BY <2>8 DEF publish_event, Publish, Closes, Unwritten
  <2>9. CASE interrupt_call(k)
    BY <2>9 DEF interrupt_call, Interrupt, Closes, Unwritten
  <2>10. QED
    BY <1>3, <2>1, <2>2, <2>3, <2>4, <2>5, <2>6, <2>7, <2>8, <2>9 DEF MovementStep
<1>4. QED BY <1>1, <1>2, <1>3 DEF RegisterNext

\* The awaits around a posting, a staging and a commit.
LEMMA PostingAwaits ==
  ASSUME NEW r \in Request, NEW a \in DOMAIN Awaits[r.verb]
  PROVE  LET b == Awaits[r.verb][a] IN
         /\ a = "post" /\ r.verb = "issue" => b = "insert"
         /\ a = "post" /\ r.verb = "buyback" => b = "stage"
         /\ a = "post" => r.verb # "transfer"
         /\ r.verb = "issue" =>
              (b \in {"insert", "stage", "commit", "publish"}
                 <=> a \in {"post", "insert", "stage", "commit"})
         /\ r.verb = "buyback" =>
              (b \in {"stage", "commit", "publish"} <=> a \in {"post", "stage", "commit"})
         /\ b = "commit" <=> a = "stage"
         /\ b = "publish" <=> a = "commit"
         /\ b \in Await
<1>1. r.verb \in {"issue", "transfer", "buyback", "declare", "pay"}
  BY DEF Request, Movement, IssueShares, TransferShares, BuybackShares,
         DeclareDividend, PayDividend
<1>2. CASE r.verb = "issue"
  BY <1>2 DEF Awaits, IssueAwaits, Await
<1>3. CASE r.verb = "transfer"
  BY <1>3 DEF Awaits, TransferAwaits, Await
<1>4. CASE r.verb = "buyback"
  BY <1>4 DEF Awaits, BuybackAwaits, Await
<1>5. CASE r.verb = "declare"
  BY <1>5 DEF Awaits, DeclareAwaits, Await
<1>6. CASE r.verb = "pay"
  BY <1>6 DEF Awaits, PayAwaits, Await
<1>7. QED BY <1>1, <1>2, <1>3, <1>4, <1>5, <1>6

\* What the tables' types say of their rows' calls.
LEMMA TableCalls ==
  ASSUME TypeOK
  PROVE  /\ Len(register) \in Nat /\ Len(outbox) \in Nat
         /\ \A i \in 1 .. Len(register) : register[i].txn \in Call
         /\ \A i \in 1 .. Len(outbox) : outbox[i].call \in Call
<1>1. register \in Seq(Row) /\ outbox \in Seq(OutboxRecord)
  BY DEF TypeOK
<1>2. /\ \A i \in 1 .. Len(register) : register[i] \in Row
      /\ \A i \in 1 .. Len(outbox) : outbox[i] \in OutboxRecord
  BY <1>1
<1>3. (\A r \in Row : r.txn \in Call) /\ (\A r \in OutboxRecord : r.call \in Call)
  BY DEF Row, OutboxRecord
<1>4. Len(register) \in Nat /\ Len(outbox) \in Nat
  BY <1>1
<1>5. QED BY <1>2, <1>3, <1>4

-----------------------------------------------------------------------------
(* The steps that write nothing.                                           *)

\* A step that writes nothing keeps the invariant, if the calls that have written
\* stay at an await that says so and no other call gets to one.
LEMMA UnwrittenKeepsJournals ==
  ASSUME TypeOK, JournalInv, Unwritten,
         \A i \in Call : HasPosted(pc'[i], req'[i].verb) => HasPosted(pc[i], req[i].verb),
         \A i \in Call : Explained(pc[i], req[i].verb) /\ HasJournal(gl, i) =>
                           Explained(pc'[i], req'[i].verb) /\ req'[i] = req[i],
         \A i \in Call : Committed(pc[i]) => Committed(pc'[i]) /\ req'[i] = req[i],
         \A i \in Call : pc'[i] \in {"publish", "ok"} => pc[i] \in {"publish", "ok"},
         \A i \in Call : pc'[i] = "commit" => req'[i].scoped
  PROVE  JournalInv'
<1> USE DEF JournalInv
<1>1. gl' = gl /\ register' = register /\ outbox' = outbox
  BY DEF Unwritten
<1>2. OneJournalASource'
  BY <1>1 DEF OneJournalASource
<1>3. JournalsAreTheirs'
  <2> SUFFICES ASSUME NEW k \in Call, NEW j \in gl, j.source = Minted(k)
               PROVE  JournalSays(j, req'[k]) /\ Explained(pc'[k], req'[k].verb)
    BY <1>1, Zenon DEF JournalsAreTheirs, Minted
  <2>1. HasJournal(gl, k)
    BY DEF HasJournal
  <2>2. JournalSays(j, req[k]) /\ Explained(pc[k], req[k].verb)
    BY DEF JournalsAreTheirs
  <2>3. QED BY <2>1, <2>2
<1>4. PostedIsBooked'
  BY <1>1 DEF PostedIsBooked
<1>5. RowsAreTheirs'
  BY <1>1, TableCalls DEF RowsAreTheirs
<1>6. OkIsRecorded'
  BY <1>1 DEF OkIsRecorded
<1>7. CommitIsScoped'
  BY DEF CommitIsScoped
<1>8. EventsAreTheirs'
  BY <1>1, TableCalls DEF EventsAreTheirs
<1>9. QED BY <1>2, <1>3, <1>4, <1>5, <1>6, <1>7, <1>8

\* Such are all steps but a posting and a commit.
LEMMA QuietStep ==
  ASSUME TypeOK, JournalInv,
         Elsewhere \/ \E k \in Call : Begins(k) \/ Proceeds(k) \/ Fails(k) \/ Closes(k)
  PROVE  JournalInv'
<1>1. \A i \in Call : pc[i] = "commit" => req[i].scoped
  BY DEF JournalInv, CommitIsScoped
<1>2. CASE Elsewhere
  <2>1. pc' = pc /\ req' = req /\ Unwritten
    BY <1>2 DEF Elsewhere
  <2>2. QED BY <1>1, <2>1, UnwrittenKeepsJournals
<1>3. ASSUME NEW k \in Call, Begins(k)
      PROVE  JournalInv'
  <2>1. PICK r \in Request, a \in {"load", "lock", "outstanding", "fetch", "refused"} :
          req' = [req EXCEPT ![k] = r] /\ pc' = [pc EXCEPT ![k] = a]
    BY <1>3 DEF Begins
  <2>2. /\ \A i \in Call \ {k} : pc'[i] = pc[i] /\ req'[i] = req[i]
        /\ pc[k] = "idle" /\ pc'[k] = a /\ req'[k] = r /\ Unwritten
    BY <1>3, <2>1 DEF TypeOK, Begins
  <2>3. /\ \A v : ~ HasPosted(a, v) /\ ~ Explained("idle", v)
        /\ ~ Committed("idle")
    BY <2>1 DEF HasPosted, Explained, Committed
  <2>4. QED BY <1>1, <2>2, <2>3, UnwrittenKeepsJournals
<1>4. ASSUME NEW k \in Call, Proceeds(k)
      PROVE  JournalInv'
  <2>1. /\ req[k] \in Request /\ pc[k] \in DOMAIN Awaits[req[k].verb]
        /\ pc'[k] = Awaits[req[k].verb][pc[k]]
        /\ \A i \in Call \ {k} : pc'[i] = pc[i]
    BY <1>4, AdvanceShape DEF Proceeds, Await
  <2>2. req' = req /\ Unwritten /\ pc[k] \in {"load", "lock", "holding", "insert", "stage"}
        /\ (pc[k] = "stage" => req[k].scoped)
    BY <1>4 DEF Proceeds
  <2>3. /\ pc'[k] \notin {"publish", "ok"}
        /\ pc'[k] = "commit" => pc[k] = "stage"
        /\ HasPosted(pc'[k], req[k].verb) <=> HasPosted(pc[k], req[k].verb)
        /\ ~ Committed(pc[k])
    BY <2>1, <2>2, PostingAwaits DEF Await, HasPosted, Committed
  <2>4. Explained(pc[k], req[k].verb) => Explained(pc'[k], req[k].verb)
    BY <2>2, <2>3 DEF Explained
  <2>5. QED BY <1>1, <2>1, <2>2, <2>3, <2>4, UnwrittenKeepsJournals
<1>5. ASSUME NEW k \in Call, Fails(k)
      PROVE  JournalInv'
  <2>1. /\ \A i \in Call \ {k} : pc'[i] = pc[i]
        /\ pc'[k] = "refused" /\ req' = req /\ Unwritten
        /\ pc[k] \in {"load", "holding", "insert", "post", "stage"}
        /\ pc[k] = "stage" => ~ req[k].scoped
    BY <1>5 DEF TypeOK, Fails
  <2>2. HasJournal(gl, k) => req[k].scoped
    BY DEF JournalInv, JournalsAreTheirs, HasJournal, JournalSays
  <2>3. /\ ~ HasPosted("refused", req[k].verb)
        /\ HasJournal(gl, k) /\ Explained(pc[k], req[k].verb) =>
             Explained("refused", req[k].verb)
        /\ ~ Committed(pc[k])
    BY <2>1, <2>2 DEF HasPosted, Explained, Committed
  <2>4. QED BY <1>1, <2>1, <2>3, UnwrittenKeepsJournals
<1>6. ASSUME NEW k \in Call, Closes(k)
      PROVE  JournalInv'
  <2>1. /\ \A i \in Call \ {k} : pc'[i] = pc[i]
        /\ req' = req /\ Unwritten
        /\ \/ pc[k] = "publish" /\ pc'[k] = "ok"
           \/ pc'[k] = "interrupted"
    BY <1>6 DEF TypeOK, Closes
  <2>2. \A v : /\ ~ HasPosted("ok", v) /\ ~ HasPosted("interrupted", v)
               /\ Explained("ok", v) /\ Explained("interrupted", v)
               /\ Committed("ok") /\ Committed("interrupted")
    BY DEF HasPosted, Explained, Committed
  <2>3. QED BY <1>1, <2>1, <2>2, UnwrittenKeepsJournals
<1>7. QED BY <1>2, <1>3, <1>4, <1>5, <1>6

-----------------------------------------------------------------------------
(* The posting.                                                            *)

\* The cash leg of a movement's journal is its price times its quantity.
LEMMA CashLeg ==
  ASSUME NEW k \in Call, req[k] \in IssueShares \cup BuybackShares, par \in [Call -> Int]
  PROVE  Net(Lines(k), "bank") = IF req[k].verb = "issue"
                                   THEN req[k].quantity * req[k].price
                                   ELSE - (req[k].quantity * req[k].price)
<1>1. /\ req[k].verb \in {"issue", "buyback"}
      /\ req[k].quantity \in Int /\ req[k].price \in Int /\ par[k] \in Int
  BY DEF IssueShares, BuybackShares
<1>2. "bank" \in Account
  BY DEF Account
<1>3. ASSUME NEW q \in Int, NEW p \in Int, NEW n \in Int
      PROVE  /\ Net(IssueLines(q, p, n), "bank") = q * p
             /\ Net(BuybackLines(q, p, n), "bank") = - (q * p)
  BY <1>2, IssueNets, BuybackNets
<1>4. QED BY <1>1, <1>3, Zenon DEF Lines

\* A posting books the first journal of its source, because a call posts once.
LEMMA PostingKeepsJournals ==
  ASSUME TypeOK, JournalInv, NEW k \in Call, Posts(k)
  PROVE  JournalInv'
<1> DEFINE new == [leg |-> req[k].verb, source |-> Minted(k), lines |-> Lines(k)]
<1> USE DEF JournalInv
<1>1. /\ req[k] \in Request /\ pc[k] \in DOMAIN Awaits[req[k].verb]
      /\ pc'[k] = Awaits[req[k].verb][pc[k]]
      /\ \A i \in Call \ {k} : pc'[i] = pc[i]
  BY AdvanceShape DEF Posts, Await
<1>2. /\ pc[k] = "post" /\ req[k].scoped /\ req' = req
      /\ register' = register /\ outbox' = outbox
  BY DEF Posts
<1>3. /\ req[k] \in IssueShares \cup BuybackShares
      /\ HasPosted(pc'[k], req[k].verb) /\ ~ Explained(pc[k], req[k].verb)
      /\ pc'[k] \in {"insert", "stage"} /\ ~ Committed(pc[k])
  <2>1. req[k].verb \in {"issue", "buyback"}
    BY <1>1, <1>2, PostingAwaits DEF Posts, MovementVerb
  <2>2. QED BY <1>1, <1>2, <2>1, PostingAwaits, MovementByVerb
               DEF HasPosted, Explained, Committed
<1>4. ~ HasJournal(gl, k)
  BY <1>3 DEF JournalsAreTheirs, HasJournal
<1>5. gl' = gl \cup {new} /\ new.source = Minted(k) /\ new.leg = req[k].verb
      /\ new.lines = Lines(k)
  BY <1>4 DEF Posts, HasJournal
<1>6. JournalSays(new, req[k])
  <2>1. par \in [Call -> Int]
    BY DEF TypeOK
  <2>2. Net(new.lines, "bank") = IF req[k].verb = "issue"
                                   THEN req[k].quantity * req[k].price
                                   ELSE - (req[k].quantity * req[k].price)
    BY <1>3, <1>5, <2>1, CashLeg, Zenon
  <2> HIDE DEF new
  <2>3. QED BY <1>2, <1>3, <1>5, <2>2, Zenon DEF JournalSays
<1> HIDE DEF new
<1>7. /\ HasJournal(gl', k)
      /\ \A i \in Call : HasJournal(gl, i) => HasJournal(gl', i)
  BY <1>5 DEF HasJournal
<1>8. OneJournalASource'
  BY <1>4, <1>5 DEF OneJournalASource, HasJournal
<1>9. JournalsAreTheirs'
  <2> SUFFICES ASSUME NEW i \in Call, NEW j \in gl', j.source = Minted(i)
               PROVE  JournalSays(j, req[i]) /\ Explained(pc'[i], req[i].verb)
    BY <1>2, Zenon DEF JournalsAreTheirs, Minted
  <2>1. CASE j = new
    <3>1. i = k
      BY <1>5, <2>1 DEF Minted
    <3>2. QED BY <1>3, <1>6, <2>1, <3>1 DEF Explained
  <2>2. CASE j \in gl
    <3>1. i # k
      BY <1>4, <2>2 DEF HasJournal
    <3>2. QED BY <1>1, <2>2, <3>1 DEF JournalsAreTheirs
  <2>3. QED BY <1>5, <2>1, <2>2
<1>10. PostedIsBooked'
  BY <1>1, <1>2, <1>7 DEF PostedIsBooked
<1>11. RowsAreTheirs'
  BY <1>1, <1>2, <1>3, <1>7, TableCalls DEF RowsAreTheirs
<1>12. OkIsRecorded'
  BY <1>1, <1>2, <1>3 DEF OkIsRecorded
<1>13. CommitIsScoped'
  BY <1>1, <1>2 DEF CommitIsScoped
<1>14. EventsAreTheirs'
  BY <1>1, <1>2, <1>3, TableCalls DEF EventsAreTheirs
<1>15. QED BY <1>8, <1>9, <1>10, <1>11, <1>12, <1>13, <1>14

-----------------------------------------------------------------------------
(* The commit.                                                             *)

\* What the rows of a movement with a scope say.
LEMMA RowsSay ==
  ASSUME NEW k \in Call, req[k] \in Movement, req[k].scoped
  PROVE  /\ Rows(k) # << >>
         /\ \A m \in 1 .. Len(Rows(k)) : Rows(k)[m].txn = k /\ RowSays(Rows(k)[m], req[k])
<1>1. CASE req[k] \in IssueShares
  <2>1. req[k].verb = "issue"
    BY <1>1 DEF IssueShares
  <2>2. Rows(k) = << IssueRow(k) >>
    BY <2>1, RowsOf
  <2>3. IssueRow(k).txn = k /\ RowSays(IssueRow(k), req[k])
    BY <2>1 DEF IssueRow, RowSays
  <2> HIDE DEF IssueRow
  <2>4. Len(<< IssueRow(k) >>) = 1 /\ << IssueRow(k) >>[1] = IssueRow(k)
    OBVIOUS
  <2>5. \A m \in 1 .. 1 : m = 1
    OBVIOUS
  <2>6. << IssueRow(k) >> # << >>
    OBVIOUS
  <2>7. QED BY <2>2, <2>3, <2>4, <2>5, <2>6
<1>2. CASE req[k] \in BuybackShares
  <2>1. req[k].verb = "buyback"
    BY <1>2 DEF BuybackShares
  <2>2. Rows(k) = << BuybackRow(k) >>
    BY <2>1, RowsOf
  <2>3. BuybackRow(k).txn = k /\ RowSays(BuybackRow(k), req[k])
    BY <2>1 DEF BuybackRow, RowSays
  <2>4. Len(<< BuybackRow(k) >>) = 1 /\ << BuybackRow(k) >>[1] = BuybackRow(k)
    OBVIOUS
  <2>5. \A m \in 1 .. 1 : m = 1
    OBVIOUS
  <2>6. << BuybackRow(k) >> # << >>
    OBVIOUS
  <2>7. QED BY <2>2, <2>3, <2>4, <2>5, <2>6
<1>3. CASE req[k] \in TransferShares
  <2> DEFINE out == TransferLeg(k, "transfer_out", req[k].from)
             in  == TransferLeg(k, "transfer_in", req[k].to)
  <2>1. req[k].verb = "transfer"
    BY <1>3 DEF TransferShares
  <2>2. Rows(k) = << out, in >>
    BY <2>1, RowsOf
  <2>3. out.txn = k /\ in.txn = k /\ RowSays(out, req[k]) /\ RowSays(in, req[k])
    BY <2>1 DEF TransferLeg, RowSays
  <2> HIDE DEF out, in
  <2>4. /\ Len(<< out, in >>) = 2 /\ << out, in >> # << >>
        /\ << out, in >>[1] = out /\ << out, in >>[2] = in
    OBVIOUS
  <2>5. \A m \in 1 .. 2 : m = 1 \/ m = 2
    OBVIOUS
  <2>6. QED BY <2>2, <2>3, <2>4, <2>5
<1>4. QED BY <1>1, <1>2, <1>3 DEF Movement

\* A commit adds its call's rows and event beside a journal that is already there.
LEMMA WritingKeepsJournals ==
  ASSUME TypeOK, JournalInv, NEW k \in Call, WritesRows(k)
  PROVE  JournalInv'
<1> USE DEF JournalInv
<1>1. /\ req[k] \in Request /\ pc[k] \in DOMAIN Awaits[req[k].verb]
      /\ pc'[k] = Awaits[req[k].verb][pc[k]]
      /\ \A i \in Call \ {k} : pc'[i] = pc[i]
  BY AdvanceShape DEF WritesRows, Await
<1>2. /\ pc[k] = "commit" /\ req' = req /\ gl' = gl
      /\ req[k] \in Movement /\ req[k].scoped
  BY <1>1, MovementByVerb DEF WritesRows, CommitIsScoped
<1>3. pc'[k] = "publish"
  BY <1>1, <1>2, PostingAwaits
<1>4. \A i \in Call : /\ Committed(pc[i]) => Committed(pc'[i])
                      /\ HasPosted(pc'[i], req[i].verb) <=> HasPosted(pc[i], req[i].verb)
                      /\ Explained(pc[i], req[i].verb) => Explained(pc'[i], req[i].verb)
  BY <1>1, <1>2, <1>3 DEF Committed, HasPosted, Explained
<1>5. req[k].verb # "transfer" => HasJournal(gl, k)
  <2>1. req[k].verb \in {"issue", "transfer", "buyback"}
    BY <1>2 DEF Movement, IssueShares, TransferShares, BuybackShares
  <2>2. QED BY <1>2, <2>1 DEF PostedIsBooked, HasPosted
<1>6. /\ register \in Seq(Row) /\ Rows(k) \in Seq(Row) /\ Rows(k) # << >>
      /\ register' = register \o Rows(k)
      /\ \A m \in 1 .. Len(Rows(k)) : Rows(k)[m].txn = k /\ RowSays(Rows(k)[m], req[k])
  BY <1>2, RowsMove, RowsSay DEF TypeOK, WritesRows
<1>7. /\ \A i \in 1 .. Len(register) : i \in 1 .. Len(register') /\ register'[i] = register[i]
      /\ \A i \in 1 .. Len(register') :
           i \in 1 .. Len(register)
           \/ \E m \in 1 .. Len(Rows(k)) : register'[i] = Rows(k)[m]
      /\ \E i \in 1 .. Len(register') : register'[i] = Rows(k)[1] /\ 1 \in 1 .. Len(Rows(k))
  <2> DEFINE rows == Rows(k)
             all  == register \o rows
  <2> HIDE DEF rows
  <2>1. rows \in Seq(Row) /\ rows # << >>
    BY <1>6 DEF rows
  <2>2. /\ Len(all) = Len(register) + Len(rows)
        /\ Len(register) \in Nat /\ Len(rows) \in Nat /\ Len(rows) > 0
        /\ \A i \in 1 .. Len(all) :
             all[i] = IF i <= Len(register) THEN register[i] ELSE rows[i - Len(register)]
    BY <1>6, <2>1
  <2>3. /\ \A i \in 1 .. Len(register) : i \in 1 .. Len(all) /\ all[i] = register[i]
        /\ \A i \in 1 .. Len(all) :
             i \in 1 .. Len(register)
             \/ (i - Len(register) \in 1 .. Len(rows) /\ all[i] = rows[i - Len(register)])
        /\ Len(register) + 1 \in 1 .. Len(all)
        /\ all[Len(register) + 1] = rows[1] /\ 1 \in 1 .. Len(rows)
    <3> HIDE DEF all
    <3>1. QED BY <2>2
  <2>4. register' = all
    BY <1>6 DEF rows
  <2> HIDE DEF all
  <2>5. QED BY <2>3, <2>4 DEF rows
<1>8. OneJournalASource'
  BY <1>2 DEF OneJournalASource
<1>9. JournalsAreTheirs'
  BY <1>2, <1>4 DEF JournalsAreTheirs, Minted
<1>10. PostedIsBooked'
  BY <1>2, <1>4 DEF PostedIsBooked
<1>11. RowsAreTheirs'
  <2>1. ASSUME NEW i \in 1 .. Len(register'), NEW row, row = register'[i]
        PROVE  /\ Committed(pc'[row.txn])
               /\ RowSays(row, req[row.txn])
               /\ row.gl_posted => HasJournal(gl, row.txn)
    <3>1. CASE i \in 1 .. Len(register)
      <4>1. row = register[i] /\ row.txn \in Call
        BY <1>7, <2>1, <3>1, TableCalls
      <4>2. QED BY <1>4, <3>1, <4>1 DEF RowsAreTheirs
    <3>2. CASE \E m \in 1 .. Len(Rows(k)) : register'[i] = Rows(k)[m]
      <4>1. row.txn = k /\ RowSays(row, req[k])
        BY <1>6, <2>1, <3>2
      <4>2. Committed(pc'[k])
        BY <1>3 DEF Committed
      <4>3. row.gl_posted => HasJournal(gl, k)
        BY <1>5, <4>1 DEF RowSays
      <4>4. QED BY <4>1, <4>2, <4>3
    <3>3. QED BY <1>7, <3>1, <3>2
  <2>2. QED BY <1>2, <2>1, Zenon DEF RowsAreTheirs
<1>12. OkIsRecorded'
  <2>1. \E i \in 1 .. Len(register') : register'[i].txn = k
    BY <1>6, <1>7
  <2>2. \A i \in Call \ {k} : pc'[i] \in {"publish", "ok"} =>
          \E m \in 1 .. Len(register') : register'[m].txn = i
    BY <1>1, <1>7 DEF OkIsRecorded
  <2>3. QED BY <2>1, <2>2 DEF OkIsRecorded
<1>13. CommitIsScoped'
  BY <1>1, <1>2, <1>3 DEF CommitIsScoped
<1>14. EventsAreTheirs'
  <2> DEFINE rec == [call |-> k, at |-> stamp[k], event |-> Event(k)]
  <2>1. outbox' = Append(outbox, rec) /\ rec.call = k /\ outbox \in Seq(OutboxRecord)
    BY DEF WritesRows, TypeOK
  <2> HIDE DEF rec
  <2>2. \A i \in 1 .. Len(outbox') :
          (i \in 1 .. Len(outbox) /\ outbox'[i] = outbox[i]) \/ outbox'[i] = rec
    BY <2>1
  <2>3. Committed(pc'[k]) /\ req[k] # NoRequest
    BY <1>1, <1>3, FirstAwait DEF Committed
  <2>4. ASSUME NEW i \in 1 .. Len(outbox'), NEW t, t = outbox'[i].call
        PROVE  Committed(pc'[t]) /\ req[t] # NoRequest /\ req[t].scoped
    <3>1. CASE i \in 1 .. Len(outbox) /\ outbox'[i] = outbox[i]
      BY <1>4, <2>4, <3>1, TableCalls DEF EventsAreTheirs
    <3>2. CASE outbox'[i] = rec
      BY <1>2, <2>1, <2>3, <2>4, <3>2
    <3>3. QED BY <2>2, <3>1, <3>2
  <2>5. QED BY <1>2, <2>4, Zenon DEF EventsAreTheirs
<1>15. QED BY <1>8, <1>9, <1>10, <1>11, <1>12, <1>13, <1>14

-----------------------------------------------------------------------------
(* What the journals tell.                                                 *)

\* The journals' invariant holds in every state.
LEMMA JournalInvariant == RegisterSpec => []JournalInv
<1>1. RegisterInit => JournalInv
  <2> SUFFICES ASSUME RegisterInit PROVE JournalInv
    OBVIOUS
  <2>1. /\ gl = {} /\ register = << >> /\ outbox = << >>
        /\ \A k \in Call : pc[k] = "idle"
    BY DEF RegisterInit, HubInit
  <2>2. \A v : ~ HasPosted("idle", v)
    BY DEF HasPosted
  <2>3. QED
    BY <2>1, <2>2 DEF JournalInv, OneJournalASource, JournalsAreTheirs, PostedIsBooked,
                      RowsAreTheirs, OkIsRecorded, CommitIsScoped, EventsAreTheirs
<1>2. TypeOK /\ JournalInv /\ [RegisterNext]_registerVars => JournalInv'
  BY WritingStep, QuietStep, PostingKeepsJournals, WritingKeepsJournals
<1>3. QED BY <1>1, <1>2, TypeCorrect, PTL DEF RegisterSpec

\* A call has a journal exactly if the ledger holds one under its identity.
LEMMA JournalsOfCall ==
  ASSUME NEW k \in Call
  PROVE  JournalsOf(k) # {} <=> HasJournal(gl, k)
BY DEF JournalsOf, HasJournal

\* A row says it was posted exactly if the ledger holds its one journal, whose
\* cash leg is the row's amount.
THEOREM PostedFlagIsHonest == RegisterSpec => []GlPostedIsHonest
<1>1. TypeOK /\ JournalInv => GlPostedIsHonest
  <2> SUFFICES ASSUME TypeOK, JournalInv, NEW i \in 1 .. Len(register),
                      NEW row, row = register[i]
               PROVE  IF row.gl_posted
                        THEN \E j \in gl :
                               /\ JournalsOf(row.txn) = {j}
                               /\ j.leg = row.txn_type
                               /\ Net(j.lines, "bank") =
                                    IF row.txn_type = "issue" THEN row.amount
                                                              ELSE - row.amount
                        ELSE JournalsOf(row.txn) = {}
    BY DEF GlPostedIsHonest
  <2>1. PICK k \in Call : k = row.txn
    BY TableCalls
  <2>2. /\ RowSays(row, req[k])
        /\ row.gl_posted => HasJournal(gl, k)
    BY <2>1 DEF JournalInv, RowsAreTheirs
  <2>3. \A j \in JournalsOf(k) : j \in gl /\ JournalSays(j, req[k])
    BY DEF JournalInv, JournalsAreTheirs, JournalsOf
  <2>4. CASE row.gl_posted
    <3>1. PICK j \in gl : j.source = Minted(k)
      BY <2>2, <2>4 DEF HasJournal
    <3>2. JournalsOf(k) = {j}
      BY <3>1 DEF JournalsOf, JournalInv, OneJournalASource
    <3>3. JournalSays(j, req[k])
      BY <2>3, <3>2
    <3>4. row.txn_type = req[k].verb /\ row.amount = req[k].quantity * req[k].price
      BY <2>2, <2>4 DEF RowSays
    <3>5. /\ j.leg = row.txn_type
          /\ Net(j.lines, "bank") = IF row.txn_type = "issue" THEN row.amount
                                                              ELSE - row.amount
      BY <3>3, <3>4, Zenon DEF JournalSays
    <3>6. QED BY <2>1, <2>4, <3>2, <3>5, Zenon
  <2>5. CASE ~ row.gl_posted
    <3>1. req[k].verb = "transfer"
      BY <2>2, <2>5 DEF RowSays
    <3>2. req[k] \notin IssueShares \cup BuybackShares
      BY <3>1 DEF IssueShares, BuybackShares
    <3>3. JournalsOf(k) = {}
      BY <2>3, <3>2 DEF JournalSays
    <3>4. QED BY <2>1, <2>5, <3>3
  <2>6. QED BY <2>4, <2>5
<1>2. QED BY <1>1, TypeCorrect, JournalInvariant, PTL

\* A journal without rows has a call that is under way or was interrupted, or an
\* issue whose rows were refused.
THEOREM JournalsExplained == RegisterSpec => []JournalsAreExplained
<1>1. TypeOK /\ JournalInv => JournalsAreExplained
  <2> SUFFICES ASSUME TypeOK, JournalInv, NEW k \in Call, JournalsOf(k) # {}
               PROVE  \/ Recorded(k)
                      \/ pc[k] \in Await \cup {"interrupted"}
                      \/ pc[k] = "refused" /\ req[k].verb = "issue"
    BY DEF JournalsAreExplained
  <2>1. Explained(pc[k], req[k].verb)
    BY JournalsOfCall DEF JournalInv, JournalsAreTheirs, HasJournal
  <2>2. pc[k] = "ok" => Recorded(k)
    BY DEF JournalInv, OkIsRecorded, Recorded
  <2>3. QED BY <2>1, <2>2 DEF Explained, HasPosted, Await
<1>2. QED BY <1>1, TypeCorrect, JournalInvariant, PTL

\* A call without a scope books nothing, moves nothing and stages nothing.
THEOREM UnscopedFailsClosed == RegisterSpec => []UnscopedLeavesNoTrace
<1>1. TypeOK /\ JournalInv => UnscopedLeavesNoTrace
  <2> SUFFICES ASSUME TypeOK, JournalInv, NEW k \in Call, ~ req[k].scoped
               PROVE  /\ JournalsOf(k) = {}
                      /\ ~ Recorded(k)
                      /\ \A i \in 1 .. Len(outbox) : outbox[i].call # k
    BY DEF UnscopedLeavesNoTrace
  <2>1. JournalsOf(k) = {}
    BY DEF JournalInv, JournalsAreTheirs, JournalSays, JournalsOf
  <2>2. ~ Recorded(k)
    BY DEF JournalInv, RowsAreTheirs, RowSays, Recorded
  <2>3. \A i \in 1 .. Len(outbox) : outbox[i].call # k
    BY DEF JournalInv, EventsAreTheirs
  <2>4. QED BY <2>1, <2>2, <2>3
<1>2. QED BY <1>1, TypeCorrect, JournalInvariant, PTL

-----------------------------------------------------------------------------
(* The share capital of a class: what its rows have booked is its shares   *)
(* outstanding at par, as long as nobody patches the par value.            *)

\* A step leaves the par value of the registered classes alone.
ParStays == \A c \in ShareClass :
  classes[c].status # "absent" => classes'[c].par_value = classes[c].par_value

\* The awaits at which a call relies on the par value it loaded.
HasPar(await, verb) ==
  \/ verb = "issue" /\ await = "post"
  \/ verb = "buyback" /\ await \in {"lock", "holding", "insert", "post"}

\* The net capital a journal of request r books at par value p.
Capital(r, p) == IF r.verb = "issue" THEN - (r.quantity * p) ELSE r.quantity * p

Registered(c) == classes[c].status # "absent"

\* The par value a call has loaded is still that of its class.
ParIsCurrent ==
  \A k \in Call : HasPar(pc[k], req[k].verb) =>
    Registered(req[k].class) /\ par[k] = classes[req[k].class].par_value

\* The journal of a movement books its class's par value.
JournalsAreAtPar ==
  \A k \in Call, j \in gl : j.source = Minted(k) =>
    /\ Registered(req[k].class)
    /\ Net(j.lines, "share_capital") = Capital(req[k], classes[req[k].class].par_value)

\* A posted row says what its request asked, any other row is a transfer's.
RowsAreAsked ==
  \A i \in 1 .. Len(register) :
    LET row == register[i]
        r   == req[row.txn]
    IN  IF row.gl_posted
          THEN row.class = r.class /\ row.quantity = r.quantity /\ row.txn_type = r.verb
          ELSE row.txn_type \in {"transfer_out", "transfer_in"}

CapitalInv == ParIsCurrent /\ JournalsAreAtPar /\ RowsAreAsked

\* A registered class stays registered, at its par value.
LEMMA ClassesStay ==
  ASSUME [RegisterNext]_registerVars, [ParStays]_registerVars,
         NEW c \in ShareClass, Registered(c), TypeOK
  PROVE  Registered(c)' /\ classes'[c].par_value = classes[c].par_value
<1>1. classes'[c].par_value = classes[c].par_value
  BY DEF ParStays, registerVars, Registered
<1>2. Registered(c)'
  <2>1. CASE Masters
    <3>1. ASSUME NEW d \in ShareClass, register_share_class(d) \/ update_share_class(d)
          PROVE  Registered(c)'
      <4>1. PICK p \in ParValues, s \in {"active", "inactive"} :
              classes' = [classes EXCEPT ![d] = [status |-> s, par_value |-> p]]
        BY <3>1 DEF register_share_class, update_share_class
      <4>2. classes'[c].status \in {"active", "inactive", classes[c].status}
        BY <4>1 DEF TypeOK
      <4>3. QED BY <4>2 DEF Registered
    <3>2. ASSUME NEW h \in Shareholder, register_shareholder(h)
          PROVE  Registered(c)'
      BY <3>2 DEF register_shareholder, Registered
    <3>3. QED BY <2>1, <3>1, <3>2 DEF Masters
  <2>2. ASSUME NEW k \in Call, begin_call(k) \/ MovementStep(k) \/ interrupt_call(k)
        PROVE  classes' = classes
    BY <2>2 DEF begin_call, interrupt_call, MovementStep, load_class, lock_position,
                check_holding, insert_rows, post_movement, stage_event, commit_movement,
                publish_event
  <2>3. QED BY <2>1, <2>2 DEF RegisterNext, Registered, registerVars
<1>3. QED BY <1>1, <1>2

\* The awaits at which a par value is relied on follow one another, after the load.
LEMMA ParAwaits ==
  ASSUME NEW r \in Request, NEW a \in DOMAIN Awaits[r.verb],
         HasPar(Awaits[r.verb][a], r.verb)
  PROVE  a = "load" \/ HasPar(a, r.verb)
<1>1. CASE r.verb = "issue"
  BY <1>1 DEF Awaits, IssueAwaits, HasPar
<1>2. CASE r.verb = "buyback"
  BY <1>2 DEF Awaits, BuybackAwaits, HasPar
<1>3. QED BY <1>1, <1>2 DEF HasPar

\* A call gets to rely on a par value by loading its class, and keeps what it loaded.
LEMMA ParStep ==
  ASSUME TypeOK, [RegisterNext]_registerVars, NEW i \in Call,
         HasPar(pc'[i], req'[i].verb)
  PROVE  /\ req'[i] = req[i] /\ req[i] \in IssueShares \cup BuybackShares
         /\ \/ HasPar(pc[i], req[i].verb) /\ par'[i] = par[i]
            \/ /\ classes' = classes /\ classes[req[i].class].status = "active"
               /\ par'[i] = classes[req[i].class].par_value
<1>1. \A k \in Call : HasPar(pc[k], req[k].verb) => req[k] \in IssueShares \cup BuybackShares
  BY CallUnderWay, MovementByVerb DEF HasPar, Await, TypeOK, CallsOK
<1>2. CASE Masters \/ UNCHANGED registerVars
  BY <1>1, <1>2 DEF Masters, register_share_class, update_share_class,
                    register_shareholder, registerVars, hubVars
<1>3. ASSUME NEW k \in Call, begin_call(k)
      PROVE  i # k /\ req'[i] = req[i] /\ pc'[i] = pc[i] /\ par'[i] = par[i]
  <2>1. PICK r \in Requests[k] :
          /\ req' = [req EXCEPT ![k] = r]
          /\ pc' = [pc EXCEPT ![k] = IF Valid(r) THEN First[r.verb] ELSE "refused"]
    BY <1>3 DEF begin_call, Begin
  <2>2. par' = par
    BY <1>3 DEF begin_call
  <2>3. ~ HasPar("refused", r.verb)
    BY DEF HasPar
  <2>4. ~ HasPar(First[r.verb], r.verb)
    BY DEF First, HasPar
  <2>5. ~ HasPar(pc'[k], req'[k].verb)
    <3>1. pc'[k] \in {"refused", First[r.verb]} /\ req'[k] = r
      BY <2>1 DEF TypeOK
    <3>2. QED BY <2>3, <2>4, <3>1
  <2>6. i # k
    BY <2>5
  <2>7. QED BY <2>1, <2>2, <2>6 DEF TypeOK
<1>4. ASSUME NEW k \in Call, MovementStep(k) \/ interrupt_call(k), i # k
      PROVE  req'[i] = req[i] /\ pc'[i] = pc[i] /\ par'[i] = par[i]
  <2>1. req' = req /\ (Advance(k) \/ \E e \in Ended : pc' = [pc EXCEPT ![k] = e])
    BY <1>4, StepShape DEF GoesOn, TakesLock, Ends, Commits
  <2>2. pc'[i] = pc[i]
    BY <1>4, <2>1 DEF TypeOK, Advance
  <2>3. par'[i] = par[i]
    BY <1>4 DEF interrupt_call, MovementStep, load_class, lock_position,
                check_holding, insert_rows, post_movement, stage_event, commit_movement,
                publish_event, TypeOK
  <2>4. QED BY <2>1, <2>2, <2>3
<1>5. ASSUME MovementStep(i) \/ interrupt_call(i)
      PROVE  /\ req'[i] = req[i] /\ req[i] \in IssueShares \cup BuybackShares
             /\ \/ HasPar(pc[i], req[i].verb) /\ par'[i] = par[i]
                \/ /\ classes' = classes /\ classes[req[i].class].status = "active"
                   /\ par'[i] = classes[req[i].class].par_value
  <2>1. req' = req /\ pc[i] \in Await
        /\ (Advance(i) \/ \E e \in Ended : pc' = [pc EXCEPT ![i] = e])
    BY <1>5, StepShape DEF GoesOn, TakesLock, Ends, Commits, Await
  <2>2. Advance(i) /\ pc[i] # "publish"
    <3>1. \A e \in Ended \cup {"ok"} : ~ HasPar(e, req[i].verb)
      BY DEF HasPar, Ended
    <3>2. ASSUME NEW e \in Ended, pc' = [pc EXCEPT ![i] = e]
          PROVE  FALSE
      BY <2>1, <3>1, <3>2 DEF TypeOK
    <3>3. pc[i] # "publish"
      <4>1. SUFFICES ASSUME pc[i] = "publish" PROVE FALSE
        OBVIOUS
      <4>2. publish_event(i) \/ interrupt_call(i)
        BY <1>5, <4>1 DEF MovementStep, load_class, lock_position, check_holding,
             insert_rows, post_movement, Post, stage_event, Stage, commit_movement,
             CommitOutbox
      <4>3. \E e \in Ended : pc' = [pc EXCEPT ![i] = e]
        BY <4>2 DEF publish_event, Publish, interrupt_call, Interrupt, Ended
      <4>4. QED BY <3>2, <4>3
    <3>4. QED BY <2>1, <3>2, <3>3
  <2>3. /\ req[i] \in Request /\ pc[i] \in DOMAIN Awaits[req[i].verb]
        /\ pc'[i] = Awaits[req[i].verb][pc[i]]
    BY <2>1, <2>2, AdvanceShape
  <2>4. pc[i] = "load" \/ HasPar(pc[i], req[i].verb)
    BY <2>1, <2>3, ParAwaits
  <2>5. req[i] \in IssueShares \cup BuybackShares
    BY <2>1, <2>3, MovementByVerb DEF HasPar
  <2>6. CASE load_class(i)
    <3>1. Accepts(classes[req[i].class], req[i]) \/ Refuse(i)
      BY <2>6 DEF load_class
    <3>2. ~ Refuse(i)
      <4>1. "refused" \in Ended /\ ~ HasPar("refused", req[i].verb)
        BY DEF Ended, HasPar
      <4>2. QED BY <2>1, <4>1 DEF Refuse, TypeOK
    <3>3. /\ classes' = classes /\ classes[req[i].class].status = "active"
          /\ par'[i] = classes[req[i].class].par_value
      BY <2>6, <3>2 DEF load_class, Accepts, TypeOK
    <3>4. QED BY <2>1, <2>5, <3>3
  <2>7. CASE ~ load_class(i)
    <3>1. par' = par
      BY <1>5, <2>7 DEF interrupt_call, MovementStep, lock_position, check_holding,
           insert_rows, post_movement, stage_event, commit_movement, publish_event
    <3>2. pc[i] # "load"
      <4>1. ~ interrupt_call(i)
        BY <2>2, <2>3 DEF interrupt_call, Interrupt, TypeOK, HasPar
      <4>2. QED
        BY <1>5, <2>7, <4>1 DEF MovementStep, lock_position, check_holding,
             insert_rows, post_movement, Post, stage_event, Stage, commit_movement,
             CommitOutbox, publish_event, Publish
    <3>3. QED BY <2>1, <2>4, <2>5, <3>1, <3>2
  <2>8. QED BY <2>6, <2>7
<1>6. QED
  <2>1. CASE \E k \in Call : begin_call(k) \/ MovementStep(k) \/ interrupt_call(k)
    BY <1>1, <1>3, <1>4, <1>5, <2>1
  <2>2. QED BY <1>2, <2>1 DEF RegisterNext

\* A step keeps the journals' and the rows' par values, if the class's stays.
LEMMA CapitalInvStep ==
  ASSUME TypeOK, JournalInv, CapitalInv,
         [RegisterNext]_registerVars, [ParStays]_registerVars
  PROVE  CapitalInv'
<1> USE DEF CapitalInv
<1>1. ParIsCurrent'
  <2> SUFFICES ASSUME NEW i \in Call, HasPar(pc'[i], req'[i].verb)
               PROVE  /\ Registered(req[i].class)'
                      /\ par'[i] = classes'[req'[i].class].par_value
    BY DEF ParIsCurrent
  <2>1. /\ req'[i] = req[i] /\ req[i] \in IssueShares \cup BuybackShares
        /\ \/ HasPar(pc[i], req[i].verb) /\ par'[i] = par[i]
           \/ /\ classes' = classes /\ classes[req[i].class].status = "active"
              /\ par'[i] = classes[req[i].class].par_value
    BY ParStep
  <2>2. PICK c \in ShareClass : c = req[i].class
    BY <2>1 DEF IssueShares, BuybackShares
  <2>3. Registered(c) /\ par'[i] = classes[c].par_value
    BY <2>1, <2>2 DEF ParIsCurrent, Registered
  <2>4. classes'[c].status # "absent" /\ classes'[c].par_value = classes[c].par_value
    BY <2>3, ClassesStay DEF Registered
  <2>5. QED BY <2>1, <2>2, <2>3, <2>4 DEF Registered
<1>2. \A i \in Call : Explained(pc[i], req[i].verb) \/ Committed(pc[i]) => req'[i] = req[i]
  <2>1. \A v : ~ Explained("idle", v) /\ ~ Committed("idle")
    BY DEF Explained, HasPosted, Committed
  <2>2. req' = req \/ \E k \in Call : Begins(k)
    BY WritingStep DEF Elsewhere, Proceeds, Posts, WritesRows, Fails, Closes
  <2>3. ASSUME NEW k \in Call, Begins(k), NEW i \in Call \ {k}
        PROVE  req'[i] = req[i]
    BY <2>3 DEF Begins, TypeOK
  <2>4. \A k \in Call : Begins(k) => ~ (Explained(pc[k], req[k].verb) \/ Committed(pc[k]))
    BY <2>1 DEF Begins
  <2>5. QED BY <2>2, <2>3, <2>4
<1>3. JournalsAreAtPar'
  <2> SUFFICES ASSUME NEW k \in Call, NEW j \in gl', j.source = Minted(k)
               PROVE  /\ Registered(req[k].class)'
                      /\ Net(j.lines, "share_capital")
                           = Capital(req'[k], classes'[req'[k].class].par_value)
    BY Zenon DEF JournalsAreAtPar, Minted, Capital
  <2>1. /\ req'[k] = req[k] /\ req[k] \in IssueShares \cup BuybackShares
        /\ Registered(req[k].class)
        /\ Net(j.lines, "share_capital") = Capital(req[k], classes[req[k].class].par_value)
    <3>1. CASE j \in gl
      BY <1>2, <3>1 DEF JournalInv, JournalsAreTheirs, JournalSays, JournalsAreAtPar
    <3>2. CASE j \notin gl
      <4>1. PICK i \in Call : Posts(i)
        BY <3>2, WritingStep DEF Elsewhere, Begins, Proceeds, WritesRows, Fails, Closes,
                                 Unwritten
      <4>2. /\ j = [leg |-> req[i].verb, source |-> Minted(i), lines |-> Lines(i)]
            /\ req' = req /\ pc[i] = "post" /\ req[i].verb \in MovementVerb
        BY <3>2, <4>1 DEF Posts
      <4>3. i = k /\ j.lines = Lines(k)
        BY <4>2 DEF Minted
      <4>4. req[k] \in IssueShares \cup BuybackShares
        BY <4>1, <4>2, <4>3, AdvanceShape, PostingAwaits, MovementByVerb
           DEF Posts, Await, MovementVerb
      <4>5. HasPar(pc[k], req[k].verb)
        BY <4>2, <4>3, <4>4 DEF HasPar, IssueShares, BuybackShares
      <4>6. Registered(req[k].class) /\ par[k] = classes[req[k].class].par_value
        BY <4>5 DEF ParIsCurrent
      <4>7. Net(Lines(k), "share_capital") = Capital(req[k], par[k])
        <5>1. /\ req[k].verb \in {"issue", "buyback"}
              /\ req[k].quantity \in Int /\ req[k].price \in Int /\ par[k] \in Int
          BY <4>4 DEF IssueShares, BuybackShares, TypeOK
        <5>2. "share_capital" \in Account /\ "share_capital" # "bank"
          BY DEF Account
        <5>3. ASSUME NEW q \in Int, NEW p \in Int, NEW n \in Int
              PROVE  /\ Net(IssueLines(q, p, n), "share_capital") = - (q * n)
                     /\ Net(BuybackLines(q, p, n), "share_capital") = q * n
          BY <5>2, IssueNets, BuybackNets
        <5>4. QED BY <5>1, <5>3, Zenon DEF Lines, Capital
      <4>8. QED BY <4>2, <4>3, <4>4, <4>6, <4>7
    <3>3. QED BY <3>1, <3>2
  <2>2. PICK c \in ShareClass : c = req[k].class
    BY <2>1 DEF IssueShares, BuybackShares
  <2>3. Registered(c)' /\ classes'[c].par_value = classes[c].par_value
    BY <2>1, <2>2, ClassesStay
  <2>4. classes'[c].status # "absent"
    BY <2>3 DEF Registered
  <2>5. QED BY <2>1, <2>2, <2>3, <2>4 DEF Registered
<1>4. RowsAreAsked'
  <2> DEFINE Asked(row, r) ==
        IF row.gl_posted
          THEN row.class = r.class /\ row.quantity = r.quantity /\ row.txn_type = r.verb
          ELSE row.txn_type \in {"transfer_out", "transfer_in"}
  <2>1. \A i \in 1 .. Len(register) :
          /\ register[i].txn \in Call /\ req'[register[i].txn] = req[register[i].txn]
          /\ Asked(register[i], req[register[i].txn])
    BY <1>2, TableCalls DEF JournalInv, RowsAreTheirs, RowsAreAsked
  <2>2. CASE register' = register
    BY <2>1, <2>2 DEF RowsAreAsked
  <2>3. CASE register' # register
    <3>1. PICK k \in Call : WritesRows(k)
      BY <2>3, WritingStep DEF Elsewhere, Begins, Proceeds, Posts, Fails, Closes, Unwritten
    <3>2. /\ req[k] \in Movement /\ req[k].scoped /\ req' = req
          /\ register' = register \o Rows(k)
      BY <3>1, AdvanceShape, MovementByVerb
         DEF WritesRows, Await, JournalInv, CommitIsScoped
    <3>3. /\ register \in Seq(Row) /\ Rows(k) \in Seq(Row)
          /\ \A m \in 1 .. Len(Rows(k)) : Rows(k)[m].txn = k
      BY <3>2, RowsMove, RowsSay DEF TypeOK
    <3>4. \A m \in 1 .. Len(Rows(k)) : Asked(Rows(k)[m], req[k])
      <4>1. CASE req[k].verb = "issue"
        <5>1. Rows(k) = << IssueRow(k) >> /\ Asked(IssueRow(k), req[k])
          BY <4>1, RowsOf DEF IssueRow
        <5> HIDE DEF Asked
        <5>2. \A m \in 1 .. Len(<< IssueRow(k) >>) : << IssueRow(k) >>[m] = IssueRow(k)
          OBVIOUS
        <5>3. QED BY <5>1, <5>2
      <4>2. CASE req[k].verb = "buyback"
        <5>1. Rows(k) = << BuybackRow(k) >> /\ Asked(BuybackRow(k), req[k])
          BY <4>2, RowsOf DEF BuybackRow
        <5> HIDE DEF Asked
        <5>2. \A m \in 1 .. Len(<< BuybackRow(k) >>) : << BuybackRow(k) >>[m] = BuybackRow(k)
          OBVIOUS
        <5>3. QED BY <5>1, <5>2
      <4>3. CASE req[k].verb = "transfer"
        <5> DEFINE out == TransferLeg(k, "transfer_out", req[k].from)
                   in  == TransferLeg(k, "transfer_in", req[k].to)
        <5>1. Rows(k) = << out, in >> /\ Asked(out, req[k]) /\ Asked(in, req[k])
          BY <4>3, RowsOf DEF TransferLeg
        <5> HIDE DEF out, in, Asked
        <5>2. \A m \in 1 .. Len(<< out, in >>) : << out, in >>[m] \in {out, in}
          OBVIOUS
        <5>3. QED BY <5>1, <5>2
      <4>4. QED
        BY <3>2, <4>1, <4>2, <4>3 DEF Movement, IssueShares, TransferShares, BuybackShares
    <3>5. ASSUME NEW i \in 1 .. Len(register')
          PROVE  Asked(register'[i], req'[register'[i].txn])
      <4> HIDE DEF Asked
      <4> DEFINE rows == Rows(k)
      <4>1. /\ rows \in Seq(Row) /\ register' = register \o rows
            /\ \A m \in 1 .. Len(rows) : rows[m].txn = k /\ Asked(rows[m], req[k])
        BY <3>2, <3>3, <3>4
      <4> HIDE DEF rows
      <4>2. \/ i \in 1 .. Len(register) /\ register'[i] = register[i]
            \/ i - Len(register) \in 1 .. Len(rows) /\ register'[i] = rows[i - Len(register)]
        BY <3>3, <4>1
      <4>3. QED BY <2>1, <3>2, <4>1, <4>2
    <3>6. QED BY <3>5 DEF RowsAreAsked
  <2>4. QED BY <2>2, <2>3
<1>5. QED BY <1>1, <1>3, <1>4

\* What the rows of a class have booked is its shares outstanding at par.
LEMMA BookedAtPar ==
  ASSUME TypeOK, JournalInv, CapitalInv, NEW c \in ShareClass
  PROVE  BookedCapital(c) = (- classes[c].par_value) * shares_outstanding(register, c)
<1> DEFINE p == - classes[c].par_value
           n == Len(register)
           booked == [i \in 1 .. n |->
             IF register[i].class = c /\ register[i].gl_posted
               THEN Net((CHOOSE j \in JournalsOf(register[i].txn) : TRUE).lines,
                        "share_capital")
               ELSE 0]
           counted == [i \in 1 .. n |-> Counted(register[i], c)]
<1>1. n \in Nat /\ p \in Int /\ \A i \in 1 .. n : register[i] \in Row
  BY DEF TypeOK, ShareClassRow
<1>2. ASSUME NEW i \in 1 .. n
      PROVE  counted[i] \in Int /\ booked[i] = p * counted[i]
  <2>1. PICK row \in Row : row = register[i]
    BY <1>1
  <2>2. counted[i] = Counted(row, c) /\ row.quantity \in Int
    BY <2>1 DEF Row
  <2>3. PICK k \in Call : k = row.txn
    BY <2>1 DEF Row
  <2>4. CASE ~ (row.class = c /\ row.gl_posted)
    <3>1. booked[i] = 0
      BY <2>1, <2>4
    <3>2. Counted(row, c) = 0
      BY <2>1, <2>4 DEF CapitalInv, RowsAreAsked, Counted
    <3>3. QED BY <1>1, <2>2, <3>1, <3>2
  <2>5. CASE row.class = c /\ row.gl_posted
    <3>1. /\ RowSays(row, req[k]) /\ HasJournal(gl, k)
          /\ req[k].class = c /\ row.quantity = req[k].quantity /\ row.txn_type = req[k].verb
      BY <2>1, <2>3, <2>5 DEF JournalInv, RowsAreTheirs, CapitalInv, RowsAreAsked
    <3>2. PICK j \in JournalsOf(k) : j = CHOOSE l \in JournalsOf(k) : TRUE
      BY <3>1, JournalsOfCall
    <3>3. Net(j.lines, "share_capital") = Capital(req[k], classes[c].par_value)
      BY <3>1, <3>2 DEF JournalsOf, CapitalInv, JournalsAreAtPar
    <3>4. booked[i] = Capital(req[k], classes[c].par_value)
      BY <2>1, <2>3, <2>5, <3>2, <3>3
    <3>5. req[k].verb \in {"issue", "buyback"}
      BY <2>5, <3>1 DEF RowSays, Movement, IssueShares, TransferShares, BuybackShares
    <3>6. PICK v \in Int, q \in Int : v = classes[c].par_value /\ q = row.quantity
      BY <2>2 DEF TypeOK, ShareClassRow
    <3>7. Counted(row, c) = IF req[k].verb = "issue" THEN q ELSE - q
      BY <2>5, <3>1, <3>5, <3>6 DEF Counted
    <3>8. Capital(req[k], classes[c].par_value) = IF req[k].verb = "issue" THEN - (q * v)
                                                                           ELSE q * v
      BY <3>1, <3>6 DEF Capital
    <3>9. (- v) * q = - (q * v) /\ (- v) * (- q) = q * v
      BY <3>6
    <3>10. p = - v
      BY <3>6
    <3>11. QED BY <2>2, <3>4, <3>5, <3>6, <3>7, <3>8, <3>9, <3>10
  <2>6. QED BY <2>4, <2>5
<1>3. /\ counted \in Seq(Int) /\ booked \in Seq(Int)
      /\ Len(counted) = n /\ Len(booked) = n
  <2>1. counted \in [1 .. n -> Int] /\ booked \in [1 .. n -> Int]
    <3>1. ASSUME NEW i \in 1 .. n
          PROVE  counted[i] \in Int /\ booked[i] \in Int
      <4> HIDE DEF counted, booked, n, p
      <4>1. counted[i] \in Int /\ booked[i] = p * counted[i]
        BY <1>2
      <4>2. QED BY <1>1, <4>1
    <3>2. QED BY <3>1
  <2> HIDE DEF counted, booked, n
  <2>2. QED BY <1>1, <2>1, SeqDef
<1>4. BookedCapital(c) = SumSeq(booked) /\ shares_outstanding(register, c) = SumSeq(counted)
  BY Zenon DEF BookedCapital, shares_outstanding
<1> HIDE DEF counted, booked, n, p
<1>5. SumSeq(booked) = p * SumSeq(counted)
  BY <1>1, <1>2, <1>3, SumSeqScale
<1>6. QED BY <1>4, <1>5 DEF p

\* A class whose shares were all bought back has no capital left in the ledger, in
\* every execution that keeps the par value of the registered classes.
THEOREM RetiringClearsCapital ==
  RegisterSpec /\ [][ParStays]_registerVars => []RetiredClassHasNoCapital
<1>1. RegisterInit => CapitalInv
  <2> SUFFICES ASSUME RegisterInit PROVE CapitalInv
    OBVIOUS
  <2>1. gl = {} /\ register = << >> /\ \A k \in Call : pc[k] = "idle"
    BY DEF RegisterInit, HubInit
  <2>2. \A v : ~ HasPar("idle", v)
    BY DEF HasPar
  <2>3. QED
    BY <2>1, <2>2 DEF CapitalInv, ParIsCurrent, JournalsAreAtPar, RowsAreAsked
<1>2. /\ TypeOK /\ JournalInv /\ CapitalInv
      /\ [RegisterNext]_registerVars /\ [ParStays]_registerVars
      => CapitalInv'
  <2> SUFFICES ASSUME TypeOK, JournalInv, CapitalInv,
                      [RegisterNext]_registerVars, [ParStays]_registerVars
               PROVE  CapitalInv'
    OBVIOUS
  <2>1. QED BY CapitalInvStep, Zenon
<1>3. TypeOK /\ JournalInv /\ CapitalInv => RetiredClassHasNoCapital
  <2> SUFFICES ASSUME TypeOK, JournalInv, CapitalInv, NEW c \in ShareClass,
                      shares_outstanding(register, c) = 0
               PROVE  BookedCapital(c) = 0
    BY DEF RetiredClassHasNoCapital
  <2>1. classes[c].par_value \in Int
    BY DEF TypeOK, ShareClassRow
  <2>2. QED BY <2>1, BookedAtPar
<1>4. QED BY <1>1, <1>2, <1>3, TypeCorrect, JournalInvariant, PTL DEF RegisterSpec
=============================================================================
