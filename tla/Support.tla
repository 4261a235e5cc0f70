------------------------------ MODULE Support ------------------------------
(***************************************************************************)
(* Feedback, complaints, reports and the audit log of the support service: *)
(* rows that are inserted and listed, newest first, a page per request.    *)
(* Rows are inserted while somebody turns the pages.                       *)
(***************************************************************************)
EXTENDS Outcomes, Integers, Sequences

CONSTANTS People,        \* ids in the tokens
          Ratings,       \* ratings that are sent
          Pages,         \* page sizes that are asked for
          Readers,       \* clients that turn the pages of a list
          IntLimit,      \* a column of w bits holds -IntLimit .. IntLimit - 1, 2 ^ (w - 1)
          MaxRows, MaxReads   \* bounds on a behaviour

ASSUME SupportAssumption ==
  {IntLimit, MaxRows, MaxReads} \subseteq Nat /\ IntLimit > 5 /\ Pages \cup Ratings \subseteq Int

VARIABLES tables,        \* per table, its rows in the order of their creation
          roleOf,        \* the role the gateway sends with each person's requests
          readers, reads,
          posted         \* feedback that was accepted, as it was sent

supportVars == <<tables, roleOf, readers, reads, posted>>

Tables == {"feedbacks", "complaints", "reports", "audit_logs"}
Roles == {"user", "merchant"}

-----------------------------------------------------------------------------
(* Statements *)

\* A Go int that becomes a column of fewer bits.
Int32(n) == ((n + IntLimit) % (2 * IntLimit)) - IntLimit

Feedback(who, type, rating) == [who |-> who, type |-> type, rating |-> Int32(rating)]
Complaint(who, type) == [who |-> who, type |-> type]
Report(who, type) == [who |-> who, type |-> type]
AuditLog(who, role) == [who |-> who, type |-> role]

\* Not of the code: the table has no CHECK.
InsertAnyFeedback(rows, row) == Ok(Append(rows, row))

CreateFeedback(rows, row) ==
  IF row.rating \in 1..5 THEN Ok(Append(rows, row)) ELSE Fail("check")
CreateComplaint(rows, row) == Ok(Append(rows, row))
CreateReport(rows, row) == Ok(Append(rows, row))
CreateAuditLog(rows, row) == Ok(Append(rows, row))

\* LIMIT and OFFSET of a list, newest first; postgres refuses negative ones.
\* The numbers of the rows stand for their ids.
Newest(rows) == [i \in 1..Len(rows) |-> Len(rows) + 1 - i]
Page(rows, limit, offset) ==
  IF limit < 0 \/ offset < 0 THEN Fail("error")
  ELSE Ok({Newest(rows)[i] : i \in {j \in 1..Len(rows) : offset < j /\ j <= offset + limit}})
ListFeedbacks(limit, offset) == Page(tables["feedbacks"], limit, offset)
ListComplaints(limit, offset) == Page(tables["complaints"], limit, offset)
ListReports(limit, offset) == Page(tables["reports"], limit, offset)
ListAuditLogs(limit, offset) == Page(tables["audit_logs"], limit, offset)

OwnRows(rows, who, type) == {i \in DOMAIN rows : rows[i].who = who /\ rows[i].type = type}
ListComplaintsByUser(who, type) == OwnRows(tables["complaints"], who, type)
ListReportsByUser(who, type) == OwnRows(tables["reports"], who, type)

-----------------------------------------------------------------------------
(* Requests, one statement each *)

NoReader == [list |-> "none", size |-> 0, at |-> 0, want |-> {}, seen |-> {}]

SupportInit ==
  /\ tables = [t \in Tables |-> <<>>] /\ roleOf = [p \in People |-> "user"]
  /\ readers = [r \in Readers |-> NoReader] /\ reads = 0 /\ posted = <<>>

Rows == Len(tables["feedbacks"]) + Len(tables["complaints"]) + Len(tables["reports"])
        + Len(tables["audit_logs"])
Insert(table, result) ==
  /\ Rows < MaxRows
  /\ tables' = IF Succeeds(result) THEN [tables EXCEPT ![table] = result.val] ELSE tables
  /\ UNCHANGED <<roleOf, readers, reads>>

PostFeedback(p) == \E rating \in Ratings :
  LET result == CreateFeedback(tables["feedbacks"], Feedback(p, roleOf[p], rating)) IN
  /\ Insert("feedbacks", result)
  /\ posted' = IF Succeeds(result) THEN Append(posted, rating) ELSE posted

PostComplaint(p) ==
  /\ Insert("complaints", CreateComplaint(tables["complaints"], Complaint(p, roleOf[p])))
  /\ UNCHANGED posted
PostReport(p) ==
  /\ Insert("reports", CreateReport(tables["reports"], Report(p, roleOf[p])))
  /\ UNCHANGED posted
PostAuditLog(p) ==
  /\ Insert("audit_logs", CreateAuditLog(tables["audit_logs"], AuditLog(p, "admin")))
  /\ UNCHANGED posted

\* A person becomes a merchant: the first role of the token is another one.
ChangeRole(p) ==
  /\ roleOf[p] = "user" /\ roleOf' = [roleOf EXCEPT ![p] = "merchant"]
  /\ UNCHANGED <<tables, readers, reads, posted>>

BeginList(r, list, size) ==
  /\ readers[r].list = "none" /\ reads < MaxReads /\ reads' = reads + 1
  /\ readers' = [readers EXCEPT ![r] =
       [NoReader EXCEPT !.list = list, !.size = size, !.want = DOMAIN tables[list]]]
  /\ UNCHANGED <<tables, roleOf, posted>>

ListPage(list, size, at) ==
  CASE list = "feedbacks" -> ListFeedbacks(size, at)
    [] list = "complaints" -> ListComplaints(size, at)
    [] list = "reports" -> ListReports(size, at)
    [] OTHER -> ListAuditLogs(size, at)

\* The next page; the last one is shorter than the others.
TurnPage(r) ==
  LET x == readers[r]
      page == ListPage(x.list, x.size, x.at)
  IN /\ x.list \in Tables
     /\ readers' = [readers EXCEPT ![r] =
          IF ~Succeeds(page) THEN NoReader
          ELSE [x EXCEPT !.seen = @ \cup page.val, !.at = @ + x.size,
                         !.list = IF Cardinality(page.val) < x.size THEN "read" ELSE @]]
     /\ UNCHANGED <<tables, roleOf, reads, posted>>

CloseList(r) ==
  /\ readers[r].list = "read" /\ readers' = [readers EXCEPT ![r] = NoReader]
  /\ UNCHANGED <<tables, roleOf, reads, posted>>

SupportNext ==
  \/ \E p \in People :
       PostFeedback(p) \/ PostComplaint(p) \/ PostReport(p) \/ PostAuditLog(p) \/ ChangeRole(p)
  \/ \E r \in Readers :
       \/ \E list \in Tables, size \in Pages : BeginList(r, list, size)
       \/ TurnPage(r) \/ CloseList(r)

SupportSpec == SupportInit /\ [][SupportNext]_supportVars

-----------------------------------------------------------------------------
(* Properties *)

\* The shape of the state; rows keep their keys.
SupportTypeOK ==
  /\ Rows <= MaxRows /\ \A t \in Tables : \A i \in DOMAIN tables[t] :
       tables[t][i].who \in People /\ tables[t][i].type \in Roles \cup {"admin"}
  /\ \A r \in Readers : readers[r].list \in Tables \cup {"none", "read"}

\* Lists and ratings (query.sql.go, support_repo.go): whoever turns the pages
\* of a list to its end has seen every row that was there at the beginning,
\* whatever is inserted meanwhile; a person's own rows are listed under the
\* role they were filed with; a rating is one of the five, and the one that was
\* sent if that fits the column.
SupportHolds ==
  /\ SupportTypeOK
  /\ \A r \in Readers : readers[r].list = "read" => readers[r].want \subseteq readers[r].seen
  /\ \A p \in People :
       /\ UNION {ListComplaintsByUser(p, type) : type \in Roles} =
            {i \in DOMAIN tables["complaints"] : tables["complaints"][i].who = p}
       /\ roleOf[p] = "user" => ListReportsByUser(p, "merchant") = {}
  /\ Len(posted) = Len(tables["feedbacks"])
  /\ \A i \in DOMAIN posted :
       /\ tables["feedbacks"][i].rating \in 1..5
       /\ posted[i] \in -IntLimit..(IntLimit - 1) =>
            tables["feedbacks"][i].rating = posted[i]
=============================================================================
