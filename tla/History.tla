------------------------------ MODULE History ------------------------------
(***************************************************************************)
(* What people are told about their payments: categories they file them    *)
(* under, the list of transactions page by page, and the analytics of what *)
(* they spend.  A transfer is filed while categories are renamed and       *)
(* deleted and while somebody turns the pages; its created_at is the time  *)
(* its database transaction began, not the time it committed.  The money   *)
(* moves as Bank says.                                                     *)
(***************************************************************************)
EXTENDS Wallets

CONSTANTS
    CategoryIds,     \* random ids: a deleted one never comes back
    Names,           \* names people give, see Reserved
    Payments,        \* the transfers people ask for, see PaymentShape
    Readers,         \* clients that turn the pages of a list
    PageSize,
    ListRanges,      \* ranges of dates they ask for
    Spans,           \* lengths of the periods analytics are grouped by
    MaxCategoryCalls, MaxReadings, MaxLookupFaults   \* bounds on a behaviour

NoCategory == "none"
Unborn == [user |-> Nobody, name |-> "unborn"]
Gone == [user |-> Nobody, name |-> "gone"]

\* "Other" is refused as a name, "uncategorized" is not.
Reserved == {"other"}
Uncategorized == "uncategorized"

\* A range of dates that is open at its end, at both ends.
NoEnd == -1
Always == [from |-> 0, to |-> NoEnd]

PaymentShape ==
    [user : Users, to : Users, amount : Nat \ {0}, key : Keys,
     category : CategoryIds \cup {NoCategory}]

ASSUME HistoryAssumption ==
    /\ Payments \subseteq PaymentShape
    /\ \A p \in Payments : p.user # p.to
    /\ NoCategory \notin Names
    /\ ListRanges \subseteq [from : Nat, to : Nat \cup {NoEnd}]
    /\ \A r \in ListRanges : r.to = NoEnd \/ r.from < r.to
    /\ PageSize \in Nat \ {0} /\ Spans \subseteq Nat \ {0}
    /\ {MaxCategoryCalls, MaxReadings, MaxLookupFaults} \subseteq Nat

VARIABLES
    categories,      \* payment.categories
    filed,           \* category_id and created_at of the transactions
    stage, began,    \* where each transfer is, when its transaction began
    clock,
    reading,         \* the list each reader goes through
    categoryCalls, readings, lookupFaults

historyVars ==
    <<categories, filed, stage, began, clock, reading, categoryCalls, readings, lookupFaults>>
tellVars == <<reading, readings, lookupFaults>>
fileVars == <<filed, stage, began, clock>>

-----------------------------------------------------------------------------
(* Statements.                                                             *)

\* What category_id may refer to.
Fileable == {NoCategory} \cup {c \in CategoryIds : categories[c].user # Nobody}

\* UNIQUE (user_id, name).
NameTaken(u, n) == \E c \in CategoryIds : categories[c] = [user |-> u, name |-> n]

Mentions(t, a) == a \in {t.from, t.to}

\* A range of dates: from is included, to is not.
In(t, range) ==
    range.from <= filed[t].at /\ (range.to = NoEnd \/ filed[t].at < range.to)

AllTime == [from |-> 0, to |-> clock]

\* ParseDateRange: without a from there is no lower bound, without a to it is
\* now, and a range that ends before it begins is refused.
DateRanges == {r \in [from : 0..clock, to : 0..clock] : r.from < r.to \/ r = AllTime}

Matching(a, category, range) ==
    {t \in txns : /\ Mentions(t, a) /\ In(t, range)
                  /\ category = NoCategory \/ filed[t].category = category}

\* The first n rows, newest first.  Which of two rows of the same instant comes
\* first is the database's to choose, for every query anew.
Newest(rows, n) ==
    {top \in SUBSET rows :
        /\ Cardinality(top) = IF n < Cardinality(rows) THEN n ELSE Cardinality(rows)
        /\ \A t \in top, u \in rows \ top : filed[t].at >= filed[u].at}

\* ORDER BY created_at DESC LIMIT limit OFFSET offset: the answers it may have.
ListTransactionsByAccountPaginated(a, category, range, limit, offset) ==
    LET rows == Matching(a, category, range)
    IN {page \in SUBSET rows :
           \E passed \in Newest(rows, offset), upTo \in Newest(rows, offset + limit) :
               passed \subseteq upTo /\ page = upTo \ passed}

CountTransactionsByAccount(a, category, range) == Cardinality(Matching(a, category, range))

Spent(a, range) == {t \in txns : t.from = a /\ In(t, range)}

AmountOfAll(ts) == SumOf([t \in ts |-> t.amount], ts)

\* A group of a GROUP BY, as it is answered; an answer has one per key.
Group(label, ts) == [label |-> label, count |-> Cardinality(ts), total |-> AmountOfAll(ts)]

\* LEFT JOIN of the categories; the rows without one are a group of their own.
NameOf(t) == IF filed[t].category = NoCategory THEN NoCategory
             ELSE categories[filed[t].category].name

GetSpendByCategory(a, range) ==
    [n \in {NameOf(t) : t \in Spent(a, range)} |->
        Group(IF n = NoCategory THEN Uncategorized ELSE n,
              {t \in Spent(a, range) : NameOf(t) = n})]

GetSpendByPeriod(a, range, span) ==
    LET period(t) == filed[t].at \div span
    IN [d \in {period(t) : t \in Spent(a, range)} |->
           Group(d, {t \in Spent(a, range) : period(t) = d})]

-----------------------------------------------------------------------------
(* Categories, one statement each.                                         *)

CallCategory ==
    /\ categoryCalls < MaxCategoryCalls
    /\ categoryCalls' = categoryCalls + 1
    /\ UNCHANGED <<bankVars, stage, began, clock, tellVars>>

CreateCategory(u, n) ==
    /\ n \notin Reserved
    /\ ~ NameTaken(u, n)
    /\ \E c \in CategoryIds :
        /\ categories[c] = Unborn
        /\ categories' = [categories EXCEPT ![c] = [user |-> u, name |-> n]]
    /\ UNCHANGED filed
    /\ CallCategory

\* WHERE id = $1 AND user_id = $3.
UpdateCategory(c, u, n) ==
    /\ n \notin Reserved
    /\ categories[c].user = u
    /\ ~ NameTaken(u, n)
    /\ categories' = [categories EXCEPT ![c].name = n]
    /\ UNCHANGED filed
    /\ CallCategory

\* ON DELETE SET NULL: the transactions of a deleted category have none.
DeleteCategory(c, u) ==
    /\ categories[c].user = u
    /\ categories' = [categories EXCEPT ![c] = Gone]
    /\ filed' = [t \in DOMAIN filed |->
                    IF filed[t].category = c THEN [filed[t] EXCEPT !.category = NoCategory]
                    ELSE filed[t]]
    /\ CallCategory

-----------------------------------------------------------------------------
(* A transfer.                                                             *)

\* What Transfer hands to the ledger.
MoneyOf(p) ==
    [kind |-> "transfer", from |-> WalletOf[p.user], to |-> WalletOf[p.to],
     amount |-> p.amount, key |-> p.key]

Reach(p, s) == stage' = [stage EXCEPT ![p] = s]

\* The lookup of the key; a known one is replayed.
LookUpKey(p) ==
    /\ stage[p] = "asked"
    /\ Reach(p, IF KeyTaken(txns, MoneyOf(p)) THEN "replayed" ELSE "category")
    /\ UNCHANGED <<bankVars, categories, filed, began, clock, categoryCalls, tellVars>>

\* Variant: any category that exists will do.
CheckAnyCategory(p) ==
    /\ stage[p] = "category"
    /\ Reach(p, IF p.category \in Fileable THEN "ready" ELSE "refused")
    /\ UNCHANGED <<bankVars, categories, filed, began, clock, categoryCalls, tellVars>>

\* The category must be the payer's own.
CheckCategory(p) ==
    /\ stage[p] = "category"
    /\ Reach(p, IF p.category = NoCategory \/ categories[p.category].user = p.user
                THEN "ready" ELSE "refused")
    /\ UNCHANGED <<bankVars, categories, filed, began, clock, categoryCalls, tellVars>>

\* BEGIN: what NOW() says until the commit.  Two may begin in the same instant.
BeginTransfer(p) == \E now \in {clock - 1, clock} \cap Nat :
    /\ stage[p] = "ready"
    /\ Reach(p, "begun")
    /\ began' = [began EXCEPT ![p] = now]
    /\ clock' = now + 1
    /\ UNCHANGED <<bankVars, categories, filed, categoryCalls, tellVars>>

\* The foreign key of the category is checked when the row is inserted: one
\* that is gone by then fails the transfer, as missing funds and a taken key do.
CommitTransfer(p) ==
    /\ stage[p] = "begun"
    /\ \/ /\ p.category \in Fileable
          /\ Transfer(MoneyOf(p))
          /\ filed' = [t \in txns' |->
                          IF t \in txns THEN filed[t]
                          ELSE [category |-> p.category, at |-> began[p]]]
          /\ Reach(p, "paid")
       \/ /\ \/ p.category \notin Fileable
             \/ balance[WalletOf[p.user]] < p.amount
             \/ KeyTaken(txns, MoneyOf(p))
          /\ Reach(p, "refused")
          /\ UNCHANGED <<bankVars, filed>>
    /\ UNCHANGED <<categories, began, clock, categoryCalls, tellVars>>

-----------------------------------------------------------------------------
(* Turning the pages of ListMyTransactions.                                *)

NotReading ==
    [step |-> "none", user |-> Nobody, category |-> NoCategory, range |-> Always, page |-> 0,
     want |-> {}, rows |-> {}, seen |-> {}, misled |-> FALSE]

BeginReading(r, u, category, range) ==
    /\ reading[r].step = "none"
    /\ readings < MaxReadings
    /\ readings' = readings + 1
    /\ reading' = [reading EXCEPT ![r] =
           [NotReading EXCEPT !.step = "rows", !.user = u, !.category = category,
                              !.range = range, !.page = 1,
                              !.want = Matching(WalletOf[u], category, range)]]
    /\ UNCHANGED <<bankVars, categories, fileVars, categoryCalls, lookupFaults>>

\* The rows of a page ...
ReadRows(r) ==
    LET x == reading[r] IN
    /\ x.step = "rows"
    /\ \E page \in ListTransactionsByAccountPaginated(
                     WalletOf[x.user], x.category, x.range, PageSize, (x.page - 1) * PageSize) :
         reading' = [reading EXCEPT ![r].step = "details", ![r].rows = page]
    /\ UNCHANGED <<bankVars, categories, fileVars, categoryCalls, readings, lookupFaults>>

\* Sent by the reader, if the reader's account is found; received otherwise.
Direction(t, u, found) == IF found /\ t.from = WalletOf[u] THEN "debit" ELSE "credit"

\* ... then their number, by a statement of its own, and the accounts they
\* name, whose lookups may fail.  The client goes on until it has that many.
ReadDetails(r) ==
    LET x == reading[r]
        total == CountTransactionsByAccount(WalletOf[x.user], x.category, x.range)
    IN /\ x.step = "details"
       /\ \E found \in BOOLEAN :
            /\ found \/ lookupFaults < MaxLookupFaults
            /\ lookupFaults' = IF found THEN lookupFaults ELSE lookupFaults + 1
            /\ reading' = [reading EXCEPT ![r] =
                  [x EXCEPT !.step = IF x.page * PageSize < total THEN "rows" ELSE "read",
                            !.page = @ + 1,
                            !.rows = {},
                            !.misled = @ \/ ~ found,
                            !.seen = @ \cup {[row |-> t, direction |-> Direction(t, x.user, found)] :
                                               t \in x.rows}]]
       /\ UNCHANGED <<bankVars, categories, fileVars, categoryCalls, readings>>

StopReading(r) ==
    /\ reading[r].step = "read"
    /\ reading' = [reading EXCEPT ![r] = NotReading]
    /\ UNCHANGED <<bankVars, categories, fileVars, categoryCalls, readings, lookupFaults>>

-----------------------------------------------------------------------------

HistoryInit ==
    /\ BankInit
    /\ categories = [c \in CategoryIds |-> Unborn]
    /\ filed = <<>>
    /\ stage = [p \in Payments |-> "asked"]
    /\ began = [p \in Payments |-> 0]
    /\ clock = 0
    /\ reading = [r \in Readers |-> NotReading]
    /\ categoryCalls = 0 /\ readings = 0 /\ lookupFaults = 0

HistoryNext ==
    \/ \E u \in Users, n \in Names : CreateCategory(u, n)
    \/ \E c \in CategoryIds, u \in Users :
        DeleteCategory(c, u) \/ \E n \in Names : UpdateCategory(c, u, n)
    \/ \E p \in Payments :
        LookUpKey(p) \/ CheckCategory(p) \/ BeginTransfer(p) \/ CommitTransfer(p)
    \/ \E r \in Readers :
        \/ \E u \in Users, c \in CategoryIds \cup {NoCategory}, range \in ListRanges :
            BeginReading(r, u, c, range)
        \/ ReadRows(r) \/ ReadDetails(r) \/ StopReading(r)

HistorySpec == HistoryInit /\ [][HistoryNext]_<<bankVars, historyVars>>

-----------------------------------------------------------------------------
(* Properties.                                                             *)

\* The shape of the state; a transaction is older than the present instant.
HistoryTypeOK ==
    /\ DOMAIN filed = txns
    /\ \A t \in txns : filed[t].at < clock
    /\ stage \in [Payments -> {"asked", "category", "ready", "begun", "paid", "refused", "replayed"}]

\* A transaction is filed under a category that exists and is the payer's,
\* whoever deletes it between the check and the commit, or afterwards.
FiledUnderOwn ==
    \A t \in txns : filed[t].category # NoCategory =>
        WalletOf[categories[filed[t].category].user] = t.from

TotalOf(groups) == SumOf([k \in DOMAIN groups |-> groups[k].total], DOMAIN groups)

\* Both analytics count every payment of the range once, however categories
\* come and go; over all time they are what the wallet has lost.  A label
\* comes twice only if somebody has named a category "uncategorized".
SpendAgrees ==
    \A u \in Users :
        LET a == WalletOf[u] IN
        /\ \A range \in DateRanges :
            LET byCategory == GetSpendByCategory(a, range) IN
            /\ TotalOf(byCategory) = AmountOfAll(Spent(a, range))
            /\ \A span \in Spans :
                TotalOf(GetSpendByPeriod(a, range, span)) = TotalOf(byCategory)
            /\ \A m, n \in DOMAIN byCategory :
                byCategory[m].label = byCategory[n].label
                => m = n \/ byCategory[m].label = Uncategorized
        /\ TotalOf(GetSpendByCategory(a, AllTime)) =
             Opening[a] + AmountOfAll({t \in txns : t.to = a}) - balance[a]

Shown(x, direction) == {e.row : e \in {f \in x.seen : f.direction = direction}}

\* No other row of the list began in the same instant.
Alone(t, rows) == \A u \in rows : filed[u].at = filed[t].at => u = t

\* Whoever turns the pages to the end has seen every transaction that was
\* there at the beginning and still matches, whatever commits meanwhile and
\* wherever in the order it lands, unless another one of the list began in the
\* same instant: two pages may order such a pair differently.  If nothing has
\* committed, the list is of everything, no two rows of it began together and
\* every lookup succeeded, what was shown adds up to the balance.
PagesAreComplete ==
    \A r \in Readers : reading[r].step = "read" =>
        LET x == reading[r]
            a == WalletOf[x.user]
            now == Matching(a, x.category, x.range)
            alone == {t \in now : Alone(t, now)}
        IN /\ x.want \cap alone \subseteq {e.row : e \in x.seen}
           /\ /\ x.want = now /\ alone = now
              /\ x.category = NoCategory /\ x.range = Always /\ ~ x.misled
              => balance[a] = Opening[a] + AmountOfAll(Shown(x, "credit"))
                                         - AmountOfAll(Shown(x, "debit"))

\* What people are told about their money (transfer_usecase.go,
\* analytics_usecase.go) agrees with the books.
HistoryHolds == FiledUnderOwn /\ SpendAgrees /\ PagesAreComplete
=============================================================================
