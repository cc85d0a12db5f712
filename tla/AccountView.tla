----------------------------- MODULE AccountView -----------------------------
(***************************************************************************)
(* What the Accounts page shows of the account list: the status of a row,   *)
(* the filters, sort and page kept in the URL, the toolbar that offers      *)
(* them, the table and its pager, and the clocks the statuses are computed  *)
(* with (one per fetch for filter and sort, one per render for a pill, one   *)
(* per change of the list for the tab counts).                              *)
(***************************************************************************)
EXTENDS Integers, Sequences, FiniteSets, FiniteSetsExt, TLC

CONSTANTS Pool,      \* sequence of the accounts the server may list, in its order
          Terms,     \* search terms
          PageSizes, \* sequence of page sizes, the first is the default
          MaxNow     \* bound: instants of a behaviour

All  == "all"
None == -1

VARIABLES rows,    \* query.data
          url,     \* the search parameters of the page
          now,     \* the time
          clock,   \* useClockAt: when the list was last fetched
          counted, \* when the toolbar last counted the statuses
          drawn    \* when the rows were last rendered

vars == <<rows, url, now, clock, counted, drawn>>

AccountStatuses == <<"banned", "suspended", "noToken", "outOfCredits", "expired", "disabled", "active">>
AccountSorts    == {"account", "status", "usage", "requests", "lastUsed", "expiry"}
Dimensions      == {"status", "plan", "auth", "region", "enabled"}
Selects         == Dimensions \ {"status"}

(***************************************************************************)
(* The model of one account                                                 *)
(***************************************************************************)
IsHeld(a)   == a.ban \notin {"", "ACTIVE"}
IsBanned(a) == IsHeld(a) /\ a.ban # "DISABLED"
IsOutOfCredits(a) == a.limit > 0 /\ a.used >= a.limit

AccountStatus(a, t) ==
  CASE IsBanned(a)                   -> IF a.ban = "SUSPENDED" THEN "suspended" ELSE "banned"
    [] ~a.hasToken                   -> "noToken"
    [] IsOutOfCredits(a)             -> "outOfCredits"
    [] a.expiresAt # 0 /\ a.expiresAt < t -> "expired"
    [] ~a.enabled \/ a.ban = "DISABLED"   -> "disabled"
    [] OTHER                         -> "active"

StatusRank(s)  == CHOOSE i \in DOMAIN AccountStatuses : AccountStatuses[i] = s
StatusGroup(s) == IF s \in {"active", "disabled"} THEN s ELSE "attention"
StatusFilterGroup(f) == IF f \in {All, "attention"} THEN f ELSE StatusGroup(f)
MatchesStatus(s, f) == IF f = "attention" THEN StatusGroup(s) = f ELSE s = f

\* Canonical sign-in method: spellings of one method are one filter value.
AuthKey(a) ==
  LET raw == IF a.provider # "" THEN a.provider ELSE a.authMethod
  IN  CASE raw \in {"idc", "enterprise"}                -> "enterprise"
        [] raw \in {"external_idp", "azuread"}          -> "microsoft"
        [] raw = "api_key"                              -> "apiKey"
        [] OTHER                                        -> raw

RegionKey(a) == IF a.region = "" THEN "us-east-1" ELSE a.region

DimensionValue(a, d, t) ==
  CASE d = "status"  -> AccountStatus(a, t)
    [] d = "plan"    -> a.plan
    [] d = "auth"    -> AuthKey(a)
    [] d = "region"  -> RegionKey(a)
    [] d = "enabled" -> IF a.enabled THEN "on" ELSE "off"

\* The fraction of plan credits used, else of trial credits.
UsageFraction(a) ==
  CASE a.limit > 0 -> (100 * a.used) \div a.limit
    [] a.trial > 0 -> a.trialUsed
    [] OTHER       -> None

(***************************************************************************)
(* Filter, sort and page                                                    *)
(***************************************************************************)
FilterAccounts(list, f, t) ==
  LET Matches(a) ==
        /\ \A d \in {d \in Dimensions : f[d] # All} :
             LET v == DimensionValue(a, d, t)
             IN  IF d = "status" THEN MatchesStatus(v, f[d]) ELSE v = f[d]
        /\ f.q = "" \/ f.q \in a.words
  IN  SelectSeq(list, Matches)

DefaultSortDesc(s) == s \in {"usage", "requests", "lastUsed"}

SortKey(a, s, t) ==
  CASE s = "account"  -> a.name
    [] s = "status"   -> StatusRank(AccountStatus(a, t))
    [] s = "usage"    -> UsageFraction(a)
    [] s = "requests" -> a.requests
    [] s = "lastUsed" -> IF a.lastUsed = 0 THEN None ELSE a.lastUsed
    [] s = "expiry"   -> IF a.expiresAt = 0 THEN None ELSE a.expiresAt

SortAccounts(list, s, desc, t) ==
  IF s = "" THEN list
  ELSE LET keyed == [i \in DOMAIN list |-> [a |-> list[i], i |-> i, k |-> SortKey(list[i], s, t)]]
           Before(x, y) ==
             CASE x.k = None \/ y.k = None -> IF x.k = y.k THEN x.i < y.i ELSE y.k = None
               [] x.k = y.k                -> x.i < y.i
               [] OTHER                    -> IF desc THEN y.k < x.k ELSE x.k < y.k
           sorted == SortSeq(keyed, Before)
       IN  [i \in DOMAIN sorted |-> sorted[i].a]

Desc(u) == IF u.order # "" THEN u.order = "desc" ELSE u.sort # "" /\ DefaultSortDesc(u.sort)
Larger(x, y) == IF x > y THEN x ELSE y
Smaller(x, y) == IF x < y THEN x ELSE y

Filtered == FilterAccounts(rows, url, clock)
Sorted   == SortAccounts(Filtered, url.sort, Desc(url), clock)

PageCount == Larger(1, (Len(Sorted) + url.size - 1) \div url.size)

\* Faulty variant: the page of the URL as it stands.
PageUnclamped == url.page

Page == Smaller(url.page, PageCount)
PageRows == SubSeq(Sorted, (Page - 1) * url.size + 1, Smaller(Page * url.size, Len(Sorted)))

(***************************************************************************)
(* The toolbar, the table header and the pager                              *)
(***************************************************************************)
\* filterOptions: the values of a dimension, counted with the toolbar's clock.
Options(d)  == {DimensionValue(rows[i], d, counted) : i \in DOMAIN rows}
Count(d, v) == Cardinality({i \in DOMAIN rows : DimensionValue(rows[i], d, counted) = v})

\* The number on a tab: the status options of its group added up.
GroupCount(g) == MapThenSumSet(LAMBDA s : Count("status", s), {s \in Options("status") : StatusGroup(s) = g})

Tab == StatusFilterGroup(url.status)
IssueOptions == {s \in Options("status") : StatusGroup(s) = "attention"}
Issue == IF Tab = "attention" /\ url.status # "attention" THEN url.status ELSE All
ShowIssue == Tab = "attention" /\ (Cardinality(IssueOptions) > 1 \/ Issue # All)
SelectDimensions == {d \in Selects : Cardinality(Options(d)) > 1 \/ url[d] # All}
ShowTabs == rows # <<>> \/ url.status # All
ShowSort == Len(rows) > 1 \/ url.sort # ""
Refined  == url.q # "" \/ Issue # All \/ \E d \in Selects : url[d] # All
HasFilters == url.q # "" \/ \E d \in Dimensions : url[d] # All

\* The whole toolbar is left out of an empty fleet, where the page has only its empty state.
ToolbarShown == rows # <<>>
PagerShown   == Len(Sorted) > PageSizes[1]
PagerPages   == {n \in {1, Page - 1, Page, Page + 1, PageCount} : n \in 1 .. PageCount}

(***************************************************************************)
(* Steps                                                                    *)
(***************************************************************************)
NoFilter == [q |-> "", status |-> All, plan |-> All, auth |-> All, region |-> All, enabled |-> All]

Init ==
  /\ now = 0 /\ clock = 0 /\ counted = 0 /\ drawn = 0
  /\ \E S \in SUBSET DOMAIN Pool : rows = SelectSeq(Pool, LAMBDA a : a.id \in S)
  /\ url = [q |-> "", status |-> All, plan |-> All, auth |-> All, region |-> All, enabled |-> All,
            sort |-> "", order |-> "", page |-> 1, size |-> PageSizes[1]]

\* Every change of the URL renders the page, and with it the pills.
Goes(u) == url' = u /\ drawn' = now /\ UNCHANGED <<rows, now, clock, counted>>

\* setFilters: any filter change starts over at page 1.
SetFilter(d, v) == ToolbarShown /\ Goes([url EXCEPT ![d] = v, !.page = 1])

\* Bound: one filter besides the status at a time.
RoomForFilter == url.q = "" /\ \A d \in Selects : url[d] = All

PickTab ==
  /\ ShowTabs
  /\ \E tab \in {All, "active", "attention", "disabled"} \ {Tab} : SetFilter("status", tab)

PickIssue ==
  /\ ShowIssue
  /\ \E s \in (IssueOptions \cup {"attention"}) \ {url.status} : SetFilter("status", s)

PickOption ==
  \E d \in SelectDimensions : \E v \in (Options(d) \cup {All}) \ {url[d]} :
    /\ RoomForFilter \/ v = All
    /\ SetFilter(d, v)

Search ==
  \E q \in (Terms \cup {""}) \ {url.q} :
    (RoomForFilter \/ url.q # "") /\ SetFilter("q", q)

\* clearFilters, from the toolbar or from the empty state.
Clear ==
  /\ Refined \/ (HasFilters /\ Sorted = <<>> /\ rows # <<>>)
  /\ Goes(NoFilter @@ [url EXCEPT !.page = 1])

SetSort(s, desc) ==
  Goes([url EXCEPT !.sort = s, !.page = 1,
                   !.order = IF s = "" THEN "" ELSE IF desc THEN "desc" ELSE "asc"])

\* A click on a column header: the same column turns round, another starts in its own order.
SortBy ==
  /\ rows # <<>>
  /\ \E s \in AccountSorts : SetSort(s, IF url.sort = s THEN ~Desc(url) ELSE DefaultSortDesc(s))

\* The "Sort by" select: a column, the server order or a direction.
PickSort ==
  /\ ToolbarShown /\ ShowSort
  /\ \/ \E s \in AccountSorts :
          SetSort(s, IF s = url.sort THEN Desc(url) ELSE DefaultSortDesc(s))
     \/ SetSort("", FALSE)
     \/ url.sort # "" /\ \E desc \in BOOLEAN : SetSort(url.sort, desc)

\* onPageChange, from a page number or a chevron of the pager.
Turn == PagerShown /\ \E n \in PagerPages \ {Page} : Goes([url EXCEPT !.page = n])

PickSize ==
  /\ ToolbarShown
  /\ \E i \in DOMAIN PageSizes :
       PageSizes[i] # url.size /\ Goes([url EXCEPT !.size = PageSizes[i], !.page = 1])

\* A fetch answers.  Equal data keeps its identity, so only the fetch's clock moves on.
Refetch ==
  /\ \E S \in SUBSET DOMAIN Pool : rows' = SelectSeq(Pool, LAMBDA a : a.id \in S)
  /\ clock' = now /\ drawn' = now
  /\ counted' = IF rows' = rows THEN counted ELSE now
  /\ UNCHANGED <<url, now>>

\* A row is ticked, a dialog opens, a mutation starts: the table is rendered again.
Render == drawn # now /\ drawn' = now /\ UNCHANGED <<rows, url, now, clock, counted>>

Tick == now < MaxNow /\ now' = now + 1 /\ UNCHANGED <<rows, url, clock, counted, drawn>>

UserStep == PickTab \/ PickIssue \/ PickOption \/ Search \/ Clear \/ SortBy \/ PickSort
              \/ Turn \/ PickSize
Next == UserStep \/ Refetch \/ Render \/ Tick
Spec == Init /\ [][Next]_vars

(***************************************************************************)
(* Properties                                                               *)
(***************************************************************************)
Ids(s) == {s[i].id : i \in DOMAIN s}

\* Whatever order filters, sorts, page turns and refetches come in, the page shown has rows
\* whenever any row passes the filters, its size is kept to, every hidden page can be turned to
\* (the pager is there whenever there is more than one), and filters that hide every row of a
\* fleet can be dropped from where the user stands.  A tab alone lists as many rows as its number
\* says when both were reckoned at the same second.
EveryRowReachable ==
  /\ Sorted # <<>> => PageRows # <<>>
  /\ Len(PageRows) <= url.size
  /\ PageCount > 1 => PagerShown /\ {1, PageCount} \subseteq PagerPages
  /\ PageCount * url.size >= Len(Sorted)
  /\ Ids(Sorted) # Ids(rows) => Refined \/ ShowTabs
  /\ (counted = clock /\ RoomForFilter /\ url.status = Tab /\ Tab # All) => Len(Sorted) = GroupCount(Tab)

\* The order shown is the order asked for: a permutation of the filtered rows with the rows that
\* have no value last in both directions, the others by value, and equal rows in server order.
OrderRight ==
  LET K(i) == SortKey(Sorted[i], url.sort, clock)
      At(a) == CHOOSE j \in DOMAIN rows : rows[j] = a
  IN  /\ Ids(Sorted) = Ids(Filtered) /\ Len(Sorted) = Len(Filtered)
      /\ \A i, j \in DOMAIN Sorted : i < j =>
           \/ url.sort = "" /\ At(Sorted[i]) < At(Sorted[j])
           \/ url.sort # "" /\ K(j) = None /\ K(i) # None
           \/ url.sort # "" /\ K(i) = K(j) /\ At(Sorted[i]) < At(Sorted[j])
           \/ url.sort # "" /\ None \notin {K(i), K(j)}
                /\ IF Desc(url) THEN K(i) > K(j) ELSE K(i) < K(j)

=============================================================================
