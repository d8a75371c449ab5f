--------------------------- MODULE SecurityMaster ---------------------------
(***************************************************************************)
(* The security master: which securities exist and what they are called.  *)
(*                                                                         *)
(* A refresh (the schedule's, an operator's, a command's: they may         *)
(* overlap) is as of today or of a date that is asked for.  It fetches the *)
(* provider's lists one after another, stocks and funds by listing status  *)
(* and then the sectors, while securities are listed, renamed, suspended   *)
(* and dropped; and writes what it has in one transaction.  Names that     *)
(* documents mention are looked up in what is stored.                      *)
(***************************************************************************)
EXTENDS Naturals, Sequences, FiniteSets

CONSTANTS Refreshers, Codes, Names,
          Kind,        \* asset type of a code: "STOCK", "ETF" or "SECTOR"
          ListedFrom,  \* list_date of a code
          Ends,        \* delist dates; 0 is none
          Variants,    \* of a sector under a name: the names with and without its suffixes
          AsOfDates,   \* dates that a refresh is asked for
          MaxChanges,  \* bound on the provider's changes and days
          NoRow

VARIABLES
  day,
  provider,   \* the provider's row of each code
  past,       \* the sectors' index of each day before
  refresh,    \* what each refresh has fetched
  master,     \* security_master, by ts_code
  alias,      \* security_aliases of each code: the active names, and the others
  borne,      \* (history) the names that a code has had at the provider
  fresh,      \* (history) the last refresh that wrote saw the provider as it is
  changes

vars == <<day, provider, past, refresh, master, alias, borne, fresh, changes>>

Statuses == {"L", "D", "P"}
ProviderRow == [status : Statuses, name : Names, full : Names, until : Ends]
Rows(codes) == [codes -> ProviderRow \union {NoRow}]
Sectors == {c \in Codes : Kind[c] = "SECTOR"}

\* The lists in the order they are fetched.
Lists == <<<<"STOCK", "L">>, <<"STOCK", "D">>, <<"STOCK", "P">>,
           <<"ETF", "L">>, <<"ETF", "D">>, <<"ETF", "P">>, <<"SECTOR", "L">>>>

\* A sector is in the index or not, and has one name; what is not listed may have
\* ended at any time, which decides nothing.
Possible(c, row) ==
  /\ c \in Sectors => row.status = "L" /\ row.full = row.name
  /\ c \in Sectors \/ row.status # "L" => row.until = 0

\* The full name and, of a sector, the variants of its name.
Aliases(c, row) == {row.full} \union (IF c \in Sectors THEN Variants[c][row.name] ELSE {})
NamesOf(c, row) == IF row = NoRow THEN {} ELSE {row.name} \union Aliases(c, row)

NoRefresh == [step |-> 0, asOf |-> 0, rows |-> [c \in Codes |-> NoRow], names |-> {}, calm |-> FALSE]

Init ==
  /\ day = 1
  /\ provider \in Rows(Codes)
  /\ \E s \in Sectors : provider[s] # NoRow
  /\ \A c \in Codes : provider[c] # NoRow => Possible(c, provider[c]) /\ provider[c].status = "L"
  /\ past = <<>>
  /\ refresh = [r \in Refreshers |-> NoRefresh]
  /\ master = [c \in Codes |-> NoRow]
  /\ alias = [c \in Codes |-> [on |-> {}, off |-> {}]]
  /\ borne = [c \in Codes |-> NamesOf(c, provider[c])]
  /\ fresh = FALSE
  /\ changes = 0

Listing(rows, kind, status) ==
  [c \in Codes |-> IF Kind[c] = kind /\ rows[c] # NoRow /\ rows[c].status = status
                     THEN rows[c] ELSE NoRow]

-----------------------------------------------------------------------------
(* The provider.                                                           *)

\* Whatever a refresh under way has fetched may be out of date from here on.
Disturbed ==
  /\ changes < MaxChanges /\ changes' = changes + 1
  /\ fresh' = FALSE
  /\ refresh' = [r \in Refreshers |-> [refresh[r] EXCEPT !.calm = FALSE]]

\* A security is listed, renamed, suspended, delisted, relisted or dropped.
Change(c) ==
  /\ Disturbed
  /\ \E row \in ProviderRow \union {NoRow} :
       /\ row # provider[c]
       /\ row # NoRow => Possible(c, row)
       /\ provider' = [provider EXCEPT ![c] = row]
       /\ borne' = [borne EXCEPT ![c] = @ \union NamesOf(c, row)]
  /\ UNCHANGED <<day, past, master, alias>>

NewDay ==
  /\ Disturbed
  /\ day' = day + 1
  /\ past' = Append(past, Listing(provider, "SECTOR", "L"))
  /\ UNCHANGED <<provider, master, alias, borne>>

-----------------------------------------------------------------------------
(* A refresh.                                                              *)

Begin(r, asOf) ==
  /\ refresh[r].step = 0
  /\ refresh' = [refresh EXCEPT ![r] = [NoRefresh EXCEPT !.step = 1, !.asOf = asOf, !.calm = asOf = day]]
  /\ UNCHANGED <<day, provider, past, master, alias, borne, fresh, changes>>

\* The rows of one list, over those of the lists before; their aliases are candidates
\* whatever replaces the rows.
Adds(r, rows, calm) ==
  LET codes == {c \in Codes : rows[c] # NoRow} IN
  refresh' = [refresh EXCEPT
    ![r].step = @ + 1,
    ![r].rows = [c \in Codes |-> IF c \in codes THEN rows[c] ELSE @[c]],
    ![r].names = @ \union UNION {{c} \X Aliases(c, rows[c]) : c \in codes},
    ![r].calm = @ /\ calm]

\* Every token fails: the whole refresh does, and nothing is written.
FetchFails(r) ==
  /\ refresh[r].step \in DOMAIN Lists
  /\ refresh' = [refresh EXCEPT ![r] = NoRefresh]
  /\ UNCHANGED <<day, provider, past, master, alias, borne, fresh, changes>>

Fetch(r) ==
  /\ refresh[r].step \in DOMAIN Lists
  /\ LET list == Lists[refresh[r].step] IN
       list[1] # "SECTOR" /\ Adds(r, Listing(provider, list[1], list[2]), TRUE)
  /\ UNCHANGED <<day, provider, past, master, alias, borne, fresh, changes>>

\* The sectors' index of the day asked for or, while it is not there or fails, of the
\* day before it.
FetchSectors(r) ==
  /\ refresh[r].step \in DOMAIN Lists /\ Lists[refresh[r].step][1] = "SECTOR"
  /\ \E date \in 1..refresh[r].asOf :
       /\ date <= day
       /\ LET index == IF date = day THEN Listing(provider, "SECTOR", "L") ELSE past[date] IN
            (\E c \in Codes : index[c] # NoRow) /\ Adds(r, index, date = day)
  /\ UNCHANGED <<day, provider, past, master, alias, borne, fresh, changes>>

IsActive(c, row, asOf) == row.status = "L" /\ ListedFrom[c] <= asOf /\ row.until \notin 1..asOf

UpsertBatch(rows, asOf) ==
  [c \in Codes |->
     IF rows[c] # NoRow
       THEN [status |-> rows[c].status, name |-> rows[c].name, active |-> IsActive(c, rows[c], asOf)]
       ELSE master[c]]

\* Mutant: what is no longer listed at all stays as it was.
KeepMissing(rows, after) == after

\* What the refresh has not seen is deactivated and otherwise left.
DeactivateMissing(rows, after) ==
  [c \in Codes |-> IF rows[c] = NoRow /\ after[c] # NoRow
                     THEN [after[c] EXCEPT !.active = FALSE] ELSE after[c]]

\* An alias is as active as its security; one that is the name itself is not
\* written, and one that is not among the candidates is left as it was.
AliasUpserts(names, after) ==
  [c \in Codes |->
     LET new == {n \in Names : <<c, n>> \in names /\ n # after[c].name} IN
     IF new = {} THEN alias[c]
     ELSE IF after[c].active
       THEN [on |-> alias[c].on \union new, off |-> alias[c].off \ new]
       ELSE [on |-> alias[c].on \ new, off |-> alias[c].off \union new]]

\* One transaction; an incomplete snapshot, without any sector, is refused.
Persist(r) ==
  /\ refresh[r].step = Len(Lists) + 1
  /\ LET f == refresh[r]
         after == UpsertBatch(f.rows, f.asOf)
     IN  IF \A c \in Sectors : f.rows[c] = NoRow
           THEN UNCHANGED <<master, alias, fresh>>
           ELSE /\ alias' = AliasUpserts(f.names, after)
                /\ master' = DeactivateMissing(f.rows, after)
                /\ fresh' = f.calm
  /\ refresh' = [refresh EXCEPT ![r] = NoRefresh]
  /\ UNCHANGED <<day, provider, past, borne, changes>>

Next ==
  \/ NewDay
  \/ \E c \in Codes : Change(c)
  \/ \E r \in Refreshers :
       \/ \E asOf \in AsOfDates \union {day} : Begin(r, asOf)
       \/ Fetch(r) \/ FetchSectors(r) \/ FetchFails(r) \/ Persist(r)

Spec == Init /\ [][Next]_vars

-----------------------------------------------------------------------------
(* Looking a name up, and what a mention of it resolves to.                *)

IsActiveSecurity(c) == master[c] # NoRow /\ master[c].active /\ master[c].status = "L"
DirectMatches(n) == {c \in Codes : IsActiveSecurity(c) /\ master[c].name = n}
AliasMatches(n) == {c \in Codes : IsActiveSecurity(c) /\ n \in alias[c].on}
Candidates(n) == DirectMatches(n) \union AliasMatches(n)

\* One candidate resolves a mention; several make it ambiguous, none unknown.
AssembleOne(n) ==
  LET found == Candidates(n) IN
  [status |-> IF found = {} THEN "NOT_FOUND"
              ELSE IF Cardinality(found) > 1 THEN "AMBIGUOUS" ELSE "RESOLVED",
   codes |-> found]

-----------------------------------------------------------------------------
(* Properties.                                                             *)

Listed(c) == provider[c] # NoRow /\ IsActive(c, provider[c], day)

\* Once a refresh as of today that ran while nothing changed has written, and until
\* the next change, however refreshes overlapped, were of other dates, failed or fell
\* back before: exactly the listed securities are active; each is found by its name,
\* its full name and its variants; what a name finds has borne it, or a name that it
\* is a variant of; and a name that of the listed securities only one has ever borne
\* in this sense resolves to it.  (Two sectors may bear a name so, and it is then
\* ambiguous even if it is the very name of one of them.)
MasterIsCurrent ==
  fresh =>
    /\ \A c \in Codes : IsActiveSecurity(c) <=> Listed(c)
    /\ \A c \in Codes : Listed(c) => \A n \in NamesOf(c, provider[c]) : c \in Candidates(n)
    /\ \A n \in Names : LET bearers == {c \in Codes : Listed(c) /\ n \in borne[c]} IN
         /\ Candidates(n) \subseteq bearers
         /\ \A c \in Codes :
              bearers = {c} /\ n \in NamesOf(c, provider[c]) =>
                AssembleOne(n) = [status |-> "RESOLVED", codes |-> {c}]

=============================================================================
