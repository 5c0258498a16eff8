---------------------------- MODULE DomainStore ----------------------------
(***************************************************************************)
(* The two tables of the sqlite database that decide what is blocked:      *)
(* domain_lists and domains (db/ddl/ddl.hxx), and every operation that the *)
(* managers run on them (manager/domain_list_manager.cxx,                  *)
(* manager/domain_manager.cxx) as the command line (mgmt/mgmt.cxx), the    *)
(* service connections and the updater call them.                          *)
(*                                                                         *)
(* The database is shared by processes and threads that know nothing of    *)
(* each other.  One transaction is one step; an operation that is made of  *)
(* several (create a list, look its id up, write the domains) is several   *)
(* steps, and other clients act in between.                                *)
(***************************************************************************)
EXTENDS Naturals

CONSTANTS
    Domain,         \* domain names that pass the validator
    ListName,       \* names of domain lists
    CUSTOM,         \* the two lists that db/data/initial_data.hxx seeds
    WHITELIST,
    Client,         \* command line processes, connection threads, the updater
    MaxId,          \* bound: the largest row id sqlite hands out
    FatalWarnings   \* api_->config.is_fatal

ASSUME StoreAssumption ==
    /\ CUSTOM \in ListName
    /\ WHITELIST \in ListName
    /\ CUSTOM # WHITELIST
    /\ MaxId \in Nat
    /\ 2 <= MaxId
    /\ FatalWarnings \in BOOLEAN

VARIABLES
    lists,      \* domain_lists: row id -> row
    domains,    \* domains: name -> list_id
    op          \* what each client is in the middle of

vars == <<lists, domains, op>>

-----------------------------------------------------------------------------
NoId == 0
ListId == 1 .. MaxId

\* A row of domain_lists; stamped says that mtime is no longer its default 0.
Row == [name : ListName, active : BOOLEAN, white : BOOLEAN, stamped : BOOLEAN]

\* Mutant: a list that is created under the name WHITELIST is a whitelist.
NewRow_WhiteByName(n) ==
    [name |-> n, active |-> TRUE, white |-> (n = WHITELIST), stamped |-> FALSE]

NewRow(n) ==
    [name |-> n, active |-> TRUE, white |-> FALSE, stamped |-> FALSE]

\* The rows that DB::init inserts into an empty domain_lists.
Seed ==
    [i \in {1, 2} |-> IF i = 1 THEN NewRow(CUSTOM)
                      ELSE [NewRow(WHITELIST) EXCEPT !.white = TRUE]]

\* SELECT id FROM domain_lists WHERE name = n, and what DomainListManager::get
\* leaves in a DomainList that no row was fetched into.
Named(n) == {i \in DOMAIN lists : lists[i].name = n}
Found(n) == IF Named(n) = {} THEN {NoId} ELSE Named(n)

\* The id of a new row: an INTEGER PRIMARY KEY without AUTOINCREMENT is one
\* more than the largest in the table, so the id of a deleted row comes back.
FreshId(i) ==
    /\ \A j \in DOMAIN lists : j < i
    /\ i = 1 \/ i - 1 \in DOMAIN lists

\* The queries of db/dml/queries.hxx.
Active == {d \in DOMAIN domains : lists[domains[d]].active}
OnWhitelist == {d \in DOMAIN domains : lists[domains[d]].white}
Blocked == Active \ OnWhitelist
Whitelisted == Active \cap OnWhitelist

-----------------------------------------------------------------------------
(***************************************************************************)
(* Operations.  manage is mgmt -U un -B put, and also the block and the    *)
(* unblock command of the service, which fill one of the two.              *)
(***************************************************************************)
Kind == {"manage", "import", "add", "remove", "enable", "disable"}
Pc == {"idle", "open", "unblock", "create", "lookup", "put", "edit"}

Op == [pc : Pc, kind : Kind, un : SUBSET Domain, put : SUBSET Domain,
       name : ListName, id : ListId \cup {NoId}]

Task(kind, un, put, n) ==
    [pc |-> "idle", kind |-> kind, un |-> un, put |-> put,
     name |-> n, id |-> NoId]

\* A client at rest.
Rest == Task("manage", {}, {}, CUSTOM)

\* What a client may ask for; an empty manage asks for nothing.
Tasks ==
    ({Task("manage", un, put, CUSTOM) : un \in SUBSET Domain, put \in SUBSET Domain}
        \ {Rest})
    \cup {Task("import", {}, put, n) : put \in SUBSET Domain, n \in ListName}
    \cup {Task(k, {}, {}, n) : k \in {"add", "remove", "enable", "disable"},
                               n \in ListName}

\* Where the operation starts once the database is open.
Entry(t) ==
    IF t.kind = "manage" /\ t.un # {} THEN "unblock"
    ELSE IF t.kind \in {"manage", "import", "add"} THEN "create"
    ELSE "edit"

\* The operation goes on, or returns.  What it answers decides nothing but the
\* exit status of the command line, so it is left out.
GoTo(c, pc) == op' = [op EXCEPT ![c].pc = pc]
Return(c) == op' = [op EXCEPT ![c] = Rest]

\* manage_domains blocks once it has unblocked; a domain in both is a conflict,
\* and a fatal warning then throws with the unblock already committed.
AfterUnblock(c) ==
    LET o == op[c] IN
    IF o.put = {} \/ (FatalWarnings /\ o.un \cap o.put # {})
    THEN Return(c)
    ELSE GoTo(c, "create")

-----------------------------------------------------------------------------
Init ==
    /\ lists = Seed
    /\ domains = [d \in {} |-> NoId]
    /\ op = [c \in Client |-> Rest]

\* A command line process opens the database first.
BeginCommandLine(c) ==
    /\ op[c].pc = "idle"
    /\ \E t \in Tasks :
         /\ t.kind # "import"
         /\ op' = [op EXCEPT ![c] = [t EXCEPT !.pc = "open"]]
    /\ UNCHANGED <<lists, domains>>

\* A thread of the service works on a pool that is open already.  A connection
\* blocks, unblocks or imports; the updater imports.
BeginService(c) ==
    /\ op[c].pc = "idle"
    /\ \E t \in Tasks :
         /\ t.kind \in {"manage", "import"}
         /\ t.un = {} \/ t.put = {}
         /\ op' = [op EXCEPT ![c] = [t EXCEPT !.pc = Entry(t)]]
    /\ UNCHANGED <<lists, domains>>

\* DB::init: create the tables, seed domain_lists when it has no row.
OpenDb(c) ==
    /\ op[c].pc = "open"
    /\ lists' = IF DOMAIN lists = {} THEN Seed ELSE lists
    /\ GoTo(c, Entry(op[c]))
    /\ UNCHANGED domains

\* Mutant: list_id may be NULL, and is when there is no WHITELIST.
Unblock_Null(c) ==
    /\ op[c].pc = "unblock"
    /\ \E i \in Found(WHITELIST) :
         domains' = [d \in DOMAIN domains \cup op[c].un |->
                        IF d \in op[c].un THEN i ELSE domains[d]]
    /\ AfterUnblock(c)
    /\ UNCHANGED lists

\* unblock_domains: INSERT OR REPLACE into the list that is named WHITELIST.
\* Without such a list list_id is NULL and the constraint fails.
Unblock(c) ==
    /\ op[c].pc = "unblock"
    /\ \E i \in Named(WHITELIST) :
         domains' = [d \in DOMAIN domains \cup op[c].un |->
                        IF d \in op[c].un THEN i ELSE domains[d]]
    /\ AfterUnblock(c)
    /\ UNCHANGED lists

\* DomainListManager::create, its transaction: INSERT OR IGNORE.
CreateList(c) ==
    /\ op[c].pc = "create"
    /\ IF Named(op[c].name) # {}
       THEN lists' = lists
       ELSE \E i \in ListId :
              /\ FreshId(i)
              /\ lists' = [j \in DOMAIN lists \cup {i} |->
                              IF j = i THEN NewRow(op[c].name) ELSE lists[j]]
    /\ GoTo(c, "lookup")
    /\ UNCHANGED domains

\* DomainListManager::create, what follows the commit: the id is looked up by
\* name in another session.
LookupId(c) ==
    /\ op[c].pc = "lookup"
    /\ \E i \in Found(op[c].name) :
         IF op[c].kind = "add"
         THEN Return(c)
         ELSE op' = [op EXCEPT ![c].pc = "put", ![c].id = i]
    /\ UNCHANGED <<lists, domains>>

\* The foreign key of domains: rows may only be written to a list that exists.
References(D, i) == D = {} \/ i \in DOMAIN lists

\* Mutant: the DELETE spares no whitelist.
PutBlock_AnyList(c) ==
    /\ op[c].pc = "put"
    /\ op[c].kind = "manage"
    /\ References(op[c].put, op[c].id)
    /\ domains' = [d \in DOMAIN domains \cup op[c].put |->
                      IF d \in op[c].put THEN op[c].id ELSE domains[d]]
    /\ Return(c)
    /\ UNCHANGED lists

\* Mutant: the DELETE is committed before the INSERT is tried.
PutBlock_TwoTransactions(c) ==
    LET fresh == op[c].put \ OnWhitelist IN
    /\ op[c].pc = "put"
    /\ op[c].kind = "manage"
    /\ domains' = [d \in (DOMAIN domains \ fresh)
                          \cup (IF op[c].id \in DOMAIN lists THEN fresh ELSE {}) |->
                      IF d \in fresh THEN op[c].id ELSE domains[d]]
    /\ Return(c)
    /\ UNCHANGED lists

\* block_domains, its transaction: DELETE the rows that are not on a
\* whitelist, then INSERT OR IGNORE all of them.
PutBlock(c) ==
    LET fresh == op[c].put \ OnWhitelist IN
    /\ op[c].pc = "put"
    /\ op[c].kind = "manage"
    /\ References(fresh, op[c].id)
    /\ domains' = [d \in DOMAIN domains \cup fresh |->
                      IF d \in fresh THEN op[c].id ELSE domains[d]]
    /\ Return(c)
    /\ UNCHANGED lists

\* DomainListManager::import, its transaction: INSERT OR REPLACE every domain
\* and set mtime.
PutImport(c) ==
    /\ op[c].pc = "put"
    /\ op[c].kind = "import"
    /\ References(op[c].put, op[c].id)
    /\ domains' = [d \in DOMAIN domains \cup op[c].put |->
                      IF d \in op[c].put THEN op[c].id ELSE domains[d]]
    /\ lists' = [i \in DOMAIN lists |->
                    IF i = op[c].id THEN [lists[i] EXCEPT !.stamped = TRUE]
                    ELSE lists[i]]
    /\ Return(c)

\* Mutant: foreign keys are not enforced, so nothing cascades.
RemoveList_NoCascade(c) ==
    LET left == DOMAIN lists \ Named(op[c].name) IN
    /\ op[c].pc = "edit"
    /\ op[c].kind = "remove"
    /\ lists' = [i \in left |-> lists[i]]
    /\ Return(c)
    /\ UNCHANGED domains

\* DomainListManager::remove; the foreign key cascades to domains.
RemoveList(c) ==
    LET left == DOMAIN lists \ Named(op[c].name) IN
    /\ op[c].pc = "edit"
    /\ op[c].kind = "remove"
    /\ lists' = [i \in left |-> lists[i]]
    /\ domains' = [d \in {e \in DOMAIN domains : domains[e] \in left} |-> domains[d]]
    /\ Return(c)

\* Mutant: the state is written without the WHERE clause.
SetEnabled_AllLists(c) ==
    /\ op[c].pc = "edit"
    /\ op[c].kind \in {"enable", "disable"}
    /\ lists' = [i \in DOMAIN lists |->
                    [lists[i] EXCEPT !.active = (op[c].kind = "enable")]]
    /\ Return(c)
    /\ UNCHANGED domains

\* DomainListManager::set_enabled.
SetEnabled(c) ==
    /\ op[c].pc = "edit"
    /\ op[c].kind \in {"enable", "disable"}
    /\ lists' = [i \in DOMAIN lists |->
                    IF i \in Named(op[c].name)
                    THEN [lists[i] EXCEPT !.active = (op[c].kind = "enable")]
                    ELSE lists[i]]
    /\ Return(c)
    /\ UNCHANGED domains

\* A statement or a commit raises (the database is locked by another client, a
\* constraint fails): nothing is written.  create then answers 0 and its caller
\* goes on with that, manage_domains ignores what unblock_domains answers, and
\* every other operation ends.
Raise(c) ==
    /\ \/ /\ op[c].pc = "unblock"
          /\ AfterUnblock(c)
       \/ /\ op[c].pc = "create"
          /\ op[c].kind # "add"
          /\ op' = [op EXCEPT ![c].pc = "put", ![c].id = NoId]
       \/ /\ op[c].pc \in {"open", "put", "edit"}
          /\ Return(c)
       \/ /\ op[c].pc = "create"
          /\ op[c].kind = "add"
          /\ Return(c)
    /\ UNCHANGED <<lists, domains>>

\* The process of the client dies; sqlite rolls its open transaction back.  A
\* lookup that raises is one way: create dereferences the null it gets.
Crash(c) ==
    /\ op[c].pc # "idle"
    /\ Return(c)
    /\ UNCHANGED <<lists, domains>>

Step(c) ==
    \/ BeginCommandLine(c)
    \/ BeginService(c)
    \/ OpenDb(c)
    \/ Unblock(c)
    \/ CreateList(c)
    \/ LookupId(c)
    \/ PutBlock(c)
    \/ PutImport(c)
    \/ RemoveList(c)
    \/ SetEnabled(c)
    \/ Raise(c)
    \/ Crash(c)

Next == \E c \in Client : Step(c)

Spec == Init /\ [][Next]_vars

-----------------------------------------------------------------------------
(***************************************************************************)
(* Properties                                                              *)
(***************************************************************************)

\* The tables and the clients hold what their columns and variables can hold.
TypeOK ==
    /\ DOMAIN lists \subseteq ListId
    /\ lists \in [DOMAIN lists -> Row]
    /\ DOMAIN domains \subseteq Domain
    /\ domains \in [DOMAIN domains -> ListId]
    /\ op \in [Client -> Op]

\* Every domain row points at a list that exists, whatever list ids the clients
\* still hold from before a list was removed (db.cxx:32, ddl.hxx:36-37).
ReferentialIntegrity == \A d \in DOMAIN domains : domains[d] \in DOMAIN lists

\* A list is a whitelist because the database was seeded with it and for no
\* other reason: a WHITELIST that is removed and added again is an ordinary
\* block list, and what is unblocked into it is blocked.
WhitelistOnlySeeded ==
    [][\A i \in DOMAIN lists' :
          lists'[i].white => \/ DOMAIN lists = {}
                             \/ i \in DOMAIN lists /\ lists[i].white]_vars

\* Some client is about to write d into the list of an import.
Importing(d) ==
    \E c \in Client : op[c].kind = "import" /\ op[c].pc = "put" /\ d \in op[c].put

\* Blocking never takes a domain off a whitelist: it leaves it only when an
\* import names it or its list is removed (domain_manager.cxx:170-181).
WhitelistKept ==
    [][\A d \in OnWhitelist :
          \/ d \in DOMAIN domains' /\ domains'[d] = domains[d]
          \/ Importing(d)
          \/ domains[d] \notin DOMAIN lists']_vars

\* block_domains deletes rows before it inserts them: a domain that was listed
\* is still listed afterwards, unless the list it was on is removed.
NoDomainLost ==
    [][\A d \in DOMAIN domains :
          d \in DOMAIN domains' \/ domains[d] \notin DOMAIN lists']_vars

-----------------------------------------------------------------------------
(***************************************************************************)
(* What the store is for: per domain, the list that decides over it.  It   *)
(* does what it promises while one client is at work.  With two, a list    *)
(* can be removed and its id handed out again while the other client holds *)
(* it, and a block or an import then lands in a list it was not meant for. *)
(***************************************************************************)
\* The columns that decide, by name of the list; and the list of each domain.
Flags(row) == [active |-> row.active, white |-> row.white]

PolicyOf ==
    [n \in {lists[i].name : i \in DOMAIN lists} |-> Flags(lists[CHOOSE i \in Named(n) : TRUE])]

OwnerOf == [d \in DOMAIN domains |-> lists[domains[d]].name]

Policy == INSTANCE BlockPolicy WITH policy <- PolicyOf, owner <- OwnerOf

\* Created, looked up and written in separate transactions, each operation
\* still does to the policy what its name says, or nothing.
ImplementsPolicy == Policy!Spec

\* With any number of clients the wrong list is the worst that happens: each
\* transaction still is one operation of the policy on one list, spares what a
\* whitelist has and leaves every other domain where it is
\* (domain_manager.cxx:149-193, domain_list_manager.cxx:16-97).
\* This is Policy!SharedSpec; a step that leaves the tables alone is not looked at.
ImplementsSharedPolicy ==
    /\ Policy!Init
    /\ [][UNCHANGED <<lists, domains>> \/ Policy!SharedNext]_<<PolicyOf, OwnerOf>>

=============================================================================
