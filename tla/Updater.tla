------------------------------ MODULE Updater -------------------------------
(***************************************************************************)
(* The updater (updater/updater.cxx): for every list it looks at the date  *)
(* of what is published, fetches it again if that is newer than the import *)
(* of the list, and imports it.  Servers publish, clients import under the *)
(* name of the same list, and requests fail at any point in between.       *)
(*                                                                         *)
(* A list is what was last imported into it; that an import adds domains   *)
(* and takes none away is a matter of DomainStore.                         *)
(***************************************************************************)
EXTENDS Integers

CONSTANTS
    List,           \* the lists that --list-ids selects
    Skew,           \* by how much a date may be read too early
    MaxVersion,     \* bound: publications of a list
    MaxTime         \* bound: the clock

ASSUME UpdaterAssumption ==
    /\ Skew \subseteq Int
    /\ MaxVersion \in Nat \ {0}
    /\ MaxTime \in Nat \ {0}

\* What a list may hold that is no publication: nothing that was imported with
\* success, or what a client imported.
Nothing == 0
Own == MaxVersion + 1
NoDate == 0

VARIABLES
    clock,          \* seconds, from 1
    web,            \* what is published: a version and its Last-Modified
    stored,         \* what is imported, and mtime
    upc,            \* where Updater::run is
    todo,           \* lists it has still to look at
    snapshot,       \* mtime of each list when it started
    list,           \* the list it is at
    body,           \* what it fetched
    updated,        \* is_updated_
    fetched         \* history: when what is stored was fetched, and when imported

world == <<clock, web>>
updater == <<upc, todo, snapshot, list, body, updated>>
updaterVars == <<world, stored, updater, fetched>>

-----------------------------------------------------------------------------
Time == 1 .. MaxTime

NoSnapshot == [l \in List |-> 0]
NoBody == [version |-> Nothing, at |-> 1]

\* A date is that of the server: none, its time, or a time ahead of ours.  Some
\* lists were imported by an earlier worker.
UpdaterInit ==
    /\ clock = 1
    /\ web \in [List -> [version : {1}, date : {NoDate, 1, 2}]]
    /\ \E before \in SUBSET List :
         /\ stored = [l \in List |-> IF l \in before THEN [version |-> 1, mtime |-> 1]
                                    ELSE [version |-> Nothing, mtime |-> 0]]
         /\ fetched = [l \in List |-> IF l \in before THEN [at |-> 1, done |-> 1]
                                     ELSE [at |-> 0, done |-> 0]]
    /\ upc = "idle"
    /\ todo = {}
    /\ snapshot = NoSnapshot
    /\ list \in List
    /\ body = NoBody
    /\ updated = FALSE

\* mgr.get(): an error ends the lists where it happens.
Snapshot ==
    /\ upc = "idle"
    /\ todo' \in SUBSET List
    /\ snapshot' = [l \in List |-> stored[l].mtime]
    /\ updated' = FALSE
    /\ upc' = "look"
    /\ UNCHANGED <<world, stored, list, body, fetched>>

\* mktime takes the date for local time, with a tm_isdst that nothing has set.
\* last_modified is 0 without a date in the response, and a date that is read as
\* 0 is taken for none.
PassOver(l, skew) ==
    LET read == web[l].date - skew
    IN  web[l].date # NoDate /\ read # 0 /\ read <= snapshot[l]

\* The first fetch of a list, for its date.  The request says nothing of
\* If-Modified-Since: prepare_headers is not called.
Look ==
    /\ upc = "look"
    /\ \E l \in todo :
         /\ list' = l
         /\ todo' = todo \ {l}
         /\ \E answered \in BOOLEAN, skew \in Skew :
              upc' = IF answered /\ PassOver(l, skew) THEN "look" ELSE "fetch"
    /\ UNCHANGED <<world, stored, snapshot, body, updated, fetched>>

\* The second fetch: none, one that init_from_json throws at, what is published,
\* or a body that is no JSON, for which from_json does nothing.
Fetch ==
    /\ upc = "fetch"
    /\ \/ /\ upc' = "look"
          /\ body' = NoBody
       \/ /\ upc' = "import"
          /\ \E v \in {web[list].version, Nothing} : body' = [version |-> v, at |-> clock]
    /\ UNCHANGED <<world, stored, todo, snapshot, list, updated, fetched>>

\* Mutant: mtime is set outside of the transaction of the import.
Import_StampsFirst ==
    /\ upc = "import"
    /\ updated' = TRUE
    /\ upc' = "look"
    /\ \E v \in {body.version, stored[list].version} :
         /\ stored' = [stored EXCEPT ![list] = [version |-> v, mtime |-> clock]]
         /\ fetched' = IF v = body.version
                       THEN [fetched EXCEPT ![list] = [at |-> body.at, done |-> clock]]
                       ELSE fetched
    /\ body' = NoBody
    /\ UNCHANGED <<world, todo, snapshot, list>>

\* mgr.import: domains and mtime, or nothing.  Its answer is not looked at.
Import ==
    /\ upc = "import"
    /\ updated' = TRUE
    /\ upc' = "look"
    /\ \/ /\ stored' = [stored EXCEPT ![list] = [version |-> body.version, mtime |-> clock]]
          /\ fetched' = [fetched EXCEPT ![list] = [at |-> body.at, done |-> clock]]
       \/ UNCHANGED <<stored, fetched>>
    /\ body' = NoBody
    /\ UNCHANGED <<world, todo, snapshot, list>>

\* Updater::run returns is_updated_, and its variables are gone.
UpdaterReturns ==
    /\ upc = "look"
    /\ todo = {}
    /\ upc' = "idle"
    /\ snapshot' = NoSnapshot
    /\ updated' = FALSE
    /\ UNCHANGED <<world, stored, todo, list, body, fetched>>

\* It waits for a server.  No timeout is set on a transfer.
Fetching == upc = "fetch" \/ (upc = "look" /\ todo # {})

-----------------------------------------------------------------------------
Tick ==
    /\ clock < MaxTime
    /\ clock' = clock + 1
    /\ UNCHANGED <<web, stored, updater, fetched>>

\* What is published has the date of its server: see UpdaterInit.
Publish(l) ==
    /\ web[l].version < MaxVersion
    /\ \E date \in {NoDate, clock, clock + 1} :
         web' = [web EXCEPT ![l] = [version |-> web[l].version + 1, date |-> date]]
    /\ UNCHANGED <<clock, stored, updater, fetched>>

\* The import command of a connection.
ClientImport(l) ==
    /\ stored' = [stored EXCEPT ![l] = [version |-> Own, mtime |-> clock]]
    /\ fetched' = [fetched EXCEPT ![l] = [at |-> clock, done |-> clock]]
    /\ UNCHANGED <<world, updater>>

World == Tick \/ \E l \in List : Publish(l) \/ ClientImport(l)

UpdaterTypeOK ==
    /\ clock \in Time
    /\ web \in [List -> [version : 1 .. MaxVersion, date : 0 .. MaxTime + 1]]
    /\ stored \in [List -> [version : 0 .. Own, mtime : {0} \cup Time]]
    /\ upc \in {"idle", "look", "fetch", "import"}
    /\ todo \in SUBSET List
    /\ snapshot \in [List -> {0} \cup Time]
    /\ list \in List
    /\ body \in [version : 0 .. MaxVersion, at : Time]
    /\ updated \in BOOLEAN
    /\ fetched \in [List -> [at : {0} \cup Time, done : {0} \cup Time]]

-----------------------------------------------------------------------------
\* The updater passes list l over in this step.
PassesOver(l) == upc = "look" /\ upc' = "look" /\ l \in todo /\ l \notin todo'

\* Its content was imported from the server, and is not what is published.
IsOld(l) == stored[l].version \notin {Nothing, Own, web[l].version}

\* A list that does not hold what is published is passed over only if its date,
\* give or take what it is misread by, is not after the end of the last import;
\* and if that was an import of a publication, only if it was fetched before what
\* is published now came out.  So a failed import, or a date that was old when the
\* updater started, is no reason to miss a publication.  An import by a client
\* and a body that does not parse are imports too, and hide what was published
\* before them (updater.cxx:60-72).
NothingOldIsMissed ==
    [][\A l \in List :
          PassesOver(l) /\ stored[l].version # web[l].version =>
              /\ \E skew \in Skew : web[l].date - skew <= fetched[l].done
              /\ IsOld(l) => fetched[l].at <= web[l].date]_updaterVars

\* options.cxx:135 promises an "Update interval in seconds (min 3600)": what was
\* published after the last import of a list is fetched when the updater next
\* looks at it, in any time zone.
PublishedIsUpdated ==
    [][\A l \in List :
          PassesOver(l) /\ IsOld(l) => web[l].date <= fetched[l].done]_updaterVars

=============================================================================
