----------------------------- MODULE CardBinding -----------------------------
(***************************************************************************)
(* Cards from git: which repository of the store stands for which URL      *)
(* (resolveFromGit in cli/core/card-store.ts), with the map from URLs to   *)
(* names that shortens the search (cli/core/url-card-map.ts).  The name of *)
(* a card is in its manifest, so it is known only after a clone; no lock   *)
(* is held, and two commands may resolve at once.                          *)
(*                                                                         *)
(* Left out: versions and trees, which are CardStore; temporary clones,    *)
(* which have names of their own and are removed or left behind.           *)
(***************************************************************************)
EXTENDS Naturals

CONSTANTS
  Task, None,
  Url, Name,
  MaxEvents    \* bound: calls, deaths, local publishes and renames together

Local == "local"
BindingAssumption == None \notin Url \cup Name \cup {Local} /\ Local \notin Url

VARIABLES
  repos,       \* the bare repository of each name: what it was made from, its
               \* drwn.originUrl, and whether a card was published in it
  known,       \* url-card-map.json
  declared,    \* the name in the manifest at each URL
  pc, call, events,
  doomed       \* history: names whose clone was left unbound, or removed under a
               \* publish or a call that had found it to be its URL's

vars == <<repos, known, declared, pc, call, events, doomed>>

Absent == [from |-> None, origin |-> None, published |-> FALSE]
CloneOf(u) == [Absent EXCEPT !.from = u]
Exists(n) == repos[n].from # None

Idle == [url |-> None, name |-> None, map |-> None, mine |-> FALSE]

Init ==
  /\ repos = [n \in Name |-> Absent] /\ known = [u \in Url |-> None]
  /\ declared \in [Url -> Name]
  /\ pc = [t \in Task |-> "idle"] /\ call = [t \in Task |-> Idle]
  /\ events = 0 /\ doomed = {}

Event == events < MaxEvents /\ events' = events + 1
Goto(t, step) == pc' = [pc EXCEPT ![t] = step]
Remember(t, c) == call' = [call EXCEPT ![t] = c]
Same == UNCHANGED <<declared, events, doomed>>
Look(t, step, next, c) ==
  /\ pc[t] = step /\ Goto(t, next) /\ Remember(t, c)
  /\ UNCHANGED <<repos, known>> /\ Same
Return(t, step) == Look(t, step, "idle", Idle)

-----------------------------------------------------------------------------
Start(t, u) ==
  /\ pc[t] = "idle" /\ Event
  /\ Goto(t, "scan") /\ Remember(t, [Idle EXCEPT !.url = u])
  /\ UNCHANGED <<repos, known, declared, doomed>>

(* findBareRepoByOriginUrl, readUrlCardName *)
Bound(u) == {n \in Name : repos[n].origin = u}

Scan(t) ==
  /\ pc[t] = "scan"
  /\ LET u == call[t].url IN
     \/ \E n \in Bound(u) : Look(t, "scan", "fetch", [call[t] EXCEPT !.name = n])
     \/ Bound(u) = {} /\ Look(t, "scan", "recall", call[t])

Recall(t) ==
  /\ pc[t] = "recall"
  /\ LET n == known[call[t].url] IN
     IF n = None
     THEN Look(t, "recall", "clone", call[t])
     ELSE Look(t, "recall", "known", [call[t] EXCEPT !.name = n])

(* Mutant: a name that is there is taken for the URL's. *)
AnyOwner(t, n) == TRUE
Owned(t, n) == repos[n].origin = call[t].url

(* tryResolveFromCachedGitName: the repository of the name that the map     *)
(* gives, or a clone straight into its place.                               *)
TryKnown(t) ==
  /\ pc[t] = "known"
  /\ LET n == call[t].name IN
     Look(t, "known", IF ~ Exists(n) THEN "cloneknown" ELSE IF Owned(t, n) THEN "fetch" ELSE "collision", call[t])

(* resolveGitRepoAtParsedRef after a fetch: the card is still of that name. *)
Fetch(t) ==
  \/ /\ pc[t] = "fetch"
     /\ \E u \in Url : repos[call[t].name].from = u /\ declared[u] = call[t].name
     /\ Look(t, "fetch", "readmap", call[t])
  \/ Return(t, "fetch")

CloneKnown(t) ==
  /\ pc[t] = "cloneknown"
  /\ LET n == call[t].name IN
     IF Exists(n)
     THEN Return(t, "cloneknown")
     ELSE /\ Goto(t, IF declared[call[t].url] = n THEN "bind" ELSE "misnamed")
          /\ Remember(t, [call[t] EXCEPT !.mine = TRUE])
          /\ repos' = [repos EXCEPT ![n] = CloneOf(call[t].url)]
          /\ UNCHANGED known /\ Same

(* A call has found the repository of a name to be its URL's.               *)
Relies(t, n) == call[t].name = n /\ pc[t] \in {"fetch", "bind", "readmap", "writemap"}

(* A clone in the place that the map gave is removed, whatever happened to  *)
(* it, when it turns out to be another card, and another name is looked     *)
(* for; or when a later step throws.                                        *)
Unname(t) ==
  /\ pc[t] = "misnamed" \/ (call[t].mine /\ pc[t] \in {"bind", "readmap", "writemap"} /\ events < MaxEvents)
  /\ LET n == call[t].name IN
     /\ repos' = [repos EXCEPT ![n] = Absent]
     /\ doomed' = IF repos[n].published \/ \E u \in Task \ {t} : Relies(u, n) THEN doomed \cup {n} ELSE doomed
  /\ IF pc[t] = "misnamed"
     THEN Goto(t, "clone") /\ Remember(t, [Idle EXCEPT !.url = call[t].url]) /\ UNCHANGED events
     ELSE Goto(t, "idle") /\ Remember(t, Idle) /\ Event
  /\ UNCHANGED <<known, declared>>

(* A clone in a place of its own tells the name.                            *)
Clone(t) ==
  \/ pc[t] = "clone" /\ Look(t, "clone", "place", [call[t] EXCEPT !.name = declared[call[t].url]])
  \/ Return(t, "clone")

Place(t) ==
  /\ pc[t] = "place"
  /\ LET n == call[t].name IN
     Look(t, "place", IF ~ Exists(n) THEN "rename" ELSE IF Owned(t, n) THEN "bind" ELSE "collision", call[t])

(* Mutant: whatever is in the way is replaced. *)
Overwritten(n) == FALSE
InTheWay(n) == Exists(n)

Rename(t) ==
  /\ pc[t] = "rename"
  /\ LET n == call[t].name IN
     IF InTheWay(n)
     THEN Return(t, "rename")
     ELSE /\ Goto(t, "bind")
          /\ repos' = [repos EXCEPT ![n] = CloneOf(call[t].url)]
          /\ UNCHANGED <<known, call>> /\ Same

(* drwn.cardName and drwn.originUrl are set: from here on the name is the   *)
(* URL's.                                                                   *)
Bind(t) ==
  /\ pc[t] = "bind" /\ Exists(call[t].name)
  /\ repos' = [repos EXCEPT ![call[t].name].origin = call[t].url]
  /\ Goto(t, "readmap")
  /\ UNCHANGED <<known, call>> /\ Same

(* CARD_NAME_COLLISION *)
Collide(t) == Return(t, "collision")

(* A step throws, or the process dies: what is in place stays.              *)
Fail(t) ==
  /\ pc[t] # "idle" /\ Event
  /\ Goto(t, "idle") /\ Remember(t, Idle)
  /\ doomed' = IF pc[t] \in {"misnamed", "bind"} THEN doomed \cup {call[t].name} ELSE doomed
  /\ UNCHANGED <<repos, known, declared>>

(* writeUrlCardName: read, add, write.                                      *)
ReadMap(t) == Look(t, "readmap", "writemap", [call[t] EXCEPT !.map = known])
WriteMap(t) ==
  /\ pc[t] = "writemap"
  /\ known' = [call[t].map EXCEPT ![call[t].url] = call[t].name]
  /\ Goto(t, "idle") /\ Remember(t, Idle)
  /\ UNCHANGED repos /\ Same

-----------------------------------------------------------------------------
(* publishCard of a source with that name: into the repository that is      *)
(* there, or a new one.                                                     *)
WithCard(r) == [r EXCEPT !.published = TRUE, !.from = IF r.from = None THEN Local ELSE r.from]

Publish(n) ==
  /\ ~ repos[n].published /\ Event
  /\ repos' = [repos EXCEPT ![n] = WithCard(@)]
  /\ UNCHANGED <<known, declared, pc, call, doomed>>

(* A user removes a repository that no command is at work on; the map still *)
(* has its name.                                                            *)
Remove(n) ==
  /\ Exists(n) /\ (\A t \in Task : call[t].name # n) /\ Event
  /\ repos' = [repos EXCEPT ![n] = Absent]
  /\ UNCHANGED <<known, declared, pc, call, doomed>>

(* The authors give their card another name.                                *)
Redeclare(u, n) ==
  /\ declared[u] # n /\ Event
  /\ declared' = [declared EXCEPT ![u] = n]
  /\ UNCHANGED <<repos, known, pc, call, doomed>>

Next ==
  \/ \E t \in Task :
       \/ Scan(t) \/ Recall(t) \/ TryKnown(t) \/ Fetch(t) \/ CloneKnown(t) \/ Unname(t)
       \/ Clone(t) \/ Place(t) \/ Rename(t) \/ Bind(t) \/ Collide(t) \/ Fail(t)
       \/ ReadMap(t) \/ WriteMap(t)
       \/ \E u \in Url : Start(t, u)
  \/ \E n \in Name : Publish(n) \/ Remove(n)
  \/ \E u \in Url, n \in Name : Redeclare(u, n)

Spec == Init /\ [][Next]_vars

-----------------------------------------------------------------------------
TypeOK ==
  /\ repos \in [Name -> [from : Url \cup {Local, None}, origin : Url \cup {None}, published : BOOLEAN]]
  /\ known \in [Url -> Name \cup {None}]

(* A name bound to a URL holds what was cloned from it, though two commands *)
(* resolve, publish and remove at once, unless one that failed has removed  *)
(* its clone when another had found it good.                                *)
BindingsAreTrue ==
  \A n \in Name \ doomed : repos[n].origin # None => repos[n].from = repos[n].origin

(* A name is refused to a URL only for a cause: it is a local card or       *)
(* another URL's, or a clone that another call is about to bind, or one     *)
(* that a call left unbound when it failed.                                 *)
CollisionsAreExplained ==
  \A t \in Task : pc[t] = "collision" =>
    LET n == call[t].name IN
    \/ ~ Exists(n) \/ repos[n].from # call[t].url \/ repos[n].origin = call[t].url
    \/ n \in doomed
    \/ \E u \in Task \ {t} : pc[u] \in {"misnamed", "bind"} /\ call[u].name = n

(* A name is bound once and to what it holds; a card that resolves is a     *)
(* clone of its URL; and a repository goes only when the call that cloned   *)
(* it finds that it is of another name.                                     *)
Names == TypeOK /\ BindingsAreTrue /\ CollisionsAreExplained
ResolvesToItsUrl ==
  /\ Names
  /\ [][/\ Names'
        /\ \A t \in Task : WriteMap(t) =>
             repos[call[t].name].from = call[t].url \/ call[t].name \in doomed
        /\ \A n \in Name : Exists(n) =>
             \/ Exists(n)' /\ (repos[n].origin # None /\ n \notin doomed => repos'[n].origin = repos[n].origin)
             \/ Remove(n) \/ \E t \in Task : Unname(t) /\ call[t].name = n]_vars

(* card-store.ts:1: "immutable published versions": a version that is       *)
(* published into a clone before it is found to be misnamed goes with it.   *)
PublishedIsNotRemoved == [][\A n \in Name : repos[n].published => repos'[n].published \/ Remove(n)]_vars

(* A clone that is removed under another call may leave its URL to whatever *)
(* takes the place.                                                         *)
OriginIsWhatItHolds == \A n \in Name : repos[n].origin # None => repos[n].from = repos[n].origin

(* One URL that is resolved twice at once ends in a collision with itself.  *)
NoSelfCollision ==
  \A t \in Task : pc[t] = "collision" => repos[call[t].name].from # call[t].url
=============================================================================
