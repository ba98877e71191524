--------------------------- MODULE ActiveProfile ---------------------------
(* The profile the keyboard runs, over the profile catalog: the handlers of   *)
(* firmware/main/product/product_web.cpp and the settings and shortcut        *)
(* handlers of product_controller.cpp that activate a profile. They keep a    *)
(* copy of the active profile in RAM and its id in NVS. All of them hold one  *)
(* mutex, so a change of the catalog runs to its answer, or to a restart.     *)
(* Editor pages (web/src/app.js) have a selected id and a body that they read *)
(* and send back. Their calls take time and can fail, and the selection does  *)
(* not wait for the body.                                                     *)
EXTENDS ProfileCatalog

CONSTANTS
    Pages,          \* editor pages
    InFlight,       \* bound: calls of a page under way
    MaxRevision     \* bound: revisions of the profile outside the catalog

ASSUME PagesAssumption == Pages # {} /\ InFlight \in Nat /\ MaxRevision \in Nat

VARIABLES
    working,        \* g_profile
    persisted,      \* the active id in NVS
    boot,           \* whether the catalog is loaded and its active profile chosen
    selected,       \* selectedProfileID of each page
    held,           \* its profile, with the id it was read under
    calls,          \* its calls that are under way, and the answers to them
    request,        \* the page, id and body of the PUT that is being handled
    amiss           \* history: what an activation or a PUT that failed halfway left behind

pageVars == <<selected, held, calls>>
webVars == <<working, persisted, boot, pageVars, request, amiss>>
vars == <<storeVars, webVars>>

SafeProfile == Profile(1, BlankText)
Content(id) == IF id = Safe THEN SafeProfile ELSE entries[id]

Body(id, profile) == [of |-> id, profile |-> profile]
NothingRead == Body(Safe, [revision |-> 0, text |-> BlankText])
Call(kind, id, body) == [kind |-> kind, id |-> id, body |-> body]

NoRequest == [page |-> CHOOSE p \in Pages : TRUE, id |-> Safe, base |-> NothingRead]

\* nvs_set_str can take effect although the commit that follows fails.
PersistFails(id) == Fault("nvs") /\ persisted' \in {persisted, id}

Serving == boot = "ready" /\ stage = "idle"
SameActive == UNCHANGED <<bank, active, sequence, entries, legacy, stage, next, answer, retired>>

----------------------------------------------------------------------------
(* Activation                                                                 *)

\* activate_catalog_profile, from the settings menu and the next and previous shortcuts: the
\* copy in RAM first, then NVS, then the id.
ActivateFromDevice(id) ==
    /\ Serving /\ id \in Listed
    /\ \/ working' = Content(id) /\ persisted' = id /\ activeId' = id /\ amiss' = {}
       \/ Fault("read") /\ id # Safe /\ UNCHANGED <<working, persisted, activeId, amiss>>
       \/ /\ working' = Content(id) /\ PersistFails(id) /\ UNCHANGED activeId
          /\ amiss' = {"bindings", "record"}
    /\ SameActive /\ UNCHANGED <<boot, pageVars, request>>

\* activate_profile_handler: the id first; an early return for want of memory and a read that
\* fails leave it there, a failed write to NVS takes it back.
ActivateFromWeb(id) ==
    /\ Serving /\ id \in Listed
    /\ \/ working' = Content(id) /\ persisted' = id /\ activeId' = id /\ amiss' = {}
       \/ /\ (Fault("memory") \/ (Fault("read") /\ id # Safe))
          /\ activeId' = id /\ amiss' = {"bindings", "record"}
          /\ UNCHANGED <<working, persisted>>
       \/ PersistFails(id) /\ amiss' = amiss \cup {"record"} /\ UNCHANGED <<working, activeId>>
    /\ SameActive /\ UNCHANGED <<boot, pageVars, request>>

----------------------------------------------------------------------------
(* The editor pages                                                           *)

Send(page, call) ==
    /\ Cardinality(calls[page]) < InFlight
    /\ calls' = [calls EXCEPT ![page] = @ \cup {call}]

Answered(page, call, body) ==
    [calls EXCEPT ![page] = (@ \ {call}) \cup {Call("answer", call.id, body)}]

\* The user chooses from the list the page has, however old it is, or loadProfileCatalog does,
\* after a publish, an activation and the like: the id at once, its body when it comes.
Select(page, id) ==
    /\ selected' = [selected EXCEPT ![page] = id]
    /\ Send(page, Call("get", id, NothingRead))
    /\ UNCHANGED <<storeVars, working, persisted, boot, held, request, amiss>>

\* get_profile_handler: the active profile from RAM, another one from flash. Without a
\* catalog it is the one in RAM whatever the id.
ServeGet(page, call) ==
    /\ call.kind = "get"
    /\ \/ /\ Serving /\ call.id \in Listed
          /\ calls' = Answered(page, call,
               IF call.id # activeId THEN Body(call.id, Content(call.id))
               ELSE Body(IF "bindings" \in amiss THEN Safe ELSE call.id, working))
       \/ boot = "unavailable" /\ calls' = Answered(page, call, Body(Safe, working))
    /\ UNCHANGED <<storeVars, working, persisted, boot, selected, held, request, amiss>>

\* The page takes the answer to a GET or PUT, whatever it shows by then.
Arrive(page, call) ==
    /\ call.kind = "answer"
    /\ held' = [held EXCEPT ![page] = call.body]
    /\ calls' = [calls EXCEPT ![page] = @ \ {call}]
    /\ UNCHANGED <<storeVars, working, persisted, boot, selected, request, amiss>>

\* A call that fails on its way or is refused, and an answer that is lost: the page keeps
\* what it holds.
CallFails(page, call) ==
    /\ calls' = [calls EXCEPT ![page] = @ \ {call}]
    /\ UNCHANGED <<storeVars, working, persisted, boot, selected, held, request, amiss>>

\* publishProfile: the body that is held goes to the id that is selected. The editor appears
\* when the first body is there, and SAFE has no publish button.
SendPut(page) ==
    /\ held[page] # NothingRead /\ selected[page] # Safe
    /\ Send(page, Call("put", selected[page], held[page]))
    /\ UNCHANGED <<storeVars, working, persisted, boot, selected, held, request, amiss>>

----------------------------------------------------------------------------
(* Publishing                                                                 *)

\* put_profile_handler up to publish.
StartPut(page, call, text) ==
    /\ call.kind = "put" /\ Serving
    /\ Publish(call.id, text, call.body.profile.revision)
    /\ request' = [page |-> page, id |-> call.id, base |-> call.body]
    /\ calls' = [calls EXCEPT ![page] = @ \ {call}]
    /\ UNCHANGED <<working, persisted, boot, selected, held, amiss>>

\* A mistake the properties catch.
FinishPut_NoReload ==
    /\ stage = "done" /\ boot = "ready" /\ request # NoRequest
    /\ Return
    /\ request' = NoRequest
    /\ UNCHANGED <<working, persisted, boot, pageVars, amiss>>

\* The rest of it: publish used the candidate to verify the bank, so it is read again; the
\* page gets what was stored.
FinishPut ==
    LET id == request.id
        stored == Call("answer", id, Body(id, entries[id])) IN
    /\ stage = "done" /\ boot = "ready" /\ request # NoRequest
    /\ Return
    /\ \/ /\ answer = "ok"
          /\ calls' = [calls EXCEPT ![request.page] = @ \cup {stored}]
          /\ working' = IF id = activeId THEN entries[id] ELSE working
          /\ amiss' = IF id = activeId THEN amiss \ {"bindings"} ELSE amiss
       \/ /\ answer # "ok" \/ Fault("read") \/ Fault("memory")
          /\ amiss' = IF answer = "ok" /\ id = activeId THEN amiss \cup {"bindings"} ELSE amiss
          /\ UNCHANGED <<working, calls>>
    /\ request' = NoRequest
    /\ UNCHANGED <<persisted, boot, selected, held>>

\* The same handler without a catalog: one profile in RAM and the record of the older firmware.
PutOutside(page, call, text) ==
    LET stored == Profile(working.revision + 1, text) IN
    /\ call.kind = "put" /\ boot = "unavailable"
    /\ call.body.profile.revision = working.revision /\ working.revision < MaxRevision
    /\ \/ /\ working' = stored /\ legacy' = {stored}
          /\ calls' = Answered(page, call, Body(Safe, stored))
       \/ /\ Fault("nvs") /\ legacy' \in {legacy, {stored}}
          /\ calls' = [calls EXCEPT ![page] = @ \ {call}]
          /\ UNCHANGED working
    /\ UNCHANGED <<bank, active, sequence, entries, activeId, stage, next, answer, retired>>
    /\ UNCHANGED <<persisted, boot, selected, held, request, amiss>>

StartCreate(text) == Serving /\ Create(text) /\ UNCHANGED webVars
StartRemove(id) == Serving /\ Remove(id) /\ UNCHANGED webVars

FinishOther ==
    /\ boot = "ready" /\ request = NoRequest
    /\ Return /\ UNCHANGED webVars

----------------------------------------------------------------------------
(* Restart                                                                    *)

\* Connections end with the server; an answer may be on its way.
PowerCycle ==
    /\ Restart
    /\ working' = SafeProfile /\ boot' = "loading" /\ request' = NoRequest
    /\ calls' = [page \in Pages |-> {call \in calls[page] : call.kind = "answer"}]
    /\ UNCHANGED <<persisted, selected, held, amiss>>

\* product_web_prepare_profile_catalog: the imported profile, else the one in NVS, else SAFE.
BootActivates ==
    /\ boot = "loading"
    /\ \/ stage = "idle"
       \/ stage = "done" /\ answer = "ok"
    /\ stage' = "idle" /\ boot' = "ready"
    /\ LET id == IF stage = "done" THEN 1 ELSE persisted IN
       \/ /\ id \in Listed
          /\ working' = Content(id) /\ persisted' = id /\ activeId' = id /\ amiss' = {}
       \/ /\ id \notin Listed \/ (Fault("read") /\ id # Safe) \/ Fault("nvs")
          /\ working' = SafeProfile /\ activeId' = Safe
          /\ \/ persisted' = Safe /\ amiss' = {}
             \/ Fault("nvs") /\ persisted' \in {persisted, id} /\ amiss' = {"record"}
    /\ UNCHANGED <<bank, active, sequence, entries, legacy, next, answer, retired>>
    /\ UNCHANGED <<pageVars, request>>

\* The import failed: there is no catalog until the next restart, and load_profile takes the
\* record of the older firmware as it is.
BootFails ==
    /\ boot = "loading" /\ stage = "done" /\ answer # "ok"
    /\ boot' = "unavailable" /\ Return
    /\ working' \in legacy
    /\ UNCHANGED <<persisted, pageVars, request, amiss>>

RuntimeInit ==
    /\ Init
    /\ working = SafeProfile /\ persisted = Safe /\ boot = "loading"
    /\ selected = [page \in Pages |-> Safe] /\ held = [page \in Pages |-> NothingRead]
    /\ calls = [page \in Pages |-> {}] /\ request = NoRequest /\ amiss = {}

RuntimeNext ==
    \/ CommitStep /\ UNCHANGED webVars
    \/ FinishPut \/ FinishOther \/ PowerCycle \/ BootActivates \/ BootFails
    \/ \E id \in Listed : ActivateFromDevice(id) \/ ActivateFromWeb(id)
    \/ \E page \in Pages :
         \/ SendPut(page)
         \/ \E id \in Listed \cup retired : Select(page, id)
         \/ \E call \in calls[page] :
              \/ ServeGet(page, call) \/ Arrive(page, call) \/ CallFails(page, call)
              \/ \E text \in Texts : StartPut(page, call, text) \/ PutOutside(page, call, text)
    \/ \E text \in Texts : StartCreate(text)
    \/ \E id \in DOMAIN entries : StartRemove(id)

RuntimeSpec == RuntimeInit /\ [][RuntimeNext]_vars

----------------------------------------------------------------------------
(* Properties                                                                 *)

\* Values have the types of the code.
Bodies == [of : Nat, profile : [revision : Nat, text : Texts]]
ActiveTypeOK ==
    /\ working \in Profiles /\ persisted \in Nat
    /\ boot \in {"loading", "ready", "unavailable"}
    /\ selected \in [Pages -> Nat] /\ held \in [Pages -> Bodies]
    /\ calls \in [Pages -> SUBSET [kind : {"get", "put", "answer"}, id : Nat, body : Bodies]]
    /\ request \in [page : Pages, id : Nat, base : Bodies]
    /\ amiss \subseteq {"bindings", "record"}

\* The bindings the keyboard runs are those of the profile every page and menu shows as
\* active (g_profile and active_id_, product_web.cpp:392-400 and :701-729).
KeyboardRunsActive == Serving /\ "bindings" \notin amiss => working = Content(activeId)

\* The next restart runs the same profile (persist_active_profile, product_web.cpp:260-270).
ActiveIsRemembered == Serving /\ "record" \notin amiss => persisted = activeId

\* Bindings, menus and flash name one active profile, although three steps set them. One that
\* fails between two of them (product_web.cpp:394 and :715) breaks this until the next
\* activation, or the next start, that succeeds: it cannot outlive either.
ActiveIsOne == KeyboardRunsActive /\ ActiveIsRemembered

Replacing == request # NoRequest /\ stage \in {"erase", "payload", "header", "verify"}

\* A publish of a body that was read under the id it goes to replaces exactly the version
\* that was read, although a revision alone is compared and the body may have been read long
\* ago, or come late (put_profile_handler, product_web.cpp:549-602).
PutReplacesWhatWasRead ==
    Replacing /\ request.base.of = request.id => entries[request.id] = request.base.profile

\* "revision 不匹配时返回冲突，不能覆盖其他页面的新修改" (the design, 2026-07-24, :291: a save
\* cannot overwrite what it has not read): the same for every body a page holds.
PutReplacesAnyBody == Replacing => entries[request.id] = request.base.profile

\* "A Profile activation failure sends HID Release All and falls back to SAFE" (the design,
\* :394): the bindings of SAFE take over, not those of the profile that was not activated.
FailedActivationIsSafe ==
    [][\A id \in Listed : ActivateFromDevice(id) /\ activeId' # id
            => working' = SafeProfile]_vars
=============================================================================
