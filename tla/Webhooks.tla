------------------------------ MODULE Webhooks ------------------------------
(***************************************************************************)
(* Webhook configuration and dispatch (server/webhook_targets.go,          *)
(* webhook_settings.go, webhook.go, webhook/dispatcher.go).  An            *)
(* administrator loads the targets, edits and saves them; the save is      *)
(* persisted, published to the running process, and the old dispatcher is  *)
(* closed, while events are being sent.  The first form of the settings,   *)
(* one target, is read until the second has been written once, and the     *)
(* configuration file, which may have a target on, until there are any.    *)
(***************************************************************************)
EXTENDS Naturals, FiniteSets

CONSTANTS
  Editors,      \* requests that load and save
  Notices,      \* deletion events being sent
  TargetIds, LegacyId,  \* target ids; that of the one target of the first form
  Urls,         \* addresses with their secrets
  NoUrl,        \* a target without an address
  Missing,      \* no such setting; no target of that id
  NoEditor,     \* webhookUpdateMu is free
  MaxSaves      \* bound: configurations published

\* A target: its address, and whether it is enabled and subscribed to deletions.
Target == {t \in [url : Urls \cup {NoUrl}, on : BOOLEAN] : t.on => t.url # NoUrl}
Config == [TargetIds -> Target \cup {Missing}]

ASSUME WebhooksAssumption ==
  /\ LegacyId \in TargetIds /\ NoEditor \notin Editors /\ MaxSaves \in Nat
  /\ NoUrl \notin Urls /\ Missing \notin [url : Urls \cup {NoUrl}, on : BOOLEAN]
  /\ Missing \notin Config

VARIABLES
  fileTarget, \* the webhook of the configuration file, as the last start read
              \* it; Missing once it no longer counts
  settingV1, settingV2,  \* the settings webhook (version 1) and webhook (version 2)
  live,       \* what runs: the targets, multi, and the dispatcher's number
  closed,     \* dispatchers that have been closed
  updating,   \* webhookUpdateMu
  editor,     \* what each request has loaded, and the configuration it saves
  notice,     \* per event: its dispatcher, the targets to try and those tried
  given,      \* history: the addresses given for an id
  confirmed,  \* history: ids whose deletions were confirmed since they were off
  inherited   \* history: ids that are on since the configuration file had them on

storeVars == <<fileTarget, settingV1, settingV2>>
pastVars  == <<given, confirmed, inherited>>
hookVars  == <<storeVars, live, closed, updating, editor, notice, pastVars>>

Only(target) == [i \in TargetIds |-> IF i = LegacyId THEN target ELSE Missing]
Has(c) == {i \in TargetIds : c[i] # Missing}
On(c) == {i \in Has(c) : c[i].on}

\* Seeded fault: a target that the settings switch off is taken from the file.
LoadedReactivates(v1, v2, file) ==
  CASE v2 # Missing -> [targets |-> v2, multi |-> TRUE]
    [] v2 = Missing /\ v1 # Missing /\ v1.on -> [targets |-> Only(v1), multi |-> FALSE]
    [] OTHER -> [targets |-> Only(file), multi |-> FALSE]

\* loadWebhookTargets and loadWebhookConfig: the second form is authoritative,
\* then the first; the file counts while there is neither.
Loaded(v1, v2, file) ==
  CASE v2 # Missing -> [targets |-> v2, multi |-> TRUE]
    [] v2 = Missing /\ v1 # Missing -> [targets |-> Only(v1), multi |-> FALSE]
    [] OTHER -> [targets |-> Only(file), multi |-> FALSE]

NotBusy == [at |-> "out"]

\* What a target of the file amounts to: its address is given there, and its
\* deletions, which are the default subscription, are not asked about.
FileGives(file) ==
  [i \in TargetIds |-> IF i = LegacyId THEN {file.url} \ {NoUrl} ELSE {}]

WebhooksInit ==
  /\ fileTarget \in Target /\ settingV1 = Missing /\ settingV2 = Missing
  /\ live = [config |-> Loaded(Missing, Missing, fileTarget), gen |-> 0] /\ closed = {}
  /\ updating = NoEditor /\ editor = [e \in Editors |-> NotBusy]
  /\ notice = [n \in Notices |-> NotBusy]
  /\ given = FileGives(fileTarget) /\ confirmed = {} /\ inherited = On(Only(fileTarget))

-----------------------------------------------------------------------------
(* Saving *)

Edit(e, r) == editor' = [editor EXCEPT ![e] = r]

\* adminWebhookTargets, adminWebhookSettings: the ETag stands for the content.
LoadTargets(e) ==
  /\ editor[e].at = "out" /\ Edit(e, [at |-> "loaded", base |-> live.config])
  /\ UNCHANGED <<storeVars, live, closed, updating, notice, pastVars>>

\* Seeded fault: an address that is kept is taken from another target.
KeptUrlAny(old, id) ==
  IF Has(old) = {} THEN NoUrl ELSE old[CHOOSE i \in Has(old) : TRUE].url

\* An address that is not sent again is kept, by id.
KeptUrl(old, id) == IF id \in Has(old) THEN old[id].url ELSE NoUrl

\* A target that was on and stays on is not asked about again.
NeedsConfirmation(old, new) == On(new) \ On(old)

\* Per target of the request: the address is kept, cleared or replaced.
Merged(old, ids, urls, on) ==
  [i \in TargetIds |->
     IF i \notin ids THEN Missing
     ELSE [url |-> IF urls[i] = Missing THEN KeptUrl(old, i) ELSE urls[i],
           on |-> i \in on]]

\* Both forms: the mutex, and the ETag that was loaded is what runs.
MaySave(e) ==
  /\ updating = NoEditor /\ live.gen < MaxSaves
  /\ editor[e].at = "loaded" /\ editor[e].base = live.config

\* Seeded fault: a target may be on without an address.
PersistUnvalidated(e, config, urls) ==
  /\ updating' = e
  /\ Edit(e, [at |-> "stored", new |-> config])
  /\ given' = [i \in TargetIds |->
       IF config.targets[i] = Missing THEN {}
       ELSE given[i] \cup ({urls[i]} \ {Missing, NoUrl})]
  /\ fileTarget' = Missing
  /\ UNCHANGED <<live, closed, notice>>

\* What both forms share once a configuration has been accepted: the setting
\* is written under the mutex; a failure leaves everything as it was.
Persist(e, config, urls) ==
  /\ updating' = e /\ config.targets \in Config
  /\ Edit(e, [at |-> "stored", new |-> config])
  /\ given' = [i \in TargetIds |->
       IF config.targets[i] = Missing THEN {}
       ELSE given[i] \cup ({urls[i]} \ {Missing, NoUrl})]
  /\ fileTarget' = Missing
  /\ UNCHANGED <<live, closed, notice>>

\* adminSaveWebhookTargets: new ids are new, and others must be known.
SaveTargets(e) ==
  /\ MaySave(e)
  /\ \E ids \in SUBSET TargetIds, confirm \in BOOLEAN : \E on \in SUBSET ids,
       urls \in [TargetIds -> Urls \cup {NoUrl, Missing}] :
       LET old == live.config.targets  new == Merged(old, ids, urls, on) IN
       /\ \A i \in TargetIds \ ids : urls[i] = Missing
       /\ NeedsConfirmation(old, new) # {} => confirm
       /\ Persist(e, [targets |-> new, multi |-> TRUE], urls)
       /\ settingV2' = new /\ settingV1' = settingV1
       /\ confirmed' = (confirmed \cap On(new))
                         \cup (IF confirm THEN On(new) ELSE {})
       /\ inherited' = inherited \cap On(new)

\* The settings of the one target as a configuration of targets.
OneTarget(url, on) ==
  Merged(live.config.targets, {LegacyId},
         [i \in TargetIds |-> IF i = LegacyId THEN url ELSE Missing],
         IF on THEN {LegacyId} ELSE {})

StoreOneTarget(e, url, on) ==
  LET new == OneTarget(url, on) IN
  /\ Persist(e, [targets |-> new, multi |-> FALSE],
             [i \in TargetIds |-> IF i = LegacyId THEN url ELSE Missing])
  /\ settingV1' = new[LegacyId] /\ settingV2' = settingV2
  /\ confirmed' = On(new) /\ inherited' = {}

\* adminSaveWebhookSettings: the one target, until there are many; deletions
\* are confirmed every time.
SaveSettings(e) ==
  /\ MaySave(e) /\ ~live.config.multi
  /\ \E url \in Urls \cup {NoUrl, Missing}, on \in BOOLEAN : StoreOneTarget(e, url, on)

\* publishWebhook ...
PublishConfig(e) ==
  /\ editor[e].at = "stored"
  /\ live' = [config |-> editor[e].new, gen |-> live.gen + 1]
  /\ Edit(e, [at |-> "published"])
  /\ UNCHANGED <<storeVars, closed, updating, notice, pastVars>>

\* ... closes the old dispatcher; then the mutex is given back.
CloseOld(e) ==
  /\ editor[e].at = "published" /\ closed' = closed \cup {live.gen - 1}
  /\ updating' = NoEditor /\ Edit(e, NotBusy)
  /\ UNCHANGED <<storeVars, live, notice, pastVars>>

\* 412, 409, 400 or a client that goes away.
GiveUpEdit(e) ==
  /\ editor[e].at = "loaded" /\ Edit(e, NotBusy)
  /\ UNCHANGED <<storeVars, live, closed, updating, notice, pastVars>>

-----------------------------------------------------------------------------
(* Sending *)

Notice(n, r) == notice' = [notice EXCEPT ![n] = r]
OnlyNotice == UNCHANGED <<storeVars, live, closed, updating, editor, pastVars>>

\* notifyMovieDeleted: take the sender, if anybody has subscribed.
TakeSender(n) ==
  /\ notice[n].at = "out" /\ On(live.config.targets) # {}
  /\ Notice(n, [at |-> "taken", gen |-> live.gen, config |-> live.config.targets])
  /\ OnlyNotice

\* Send loads the snapshot once; a dispatcher that is closed has none.
BeginSend(n) ==
  /\ notice[n].at = "taken"
  /\ Notice(n, IF notice[n].gen \in closed THEN NotBusy
               ELSE [at |-> "sending", config |-> notice[n].config,
                     todo |-> On(notice[n].config), tried |-> {}])
  /\ OnlyNotice

Subscribers(n) == notice[n].todo

\* Each in turn, whatever became of the others: sent, failed or skipped.
TryTarget(n) ==
  /\ notice[n].at = "sending"
  /\ \E i \in Subscribers(n) :
       Notice(n, [notice[n] EXCEPT !.tried = @ \cup {i}, !.todo = @ \ {i}])
  /\ OnlyNotice

FinishSend(n) ==
  /\ notice[n].at = "sending" /\ notice[n].todo = {} /\ Notice(n, NotBusy)
  /\ OnlyNotice

\* The file counts while no setting is stored.
ReadFile(file) ==
  IF settingV1 = Missing /\ settingV2 = Missing
  THEN fileTarget' = file /\ given' = FileGives(file) /\ inherited' = On(Only(file))
  ELSE UNCHANGED <<fileTarget, given, inherited>>

\* A crash at any point, or a shutdown with closeWebhook, and the next start,
\* for which the file may have been edited.
RestartHooks ==
  /\ \E file \in Target :
       ReadFile(file)
         /\ live' = [live EXCEPT !.config = Loaded(settingV1, settingV2, file)]
  /\ closed' = {}
  /\ updating' = NoEditor /\ editor' = [e \in Editors |-> NotBusy]
  /\ notice' = [n \in Notices |-> NotBusy]
  /\ UNCHANGED <<settingV1, settingV2, confirmed>>

WebhooksNext ==
  \/ \E e \in Editors :
       \/ LoadTargets(e) \/ SaveTargets(e) \/ SaveSettings(e)
       \/ PublishConfig(e) \/ CloseOld(e) \/ GiveUpEdit(e)
  \/ \E n \in Notices : TakeSender(n) \/ BeginSend(n) \/ TryTarget(n) \/ FinishSend(n)
  \/ RestartHooks

WebhooksSpec == WebhooksInit /\ [][WebhooksNext]_hookVars

-----------------------------------------------------------------------------
(* Properties *)

WebhooksTypeOK ==
  /\ settingV1 \in Target \cup {Missing} /\ settingV2 \in Config \cup {Missing}
  /\ live \in [config : [targets : Config, multi : BOOLEAN], gen : 0..MaxSaves]
  /\ closed \subseteq 0..MaxSaves /\ updating \in Editors \cup {NoEditor}
  /\ \A e \in Editors : editor[e].at \in {"out", "loaded", "stored", "published"}
  /\ \A n \in Notices : notice[n].at \in {"out", "taken", "sending"}
  /\ fileTarget \in Target \cup {Missing}
  /\ given \in [TargetIds -> SUBSET Urls]
  /\ confirmed \subseteq TargetIds /\ inherited \subseteq {LegacyId}

Stored == Loaded(settingV1, settingV2, fileTarget)

\* What runs is what a restart would load, whatever the file says by then if a
\* setting is stored, but for the moment between a save and its publication: the
\* two forms of the settings and two editors at once cannot make them differ.
RunningIsStored ==
  (\A e \in Editors : editor[e].at # "stored") => live.config = Stored

\* Deletions are sent only to targets for which they were confirmed since they
\* were last off, and to the one target that the configuration file has on: the
\* code asks about it neither while the file counts nor when the settings that
\* take its place keep it on, and until they switch it off; a file edited later
\* adds nothing.  And an address goes only to the target it was entered for.
ConsentIsKept ==
  /\ On(Stored.targets) \subseteq confirmed \cup inherited
  /\ \A i \in Has(Stored.targets) :
       Stored.targets[i].url \in given[i] \cup {NoUrl}

\* An event goes to the targets of one configuration, not to some of the old
\* and some of the new.
OneConfigPerEvent ==
  \A n \in Notices : notice[n].at = "sending" =>
    notice[n].tried \cup notice[n].todo = On(notice[n].config)

\* An event goes where an administrator or the configuration file has said, by
\* the one configuration that is stored.
EventsGoWhereAgreed == RunningIsStored /\ ConsentIsKept /\ OneConfigPerEvent
=============================================================================
