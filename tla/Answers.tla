------------------------------ MODULE Answers -------------------------------
(***************************************************************************)
(* Where the answers of a station come from: the model settings the owner  *)
(* saves (internal/llm/config.go, internal/web/model_handlers.go), the     *)
(* router that is given them while it answers (internal/llm/router.go),    *)
(* the questions of the Ask box and of the owner's own number              *)
(* (internal/ask, internal/messaging/inbound.go), and the calls to a       *)
(* provider (internal/llm/providers.go).  A save is four statements, one a *)
(* row; the rows are then read back, one by one, for the running router.   *)
(*                                                                         *)
(* Abstractions: a model, a key or an address is a value of Choice, "" is  *)
(* none; a question is open, or can be answered without a model; the reply *)
(* of a model quotes figures it was given or is not shown.  The wording of *)
(* the answers, the figures (module Ingest), the log of questions (module  *)
(* Relay) and the limit on questions of one number are left out, and so is *)
(* the row with the tier of the PC, which is read with the others and does *)
(* not change: it is taken to be readable.  The owner's number may ask a   *)
(* little before the dashboard listens, when nothing can be saved yet.     *)
(***************************************************************************)
EXTENDS CoreProcess

CONSTANTS
  Asker,    \* pages with an Ask box, and the owner's number
  Text,     \* models, keys and addresses
  Choice,   \* what the owner may enter: a provider, a model, a key, an address
  Tier,     \* the hardware tier of the PC: "basic" or another
  EnvURL    \* FUELMIND_OLLAMA_URL, "" where it is the default address

Provider == {"none", "ollama", "openai", "anthropic"}
Row == {"provider", "model", "key", "url"}
KeepExistingKey == "keep"

ASSUME ChoiceAssumption ==
  /\ IsFiniteSet(Choice)
  /\ Choice \subseteq [provider : Provider, model : Text, key : Text, url : Text]

VARIABLES
  saved,    \* local_config: llm_provider, llm_model, llm_api_key, llm_base_url
  router,   \* Router.Client and Router.Model
  save,     \* the save each browser has under way
  ask,      \* the question each asker has under way
  mixed     \* history: may the router be part of two choices, or of none?

answerVars == <<saved, router, save, ask, mixed>>

-----------------------------------------------------------------------------
(* From the rows to a client.                                              *)

SendsDataOffSite(p) == p \in {"openai", "anthropic"}
ModelForTier == IF Tier = "basic" THEN "" ELSE "sized"
DefaultModelFor(p) == CASE p = "none" -> "" [] p = "ollama" -> "small" [] OTHER -> "hosted"

\* LoadSettings: nothing chosen is a local model, or none on a small PC.
LoadSettings(rows, url) ==
  LET p == IF rows.provider # "" THEN rows.provider
           ELSE IF Tier = "basic" THEN "none" ELSE "ollama"
  IN  [provider |-> p, key |-> rows.key,
       model |-> IF rows.model # "" THEN rows.model
                 ELSE IF p = "ollama" THEN ModelForTier ELSE DefaultModelFor(p),
       url |-> IF rows.url = "" /\ p = "ollama" THEN url ELSE rows.url]

\* NewClient: a hosted provider needs a key.
NoClient == [provider |-> "none", key |-> "", url |-> ""]
NewClient(s) ==
  IF s.provider = "none" \/ (SendsDataOffSite(s.provider) /\ s.key = "") THEN NoClient
  ELSE [provider |-> s.provider, url |-> s.url,
        key |-> IF s.provider = "ollama" THEN "" ELSE s.key]

Configured(rows, url) ==
  LET s == LoadSettings(rows, url) IN [client |-> NewClient(s), model |-> s.model]
HasModel(r) == r.client # NoClient /\ r.model # ""

\* formModelSettings: a blank model is the provider's first pick.
Form(c, key) ==
  [provider |-> c.provider, key |-> key, url |-> c.url,
   model |-> IF c.model = "" THEN DefaultModelFor(c.provider) ELSE c.model]

Value(row) == {""} \cup {Form(c, c.key)[row] : c \in Choice}
Saved == [provider : Value("provider"), model : Value("model"),
          key : Value("key") \ {KeepExistingKey}, url : Value("url")]
Unset == [provider |-> "", model |-> "", key |-> "", url |-> ""]
Routed == {Configured(rows, "") : rows \in Saved}
          \cup {Configured(rows, EnvURL) : rows \in Saved}

NoSave == [at |-> "idle", row |-> "provider", c |-> Unset]
Save == [at : {"idle", "write", "read", "configure"}, row : Row, c : Saved]
NoQuestion == [at |-> "idle", given |-> Configured(Unset, ""), fresh |-> {}]
\* given: what a call under way was given; fresh: what it is to be given, where
\* that is certain: what was saved as the question was asked, and no save since.
Question == [at : {"idle", "figures", "call"}, given : Routed,
             fresh : {{}} \cup {{r} : r \in Routed}]

AnswersTypeOK ==
  /\ saved \in Saved /\ router \in Routed
  /\ save \in [Browser -> Save] /\ ask \in [Asker -> Question]
  /\ mixed \in BOOLEAN

AnswersInit ==
  /\ saved = Unset /\ router = Configured(Unset, "")
  /\ save = [b \in Browser |-> NoSave] /\ ask = [q \in Asker |-> NoQuestion]
  /\ mixed = FALSE

-----------------------------------------------------------------------------
(* saveModelSettings: SaveSettings, then reloadModel.                      *)

Saving == \E b \in Browser : save[b].at # "idle"
Following == [provider |-> "model", model |-> "key", key |-> "url", url |-> "provider"]

\* What is checked first: a hosted provider needs a key.  A choice that is
\* refused changes nothing.
BeginSave(b, c, key) ==
  /\ save[b].at = "idle" /\ (SendsDataOffSite(c.provider) => key # "")
  /\ save' = [save EXCEPT ![b] = [at |-> "write", row |-> "provider", c |-> Form(c, key)]]
  /\ mixed' = Saving
  /\ ask' = [q \in Asker |-> [ask[q] EXCEPT !.fresh = {}]]
  /\ UNCHANGED <<saved, router>>

\* (mutant: only a hosted provider's key is looked up)
SaveSettingsHosted(b, c) ==
  BeginSave(b, c, IF c.key = KeepExistingKey /\ SendsDataOffSite(c.provider)
                  THEN saved.key ELSE c.key)
\* The key is the one that is saved if the box was left blank.
SaveSettings(b, c) ==
  BeginSave(b, c, IF c.key = KeepExistingKey THEN saved.key ELSE c.key)
\* A saved key that cannot be read counts as none: no hosted provider can be
\* chosen then, and another choice erases the key it was to keep.
SaveSettingsUnread(b, c) == c.key = KeepExistingKey /\ BeginSave(b, c, "")

\* One SetLocalConfig for each row, in this order.
SetLocalConfig(b) ==
  LET row == save[b].row
  IN  /\ save[b].at = "write" /\ saved' = [saved EXCEPT ![row] = save[b].c[row]]
      /\ save' = [save EXCEPT ![b].row = Following[row],
                              ![b].at = IF row = "url" THEN "read" ELSE "write"]
      /\ UNCHANGED <<router, ask, mixed>>

\* reloadModel: one LocalConfigValue for each row.
Reads(b, value) ==
  LET row == save[b].row
  IN  /\ save[b].at = "read"
      /\ save' = [save EXCEPT ![b].row = Following[row], ![b].c[row] = value,
                              ![b].at = IF row = "url" THEN "configure" ELSE "read"]
ReloadModel(b) == Reads(b, saved[save[b].row]) /\ UNCHANGED <<saved, router, ask, mixed>>

\* (mutant: a choice without a client leaves the router what it was)
ConfigureClient(b) ==
  /\ save[b].at = "configure" /\ save' = [save EXCEPT ![b] = NoSave]
  /\ router' = IF HasModel(Configured(save[b].c, "")) THEN Configured(save[b].c, "")
               ELSE router
  /\ UNCHANGED <<saved, ask, mixed>>
\* Configure swaps the client and the model in under one lock.
Configure(b) ==
  /\ save[b].at = "configure" /\ save' = [save EXCEPT ![b] = NoSave]
  /\ router' = Configured(save[b].c, "")
  /\ UNCHANGED <<saved, ask, mixed>>

\* A write fails, or the browser has gone: what was written stays.
SaveFails(b) ==
  /\ save[b].at = "write" /\ save' = [save EXCEPT ![b] = NoSave] /\ mixed' = TRUE
  /\ UNCHANGED <<saved, router, ask>>
\* A row that cannot be read counts as one that is not there.
ReloadFails(b) ==
  Reads(b, "") /\ mixed' = TRUE /\ UNCHANGED <<saved, router, ask>>
\* The browser has gone: none of the rows that are left can be read.
Left(row) == CASE row = "provider" -> Row [] row = "model" -> Row \ {"provider"}
               [] row = "key" -> {"key", "url"} [] row = "url" -> {"url"}
Cut(c, rows) ==
  LET value(row) == IF row \in rows THEN "" ELSE c[row]
  IN  [provider |-> value("provider"), model |-> value("model"),
       key |-> value("key"), url |-> value("url")]
ReloadCancelled(b) ==
  /\ save[b].at = "read" /\ mixed' = TRUE
  /\ save' = [save EXCEPT ![b].at = "configure", ![b].row = "provider",
       ![b].c = Cut(@, Left(save[b].row))]
  /\ UNCHANGED <<saved, router, ask>>

-----------------------------------------------------------------------------
(* A question: the figures are read, then it is routed.                    *)

Answered(q) == ask' = [ask EXCEPT ![q] = NoQuestion]

\* handleAsk, or Inbound.Handle for the owner's own number.
Ask(q) ==
  /\ ask[q].at = "idle"
  /\ ask' = [ask EXCEPT ![q] = [NoQuestion EXCEPT !.at = "figures",
       !.fresh = IF Saving \/ mixed THEN {} ELSE {Configured(saved, EnvURL)}]]
  /\ UNCHANGED <<saved, router, save, mixed>>

\* Route without a model: the set questions, what there is no feed for, an
\* open question where no model is configured; or the figures cannot be read.
RouteStandard(q) ==
  /\ ask[q].at = "figures" /\ Answered(q)
  /\ UNCHANGED <<saved, router, save, mixed>>

\* An open question: Router.current reads the client and the model together.
Current(q) ==
  /\ ask[q].at = "figures" /\ HasModel(router)
  /\ ask' = [ask EXCEPT ![q].at = "call", ![q].given = router]
  /\ UNCHANGED <<saved, router, save, mixed>>

\* Generate returns, fails or times out; ungrounded figures are not shown.
Generate(q) ==
  /\ ask[q].at = "call" /\ Answered(q)
  /\ UNCHANGED <<saved, router, save, mixed>>

AnswersStep ==
  \/ \E b \in Browser : SetLocalConfig(b) \/ ReloadModel(b) \/ Configure(b)
  \/ \E q \in Asker : RouteStandard(q) \/ Current(q) \/ Generate(q)

-----------------------------------------------------------------------------
\* run builds the router from what is saved and from its environment.
NewRouterFromSettings ==
  /\ router' = Configured(saved, EnvURL)
  /\ UNCHANGED <<saved, save, ask, mixed>>
\* The process ends: the rows remain.
AnswersGone ==
  /\ save' = [b \in Browser |-> NoSave] /\ ask' = [q \in Asker |-> NoQuestion]
  /\ mixed' = FALSE /\ UNCHANGED <<saved, router>>

\* What is saved is what answers, unless two saves overlapped or one failed,
\* and no save has run alone since.
ModelApplied ==
  core = "serving" /\ ~mixed /\ ~Saving => router = Configured(saved, EnvURL)

\* "Changing the provider in Settings takes effect on the next question"
\* (router.go): a question asked when nothing was being saved goes to the
\* provider, with the model, that was saved, unless a save began since.
NextQuestionUsesIt ==
  \A q \in Asker : ask[q].at = "call" /\ ask[q].fresh # {} => ask[q].given \in ask[q].fresh
=============================================================================
