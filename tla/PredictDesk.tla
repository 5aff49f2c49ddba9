----------------------------- MODULE PredictDesk -----------------------------
(***************************************************************************)
(* Predictions by a language model: the settings page (settings/llm), the  *)
(* route api/llm and lib/llm-analyzer.ts.  The settings are rows of one    *)
(* table.  A save writes them one statement at a time, a run reads them    *)
(* all at once and keeps what it read.                                     *)
(***************************************************************************)
EXTENDS Desk

CONSTANTS
  Providers,   \* ollama, openai, anthropic
  Local,       \* ollama, which has no key: its page asks for an address instead
  ApiKeys,     \* keys an operator may type
  LlmAssets,   \* assets with enough samples to analyse
  LlmTabs,     \* settings pages open at the same time
  SaveSlots,   \* bound: saves in work at the same time, numbers
  Runs         \* bound: analyses in work at the same time

ASSUME PredictAssumption ==
  /\ Local \in Providers
  /\ SaveSlots \subseteq Nat
  /\ {Nil, "mask"} \cap ApiKeys = {} /\ Nil \notin Providers

VARIABLES
  setting,  \* system_settings, by LLM key; model names the provider it is one of
  llmSave,  \* the PUT in work in a slot
  llmPage,  \* the page of a tab
  llmLoads, \* answers of GET on their way to a tab
  llmRun,   \* an analysis: where it is, the settings it read, the assets left
  mixed     \* history: a save was read, crossed or broken off half way

predictVars == <<setting, llmSave, llmPage, llmLoads, llmRun, mixed>>

\* llm_enabled and llm_predict_enabled are asked for together; one stands for both.
\* The address, the interval and the mail address are data.
Keys == {"provider", "model", "key", "on"}
NoSave == [tab |-> Nil, body |-> Nil, todo |-> {}]
NoRun == [at |-> "idle", by |-> Nil, cfg |-> Nil, torn |-> FALSE, todo |-> {}, about |-> Nil]

\* GET: the key leaves the server masked.
Masked(cfg) == [cfg EXCEPT !.key = IF @ = Nil THEN Nil ELSE "mask"]

\* What load() leaves on the page: the field of the key holds the mask.
LlmShown(page, cfg) == [page EXCEPT !.cfg = cfg, !.keyInput = cfg.key, !.loading = FALSE]

\* The model has been configured, with a key or without; the pages have been loaded.
PredictInit ==
  /\ \E p \in Providers, k \in ApiKeys \cup {Nil} :
       setting = [provider |-> p, model |-> p, key |-> k, on |-> TRUE]
  /\ llmSave = [s \in SaveSlots |-> NoSave]
  /\ llmPage = [t \in LlmTabs |-> LlmShown([cfg |-> Nil, keyInput |-> Nil, loading |-> TRUE,
                                            saving |-> FALSE, analyzing |-> FALSE], Masked(setting))]
  /\ llmLoads = [t \in LlmTabs |-> {}]
  /\ llmRun = [r \in Runs |-> NoRun]
  /\ mixed = FALSE

-----------------------------------------------------------------------------
(* The settings page.  While it loads there is nothing to click.           *)

LlmPage(t, new) == llmPage' = [llmPage EXCEPT ![t] = new]
OnSettings(t) == Act /\ ~llmPage[t].loading

\* load(): the answer is read when it is sent; a save half written is seen as it is.
Halfway(s) == Cardinality({"provider", "model"} \cap llmSave[s].todo) = 1
StartLlmLoad(t) ==
  /\ llmLoads' = [llmLoads EXCEPT ![t] = @ \cup {Masked(setting)}]
  /\ mixed' = (mixed \/ \E s \in SaveSlots : Halfway(s))

LlmRefresh(t) ==
  /\ OnSettings(t)
  /\ StartLlmLoad(t)
  /\ LlmPage(t, [llmPage[t] EXCEPT !.loading = TRUE])
  /\ UNCHANGED <<setting, llmSave, llmRun>>

\* What was typed and not saved is gone.
LlmArrives(t, cfg) ==
  /\ cfg \in llmLoads[t]
  /\ llmLoads' = [llmLoads EXCEPT ![t] = @ \ {cfg}]
  /\ LlmPage(t, LlmShown(llmPage[t], cfg))
  /\ UNCHANGED <<setting, llmSave, llmRun, mixed, deskVars>>

LlmLoadLost(t, cfg) ==
  /\ Act
  /\ cfg \in llmLoads[t]
  /\ llmLoads' = [llmLoads EXCEPT ![t] = @ \ {cfg}]
  /\ LlmPage(t, [llmPage[t] EXCEPT !.loading = FALSE])
  /\ UNCHANGED <<setting, llmSave, llmRun, mixed>>

Edit(t, new) ==
  /\ OnSettings(t)
  /\ LlmPage(t, new)
  /\ UNCHANGED <<setting, llmSave, llmLoads, llmRun, mixed>>

ToggleLlm(t) == Edit(t, [llmPage[t] EXCEPT !.cfg.on = ~@])

\* handleProviderChange: with the model of the provider; the field of the key is emptied.
\* A model typed by hand is taken to be one of the provider.
ChooseProvider(t, p) ==
  Edit(t, [llmPage[t] EXCEPT !.cfg.provider = p, !.cfg.model = p, !.keyInput = Nil])

TypeKey(t, k) ==
  /\ llmPage[t].cfg.provider # Local
  /\ Edit(t, [llmPage[t] EXCEPT !.keyInput = k])

\* Everything on the page is sent, touched or not; instead of a key that was not typed
\* the mask that came with the page, if there was a key.
SaveSettings(t, s) ==
  LET p == llmPage[t]
      body == [p.cfg EXCEPT !.key = IF p.keyInput \in ApiKeys THEN p.keyInput ELSE @] IN
  /\ OnSettings(t) /\ ~p.saving
  /\ llmSave[s] = NoSave /\ \A o \in SaveSlots : llmSave[o] = NoSave => s <= o
  /\ llmSave' = [llmSave EXCEPT ![s] = [tab |-> t, body |-> body,
                   todo |-> {k \in Keys : body[k] # Nil}]]
  /\ LlmPage(t, [p EXCEPT !.saving = TRUE])
  /\ UNCHANGED <<setting, llmLoads, llmRun, mixed>>

\* Whatever the answer, the page says that it has saved, and loads.
SaveAnswered(s, heard) ==
  LET t == llmSave[s].tab IN
  /\ llmSave[s].tab # Nil /\ llmSave[s].todo = {}
  /\ llmSave' = [llmSave EXCEPT ![s] = NoSave]
  /\ \/ /\ heard
        /\ LlmPage(t, [llmPage[t] EXCEPT !.saving = FALSE, !.loading = TRUE])
        /\ StartLlmLoad(t)
        /\ UNCHANGED deskVars
     \/ /\ ~heard
        /\ Act
        /\ LlmPage(t, [llmPage[t] EXCEPT !.saving = FALSE])
        /\ UNCHANGED <<llmLoads, mixed>>
  /\ UNCHANGED <<setting, llmRun>>

-----------------------------------------------------------------------------
(* PUT                                                                     *)

\* Faulty variant, for testing the properties: the key is written as it came.
SkipsNone(s, k) == FALSE
Skips(s, k) == k = "key" /\ llmSave[s].body.key = "mask"

\* In the order of the body, which is that of the rows the page was sent: any.
WriteSetting(s, k) ==
  /\ k \in llmSave[s].todo
  /\ llmSave' = [llmSave EXCEPT ![s].todo = @ \ {k}]
  /\ setting' = IF Skips(s, k) THEN setting ELSE [setting EXCEPT ![k] = llmSave[s].body[k]]
  /\ mixed' = (mixed \/ (k \in {"provider", "model"} /\ \E o \in SaveSlots \ {s} : Halfway(o)))
  /\ UNCHANGED <<llmPage, llmLoads, llmRun, deskVars>>

\* A statement fails: what is written stays.
SaveBreaks(s) ==
  /\ Act
  /\ llmSave[s].todo # {}
  /\ llmSave' = [llmSave EXCEPT ![s].todo = {}]
  /\ mixed' = (mixed \/ Halfway(s))
  /\ UNCHANGED <<setting, llmPage, llmLoads, llmRun>>

-----------------------------------------------------------------------------
(* runLLMPrediction                                                        *)

RunTo(r, new) == llmRun' = [llmRun EXCEPT ![r] = new]
RunIs(r, at) == llmRun[r].at = at
Besides == UNCHANGED <<setting, llmSave, llmLoads, mixed>>

\* By cron, or by the button of a page, which waits for the end.
StartRun(r) ==
  /\ Act
  /\ RunIs(r, "idle")
  /\ RunTo(r, [NoRun EXCEPT !.at = "load"])
  /\ UNCHANGED llmPage /\ Besides

RunAnalysis(t, r) ==
  /\ OnSettings(t) /\ ~llmPage[t].analyzing
  /\ RunIs(r, "idle")
  /\ RunTo(r, [NoRun EXCEPT !.at = "load", !.by = t])
  /\ LlmPage(t, [llmPage[t] EXCEPT !.analyzing = TRUE])
  /\ Besides

\* loadConfig: one query.
LoadConfig(r) ==
  /\ RunIs(r, "load")
  /\ RunTo(r, [llmRun[r] EXCEPT !.at = IF setting.on THEN "collect" ELSE "end", !.cfg = setting,
                                !.torn = \E s \in SaveSlots : Halfway(s)])
  /\ UNCHANGED <<llmPage, deskVars>> /\ Besides

\* collectTrends: the assets that are online.
CollectTrends(r) ==
  /\ RunIs(r, "collect")
  /\ \E online \in SUBSET LlmAssets :
       RunTo(r, [llmRun[r] EXCEPT !.at = "call", !.todo = online])
  /\ UNCHANGED <<llmPage, deskVars>> /\ Besides

\* analyzeTrend: an issue to report, or none, or no answer that can be used.
AnalyzeTrend(r, a, issue) ==
  /\ RunIs(r, "call") /\ a \in llmRun[r].todo
  /\ RunTo(r, [llmRun[r] EXCEPT !.at = IF issue THEN "save" ELSE "call", !.todo = @ \ {a},
                                !.about = IF issue THEN a ELSE Nil])
  /\ UNCHANGED <<llmPage, deskVars>> /\ Besides

\* savePrediction and sendPredictionAlert: rows and messages are data.
SavePrediction(r) ==
  /\ RunIs(r, "save")
  /\ RunTo(r, [llmRun[r] EXCEPT !.at = "alert"])
  /\ UNCHANGED <<llmPage, deskVars>> /\ Besides

SendPredictionAlert(r) ==
  /\ RunIs(r, "alert")
  /\ RunTo(r, [llmRun[r] EXCEPT !.at = "call", !.about = Nil])
  /\ UNCHANGED <<llmPage, deskVars>> /\ Besides

\* A statement fails; only before the try block the caller hears of it.
RunBreaks(r) ==
  /\ Act
  /\ llmRun[r].at \in {"load", "collect", "save", "alert"}
  /\ RunTo(r, [llmRun[r] EXCEPT !.at = IF @ = "load" THEN "failed" ELSE "end", !.todo = {}])
  /\ UNCHANGED llmPage /\ Besides

RunEnds(r) ==
  /\ RunIs(r, "call") /\ llmRun[r].todo = {}
  /\ RunTo(r, [llmRun[r] EXCEPT !.at = "end"])
  /\ UNCHANGED <<llmPage, deskVars>> /\ Besides

\* The page that waits loads when all went well.
RunAnswered(r, heard) ==
  LET t == llmRun[r].by
      well == heard /\ RunIs(r, "end") IN
  /\ llmRun[r].at \in {"end", "failed"}
  /\ heard \/ t # Nil
  /\ RunTo(r, NoRun)
  /\ IF heard THEN UNCHANGED deskVars ELSE Act
  /\ IF t = Nil THEN UNCHANGED <<llmPage, llmLoads, mixed>>
     ELSE /\ LlmPage(t, [llmPage[t] EXCEPT !.analyzing = FALSE, !.loading = @ \/ well])
          /\ IF well THEN StartLlmLoad(t) ELSE UNCHANGED <<llmLoads, mixed>>
  /\ UNCHANGED <<setting, llmSave>>

-----------------------------------------------------------------------------
RunStep(r) ==
  \/ LoadConfig(r) \/ CollectTrends(r) \/ SavePrediction(r) \/ SendPredictionAlert(r)
  \/ RunBreaks(r) \/ RunEnds(r)
  \/ \E a \in LlmAssets, issue \in BOOLEAN : AnalyzeTrend(r, a, issue)
  \/ \E heard \in BOOLEAN : RunAnswered(r, heard)

PredictNext ==
  \/ \E t \in LlmTabs :
       \/ LlmRefresh(t) \/ ToggleLlm(t)
       \/ \E cfg \in llmLoads[t] : LlmArrives(t, cfg) \/ LlmLoadLost(t, cfg)
       \/ \E p \in Providers : ChooseProvider(t, p)
       \/ \E k \in ApiKeys \cup {Nil} : TypeKey(t, k)
       \/ \E s \in SaveSlots : SaveSettings(t, s)
       \/ \E r \in Runs : RunAnalysis(t, r)
  \/ \E s \in SaveSlots : \/ \E k \in Keys : WriteSetting(s, k)
                          \/ SaveBreaks(s)
                          \/ \E heard \in BOOLEAN : SaveAnswered(s, heard)
  \/ \E r \in Runs : StartRun(r) \/ RunStep(r)

PredictSpec == DeskInit /\ PredictInit /\ [][PredictNext]_<<predictVars, deskVars>>

PredictTypeOK ==
  /\ setting.provider \in Providers /\ setting.model \in Providers /\ setting.on \in BOOLEAN
  /\ mixed \in BOOLEAN
  /\ \A s \in SaveSlots : llmSave[s].tab \in LlmTabs \cup {Nil} /\ llmSave[s].todo \subseteq Keys
  /\ \A r \in Runs :
       /\ llmRun[r].at \in {"idle", "load", "collect", "call", "save", "alert", "end", "failed"}
       /\ llmRun[r].todo \subseteq LlmAssets /\ llmRun[r].by \in LlmTabs \cup {Nil}

\* Calls go out with settings somebody has saved: with a key that was typed, never its
\* mask, though every save sends the mask back (route.ts:54), and with a model of the
\* provider, though the two are written by two statements and read by others, by tabs
\* that have loaded and saved them since: unless a save was read half written, met
\* another one half way, or broke off there.
OfOneProvider(cfg) == cfg.model = cfg.provider
CallsAsSaved ==
  /\ setting.key \in ApiKeys \cup {Nil}
  /\ mixed \/ OfOneProvider(setting) \/ \E s \in SaveSlots : Halfway(s)
  /\ \A r \in Runs : RunIs(r, "call") =>
       /\ llmRun[r].cfg.key \in ApiKeys \cup {Nil}
       /\ mixed \/ llmRun[r].torn \/ OfOneProvider(llmRun[r].cfg)
=============================================================================
