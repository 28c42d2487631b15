---------------------------- MODULE ModelPicker ----------------------------
(***************************************************************************)
(* The model selector, its banner and the pulls of the chat page            *)
(* (src/web/chat.html) with the GET /api/models and POST /api/pull handlers *)
(* behind them (src/src/ChatServer.cpp).                                    *)
(*                                                                          *)
(* loadModels and pullModel are coroutines: any number of them may be under *)
(* way, their answers come in any order, and all write the same selector,   *)
(* the same modelInfo and the same banner.  A load is asked (the request is *)
(* out), then answered or failed (the answer is on its way back), then      *)
(* over.  Refreshes are loads of their own; the one at the end of a pull    *)
(* bears the pull's name.                                                   *)
(*                                                                          *)
(* Abstractions: a pull's stream is how it ends for the page's reader       *)
(* (StreamProxy has the stream); the hardware's verdict is in Suggested;    *)
(* nobody removes a model from Ollama; texts and progress are left out.     *)
(***************************************************************************)
EXTENDS Naturals, FiniteSets

CONSTANTS
    Models,      \* model tags
    Suggested,   \* suggestions that fit the hardware
    Uncensored,  \* ... of the category that has to be asked for
    Default,     \* ChatServerConfig::defaultModel
    Refreshes,   \* bound: loads that are not the end of a pull
    Pulls,       \* bound: clicks on "Pull now"
    NoModel      \* no entry in localStorage

(* Texts that are the value of an option without one; and no value, with a  *)
(* list to choose from or with the one option a failed load leaves.         *)
Placeholders == {"loading", "unreachable", "nothing", "deselected"}

Empty == {"nothing", "deselected"}

ASSUME PickerAssumption ==
    /\ Models \cap Placeholders = {}
    /\ Suggested \subseteq Models
    /\ Uncensored \subseteq Suggested
    /\ Default \in Models
    /\ NoModel \notin Models
    /\ Refreshes \cap Pulls = {}

VARIABLES
    pulled,      \* what Ollama has
    load,        \* each call of loadModels
    pull,        \* each call of pullModel
    select,      \* modelSelect.value
    disabled,    \* modelSelect.disabled
    modelInfo,
    remembered,  \* the model in localStorage
    uncensored,  \* chkUncensored.checked, which localStorage keeps as well
    banner,
    sentTo       \* history: models of the messages sent

pageVars == <<select, disabled, modelInfo, remembered, uncensored, banner>>
vars == <<pulled, load, pull, pageVars, sentTo>>

Loads == Refreshes \cup Pulls

Values == Models \cup Placeholders

Banners == [shown : BOOLEAN, button : BOOLEAN, look : {"plain", "err", "ok"}]

Unasked == [at |-> "unasked", list |-> {}]

Unpulled == [at |-> "unasked", model |-> "nothing"]

Loading(l) == load[l].at \in {"asked", "answered", "failed"}

Pulling(p) == pull[p].at \in {"running", "finished", "torn", "failed", "listing"}

-----------------------------------------------------------------------------
(* The banner. *)

(* Mutant of BannerFor: a banner once shown stays. *)
BannerKept(v, info) ==
    IF v \in Models /\ info[v] = "offered"
      THEN [shown |-> TRUE, button |-> TRUE, look |-> "plain"]
      ELSE banner

(* updatePullBanner for a selector showing v with knowledge info. *)
BannerFor(v, info) ==
    IF v \in Models /\ info[v] = "offered"
      THEN [shown |-> TRUE, button |-> TRUE, look |-> "plain"]
      ELSE [banner EXCEPT !.shown = FALSE]

-----------------------------------------------------------------------------
(* Loading the list. *)

(* The synchronous part of loadModels. *)
StartLoad(l) ==
    /\ load' = [load EXCEPT ![l] = [at |-> "asked", list |-> {}]]
    /\ disabled' = TRUE
    /\ select' = "loading"

Refresh(l) ==
    /\ load[l].at = "unasked"
    /\ StartLoad(l)
    /\ UNCHANGED <<pulled, pull, modelInfo, remembered, uncensored, banner, sentTo>>

(* The checkbox for the uncensored suggestions loads the list again. *)
Toggle(l) ==
    /\ load[l].at = "unasked"
    /\ uncensored' = ~uncensored
    /\ StartLoad(l)
    /\ UNCHANGED <<pulled, pull, modelInfo, remembered, banner, sentTo>>

(* The handler asks Ollama for its tags and passes on those it could read:  *)
(* an answer that does not parse, or stops parsing half-way, is no error.   *)
ListTags(l) ==
    /\ load[l].at = "asked"
    /\ \E list \in SUBSET pulled :
          load' = [load EXCEPT ![l] = [at |-> "answered", list |-> list]]
    /\ UNCHANGED <<pulled, pull, pageVars, sentTo>>

(* Ollama or the server does not answer. *)
ListFails(l) ==
    /\ load[l].at = "asked"
    /\ load' = [load EXCEPT ![l] = [at |-> "failed", list |-> {}]]
    /\ UNCHANGED <<pulled, pull, pageVars, sentTo>>

(* Mutant of InfoFrom: suggestions are left out. *)
InfoOfPulled(list) == [m \in Models |-> IF m \in list THEN "pulled" ELSE "unknown"]

Offered == IF uncensored THEN Suggested ELSE Suggested \ Uncensored

(* Listed models and the suggestions on offer that are not among them. *)
InfoFrom(list) ==
    [m \in Models |-> IF m \in list THEN "pulled"
                      ELSE IF m \in Offered THEN "offered" ELSE "unknown"]

Known(info) == {m \in Models : info[m] # "unknown"}

(* What the selector shows with a new list: the remembered model, else the  *)
(* default, else its first option that can be chosen.                       *)
Choices(list, kept) ==
    IF kept \in Known(InfoFrom(list)) THEN {kept}
    ELSE IF Default \in list THEN {Default}
    ELSE IF list # {} THEN list
    ELSE IF Offered # {} THEN Offered
    ELSE {"nothing"}

(* Assigning a value that is no option leaves the selector without one.     *)
Chosen(m, info) == IF m \in Models /\ info[m] # "unknown" THEN m ELSE "nothing"

ApplyList(l) ==
    LET list == load[l].list
        info == InfoFrom(list)
    IN  /\ l \in Refreshes
        /\ load[l].at = "answered"
        /\ load' = [load EXCEPT ![l].at = "over", ![l].list = {}]
        /\ modelInfo' = info
        /\ select' \in Choices(list, remembered)
        /\ disabled' = (disabled /\ Known(info) = {})
        /\ banner' = BannerFor(select', info)
        /\ UNCHANGED <<pulled, pull, remembered, uncensored, sentTo>>

(* modelInfo, the banner and disabled stay as they are. *)
ApplyFailure(l) ==
    /\ l \in Refreshes
    /\ load[l].at = "failed"
    /\ load' = [load EXCEPT ![l].at = "over"]
    /\ select' = "unreachable"
    /\ UNCHANGED <<pulled, pull, disabled, modelInfo, remembered, uncensored, banner, sentTo>>

-----------------------------------------------------------------------------
(* The user. *)

(* Another option, or any of them when none is selected: a pull may end     *)
(* with a list that does not have its model.                                *)
Select(m) ==
    /\ ~disabled
    /\ select \in (Models \cup {"nothing"}) \ {m}
    /\ modelInfo[m] # "unknown"
    /\ select' = m
    /\ remembered' = m
    /\ banner' = BannerFor(m, modelInfo)
    /\ UNCHANGED <<pulled, load, pull, disabled, modelInfo, uncensored, sentTo>>

(* The one option after a failed load, where assigning a value had removed  *)
(* the choice of it.                                                        *)
SelectPlaceholder ==
    /\ ~disabled
    /\ select = "deselected"
    /\ select' = "unreachable"
    /\ remembered' = "unreachable"
    /\ banner' = BannerFor("unreachable", modelInfo)
    /\ UNCHANGED <<pulled, load, pull, disabled, modelInfo, uncensored, sentTo>>

(* Mutant of Refused: nothing but an empty selector is refused. *)
RefusedIfEmpty(v) == disabled \/ v \in Empty

(* The guards of send(). *)
Refused(v) ==
    \/ disabled
    \/ v \in Empty
    \/ v \in Models /\ modelInfo[v] = "offered"

SendMessage ==
    /\ ~Refused(select)
    /\ sentTo' = sentTo \cup {select}
    /\ UNCHANGED <<pulled, load, pull, pageVars>>

-----------------------------------------------------------------------------
(* Pulling. *)

(* "Pull now" and "Retry pull" pull what is selected at that time. *)
PullNow(p) ==
    /\ banner.shown
    /\ banner.button
    /\ pull[p].at = "unasked"
    /\ pull' = [pull EXCEPT ![p] = [at |-> "running", model |-> select]]
    /\ banner' = [banner EXCEPT !.button = FALSE, !.look = "plain"]
    /\ UNCHANGED <<pulled, load, select, disabled, modelInfo, remembered, uncensored, sentTo>>

(* Ollama has the model and says so. *)
PullFinishes(p) ==
    /\ pull[p].at = "running"
    /\ pull[p].model \in Models
    /\ pulled' = pulled \cup {pull[p].model}
    /\ pull' = [pull EXCEPT ![p].at = "finished"]
    /\ UNCHANGED <<load, pageVars, sentTo>>

(* The stream ends with an error the page can read, or is cut off. *)
PullFails(p) ==
    /\ pull[p].at \in {"running", "finished"}
    /\ pull' = [pull EXCEPT ![p].at = "failed"]
    /\ UNCHANGED <<pulled, load, pageVars, sentTo>>

(* It breaks inside a line, and the error line with it. *)
PullTears(p) ==
    /\ pull[p].at = "running"
    /\ pull[p].model \in Models
    /\ pull' = [pull EXCEPT ![p].at = "torn"]
    /\ UNCHANGED <<pulled, load, pageVars, sentTo>>

(* Mutant of AfterFailure: the button stays as it is. *)
AfterFailureStuck(b) == [b EXCEPT !.look = "err"]

AfterFailure(b) == [b EXCEPT !.look = "err", !.button = TRUE]

ReadFailure(p) ==
    /\ pull[p].at = "failed"
    /\ pull' = [pull EXCEPT ![p].at = "over"]
    /\ banner' = AfterFailure(banner)
    /\ UNCHANGED <<pulled, load, select, disabled, modelInfo, remembered, uncensored, sentTo>>

(* Without an error line a pull is a success; the list is loaded again. *)
ReadSuccess(p) ==
    /\ pull[p].at \in {"finished", "torn"}
    /\ pull' = [pull EXCEPT ![p].at = "listing"]
    /\ banner' = [banner EXCEPT !.look = "ok"]
    /\ StartLoad(p)
    /\ UNCHANGED <<pulled, modelInfo, remembered, uncensored, sentTo>>

(* Mutant of Relisted: what was just pulled is taken to be there. *)
RelistedTrusting(p, list) == InfoFrom(list \cup {pull[p].model})

Relisted(p, list) == InfoFrom(list)

(* That load comes back, and pullModel goes on right behind it: the pulled  *)
(* model becomes the selected and the remembered one, whatever the user     *)
(* chose meanwhile.                                                         *)
PullListed(p) ==
    LET info == IF load[p].at = "answered" THEN Relisted(p, load[p].list) ELSE modelInfo
    IN  /\ pull[p].at = "listing"
        /\ load[p].at \in {"answered", "failed"}
        /\ load' = [load EXCEPT ![p].at = "over", ![p].list = {}]
        /\ pull' = [pull EXCEPT ![p].at = "over"]
        /\ modelInfo' = info
        /\ IF load[p].at = "answered"
             THEN /\ select' = Chosen(pull[p].model, info)
                  /\ disabled' = (disabled /\ Known(info) = {})
             ELSE /\ select' = "deselected"
                  /\ UNCHANGED disabled
        /\ remembered' = pull[p].model
        /\ banner' = BannerFor(select', info)
        /\ UNCHANGED <<pulled, uncensored, sentTo>>

-----------------------------------------------------------------------------
(* The specification. *)

Hidden == [shown |-> FALSE, button |-> TRUE, look |-> "plain"]

(* The page has just called loadModels. *)
Init ==
    /\ pulled \in SUBSET Models
    /\ \E first \in Refreshes :
          load = [l \in Loads |-> IF l = first THEN [at |-> "asked", list |-> {}] ELSE Unasked]
    /\ pull = [p \in Pulls |-> Unpulled]
    /\ select = "loading"
    /\ disabled = TRUE
    /\ modelInfo = [m \in Models |-> "unknown"]
    /\ remembered \in Models \cup {NoModel}
    /\ uncensored \in BOOLEAN
    /\ banner = Hidden
    /\ sentTo = {}

(* The page is loaded anew; requests under way are given up. *)
Reload(l) ==
    /\ load[l].at = "unasked"
    /\ l \in Refreshes
    /\ load' = [k \in Loads |-> IF k = l THEN [at |-> "asked", list |-> {}]
                                ELSE IF Loading(k) THEN [at |-> "over", list |-> {}] ELSE load[k]]
    /\ pull' = [p \in Pulls |-> IF Pulling(p) THEN [pull[p] EXCEPT !.at = "over"] ELSE pull[p]]
    /\ select' = "loading"
    /\ disabled' = TRUE
    /\ modelInfo' = [m \in Models |-> "unknown"]
    /\ banner' = Hidden
    /\ UNCHANGED <<pulled, remembered, uncensored, sentTo>>

Answer(l) == ListTags(l) \/ ListFails(l)

Apply(l) == ApplyList(l) \/ ApplyFailure(l)

Stream(p) == PullFinishes(p) \/ PullFails(p) \/ PullTears(p)

ReadPull(p) == ReadFailure(p) \/ ReadSuccess(p) \/ PullListed(p)

Next ==
    \/ \E l \in Refreshes : Refresh(l) \/ Toggle(l) \/ Reload(l) \/ Apply(l)
    \/ \E l \in Loads : Answer(l)
    \/ \E m \in Models : Select(m)
    \/ SelectPlaceholder
    \/ SendMessage
    \/ \E p \in Pulls : PullNow(p) \/ Stream(p) \/ ReadPull(p)

Spec == Init /\ [][Next]_vars

-----------------------------------------------------------------------------
(* Properties. *)

(* The types, and that a selected model is one the page knows. *)
TypeOK ==
    /\ pulled \subseteq Models
    /\ load \in [Loads -> [at : {"unasked", "asked", "answered", "failed", "over"},
                           list : SUBSET Models]]
    /\ pull \in [Pulls -> [at : {"unasked", "running", "finished", "torn", "failed", "listing", "over"},
                           model : Values]]
    /\ select \in Values
    /\ disabled \in BOOLEAN
    /\ modelInfo \in [Models -> {"unknown", "offered", "pulled"}]
    /\ remembered \in Values \cup {NoModel}
    /\ uncensored \in BOOLEAN
    /\ banner \in Banners
    /\ sentTo \subseteq Values
    /\ select \in Models => modelInfo[select] # "unknown"

(* A model the page lists as available is one Ollama has, however lists and *)
(* pulls overlap and also after a pull whose failure the page did not see.  *)
PulledIsPulled == \A m \in Models : modelInfo[m] = "pulled" => m \in pulled

(* No message goes to a model that still has to be pulled. *)
MessagesToPulled == sentTo \cap Models \subseteq pulled

(* The button of a visible banner is disabled only while a pull is under    *)
(* way: no failure leaves it unusable.                                      *)
ButtonComesBack == (banner.shown /\ ~banner.button) => \E p \in Pulls : Pulling(p)

(* Whenever the selector shows a model, whatever loads and pulls are under  *)
(* way, the banner is up exactly if the page knows the model as not pulled. *)
BannerMatches == select \in Models => (banner.shown <=> modelInfo[select] = "offered")
=============================================================================
