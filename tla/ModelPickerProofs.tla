------------------------- MODULE ModelPickerProofs -------------------------
(***************************************************************************)
(* Theorems about ModelPicker for every set of models and any number of     *)
(* overlapping loads and pulls.                                             *)
(***************************************************************************)
EXTENDS ModelPicker, TLAPS

-----------------------------------------------------------------------------
(* The types. *)

CallStates == [at : {"unasked", "asked", "answered", "failed", "over"}, list : SUBSET Models]

PullStates ==
    [at : {"unasked", "running", "finished", "torn", "failed", "listing", "over"},
     model : Values]

(* The list of a call and the knowledge of the page are models of types.    *)
LEMMA InfoType ==
    ASSUME NEW list \in SUBSET Models
    PROVE  /\ InfoFrom(list) \in [Models -> {"unknown", "offered", "pulled"}]
           /\ \A m \in Models : InfoFrom(list)[m] = "pulled" <=> m \in list
           /\ \A m \in list : InfoFrom(list)[m] = "pulled"
           /\ \A m \in Offered : m \in Models /\ InfoFrom(list)[m] # "unknown"
  BY PickerAssumption DEF InfoFrom, Offered

LEMMA BannerType ==
    ASSUME banner \in Banners, NEW v, NEW info
    PROVE  BannerFor(v, info) \in Banners
  BY DEF BannerFor, Banners

(* What the selector shows with a new list is one of its options, and a     *)
(* model among them is known.                                               *)
LEMMA ChoiceType ==
    ASSUME NEW list \in SUBSET Models, NEW kept, NEW v \in Choices(list, kept)
    PROVE  /\ v \in Values
           /\ v \in Models => InfoFrom(list)[v] # "unknown"
<1>1. CASE kept \in Known(InfoFrom(list))
  BY <1>1 DEF Choices, Known, Values
<1>2. CASE kept \notin Known(InfoFrom(list)) /\ Default \in list
  BY <1>2, InfoType, PickerAssumption DEF Choices, Values
<1>3. CASE kept \notin Known(InfoFrom(list)) /\ Default \notin list /\ list # {}
  <2>1. v \in list
    BY <1>3 DEF Choices
  <2>2. QED
    BY <2>1, InfoType DEF Values
<1>4. CASE kept \notin Known(InfoFrom(list)) /\ list = {} /\ Offered # {}
  <2>1. v \in Offered
    BY <1>4 DEF Choices
  <2>2. QED
    BY <2>1, InfoType, PickerAssumption DEF Values
<1>5. CASE kept \notin Known(InfoFrom(list)) /\ list = {} /\ Offered = {}
  <2>1. v = "nothing"
    BY <1>5 DEF Choices
  <2>2. v \in Values
    BY <2>1 DEF Values, Placeholders
  <2>3. v \notin Models
    BY <2>1, PickerAssumption DEF Placeholders
  <2>4. QED
    BY <2>2, <2>3
<1>6. QED
  BY <1>1, <1>2, <1>3, <1>4, <1>5

(* The parts of TypeOK about the selector alone: what a step has to keep    *)
(* once the calls have their types.                                         *)
SelectorOK ==
    /\ select \in Values
    /\ disabled \in BOOLEAN
    /\ modelInfo \in [Models -> {"unknown", "offered", "pulled"}]
    /\ remembered \in Values \cup {NoModel}
    /\ uncensored \in BOOLEAN
    /\ banner \in Banners
    /\ select \in Models => modelInfo[select] # "unknown"

Parts ==
    /\ pulled \subseteq Models
    /\ load \in [Loads -> CallStates]
    /\ pull \in [Pulls -> PullStates]
    /\ sentTo \subseteq Values
    /\ SelectorOK

LEMMA TypeParts == (TypeOK <=> Parts) /\ (TypeOK' <=> Parts')
  BY DEF TypeOK, Parts, SelectorOK, CallStates, PullStates

(* A call of loadModels starts with a selector that shows no model. *)
LEMMA StartLoadType ==
    ASSUME TypeOK, NEW l \in Loads, StartLoad(l)
    PROVE  /\ load' \in [Loads -> CallStates]
           /\ select' \in Values \ Models
           /\ disabled' \in BOOLEAN
<1>1. [at |-> "asked", list |-> {}] \in CallStates
  BY DEF CallStates
<1>2. "loading" \in Values \ Models
  BY PickerAssumption DEF Values, Placeholders
<1>3. QED
  BY <1>1, <1>2, TypeParts DEF StartLoad, Parts

(* The steps of a call keep the types. *)
LEMMA LoadType ==
    ASSUME TypeOK, NEW l \in Refreshes, Refresh(l) \/ Toggle(l) \/ Reload(l) \/ Apply(l)
    PROVE  TypeOK'
<1> USE TypeParts DEF Parts
<1>1. l \in Loads /\ load[l] \in CallStates
  BY DEF Loads
<1>2. CASE Refresh(l) \/ Toggle(l)
  <2>1. /\ load' \in [Loads -> CallStates] /\ select' \in Values \ Models
        /\ disabled' \in BOOLEAN /\ uncensored' \in BOOLEAN
    BY <1>1, <1>2, StartLoadType DEF Refresh, Toggle, SelectorOK
  <2>2. QED
    BY <1>2, <2>1 DEF Refresh, Toggle, SelectorOK
<1>3. CASE Reload(l)
  <2>1. load' \in [Loads -> CallStates]
    BY <1>3 DEF Reload, CallStates
  <2>2. pull' \in [Pulls -> PullStates]
    BY <1>3 DEF Reload, PullStates
  <2>3. SelectorOK'
    BY <1>3, PickerAssumption DEF Reload, SelectorOK, Values, Placeholders, Banners, Hidden
  <2>4. QED
    BY <1>3, <2>1, <2>2, <2>3 DEF Reload
<1>4. CASE ApplyList(l)
  <2> DEFINE info == InfoFrom(load[l].list)
  <2>1. load[l].list \in SUBSET Models
    BY <1>1 DEF CallStates
  <2>2. load' \in [Loads -> CallStates]
    BY <1>1, <1>4 DEF ApplyList, CallStates
  <2>3. info \in [Models -> {"unknown", "offered", "pulled"}]
    BY <2>1, InfoType
  <2>4. select' \in Values /\ (select' \in Models => info[select'] # "unknown")
    BY <1>4, <2>1, ChoiceType DEF ApplyList
  <2>5. BannerFor(select', info) \in Banners
    BY BannerType DEF SelectorOK
  <2>6. disabled' \in BOOLEAN
    BY <1>4 DEF ApplyList, SelectorOK
  <2> HIDE DEF info
  <2>7. modelInfo' = info /\ banner' = BannerFor(select', info)
    BY <1>4 DEF ApplyList, info
  <2>8. SelectorOK'
    BY <1>4, <2>3, <2>4, <2>5, <2>6, <2>7 DEF ApplyList, SelectorOK
  <2>9. QED
    BY <1>4, <2>2, <2>8 DEF ApplyList
<1>5. CASE ApplyFailure(l)
  <2>1. load' \in [Loads -> CallStates]
    BY <1>1, <1>5 DEF ApplyFailure, CallStates
  <2>2. "unreachable" \in Values \ Models
    BY PickerAssumption DEF Values, Placeholders
  <2>3. QED
    BY <1>5, <2>1, <2>2 DEF ApplyFailure, SelectorOK
<1>6. QED
  BY <1>2, <1>3, <1>4, <1>5 DEF Apply

LEMMA AnswerType ==
    ASSUME TypeOK, NEW l \in Loads, Answer(l)
    PROVE  TypeOK'
<1>1. load' \in [Loads -> CallStates]
  BY TypeParts DEF Parts, Answer, ListTags, ListFails, CallStates
<1>2. QED
  BY <1>1, TypeParts DEF Parts, Answer, ListTags, ListFails, pageVars, SelectorOK

LEMMA UserType ==
    ASSUME TypeOK, (\E m \in Models : Select(m)) \/ SelectPlaceholder \/ SendMessage
    PROVE  TypeOK'
<1> USE TypeParts DEF Parts
<1>1. ASSUME NEW m \in Models, Select(m)
      PROVE  TypeOK'
  <2>1. BannerFor(m, modelInfo) \in Banners
    BY BannerType DEF SelectorOK
  <2>2. m \in Values
    BY DEF Values
  <2>3. QED
    BY <1>1, <2>1, <2>2 DEF Select, SelectorOK
<1>2. CASE SelectPlaceholder
  <2>1. BannerFor("unreachable", modelInfo) \in Banners
    BY BannerType DEF SelectorOK
  <2>2. "unreachable" \in Values \ Models
    BY PickerAssumption DEF Values, Placeholders
  <2>3. QED
    BY <1>2, <2>1, <2>2 DEF SelectPlaceholder, SelectorOK
<1>3. CASE SendMessage
  BY <1>3 DEF SendMessage, pageVars, SelectorOK
<1>4. QED
  BY <1>1, <1>2, <1>3

LEMMA PullType ==
    ASSUME TypeOK, NEW p \in Pulls, PullNow(p) \/ Stream(p) \/ ReadPull(p)
    PROVE  TypeOK'
<1> USE TypeParts DEF Parts
<1>1. p \in Loads /\ load[p] \in CallStates /\ pull[p] \in PullStates
  BY DEF Loads
<1>2. CASE PullNow(p)
  <2>1. pull' \in [Pulls -> PullStates]
    BY <1>2 DEF PullNow, PullStates, SelectorOK
  <2>2. banner' \in Banners
    BY <1>2 DEF PullNow, SelectorOK, Banners
  <2>3. QED
    BY <1>2, <2>1, <2>2 DEF PullNow, SelectorOK
<1>3. CASE Stream(p)
  <2>1. pull' \in [Pulls -> PullStates]
    BY <1>1, <1>3 DEF Stream, PullFinishes, PullFails, PullTears, PullStates
  <2>2. pulled' \subseteq Models
    BY <1>3 DEF Stream, PullFinishes, PullFails, PullTears
  <2>3. QED
    BY <1>3, <2>1, <2>2
    DEF Stream, PullFinishes, PullFails, PullTears, SelectorOK, pageVars
<1>4. CASE ReadFailure(p)
  <2>1. pull' \in [Pulls -> PullStates]
    BY <1>1, <1>4 DEF ReadFailure, PullStates
  <2>2. banner' \in Banners
    BY <1>4 DEF ReadFailure, AfterFailure, SelectorOK, Banners
  <2>3. QED
    BY <1>4, <2>1, <2>2 DEF ReadFailure, SelectorOK
<1>5. CASE ReadSuccess(p)
  <2>1. pull' \in [Pulls -> PullStates]
    BY <1>1, <1>5 DEF ReadSuccess, PullStates
  <2>2. banner' \in Banners
    BY <1>5 DEF ReadSuccess, SelectorOK, Banners
  <2>3. QED
    BY <1>1, <1>5, <2>1, <2>2, StartLoadType DEF ReadSuccess, SelectorOK
<1>6. CASE PullListed(p)
  <2>1. load' \in [Loads -> CallStates]
    BY <1>1, <1>6 DEF PullListed, CallStates
  <2>2. pull' \in [Pulls -> PullStates]
    BY <1>1, <1>6 DEF PullListed, PullStates
  <2>3. modelInfo' \in [Models -> {"unknown", "offered", "pulled"}]
    BY <1>1, <1>6, InfoType DEF PullListed, Relisted, CallStates, SelectorOK
  <2>4. /\ select' \in Values
        /\ select' \in Models => modelInfo'[select'] # "unknown"
    BY <1>6, PickerAssumption DEF PullListed, Chosen, Values, Placeholders
  <2>5. banner' \in Banners
    BY <1>6, BannerType DEF PullListed, SelectorOK
  <2>6. disabled' \in BOOLEAN /\ remembered' \in Values
    BY <1>1, <1>6 DEF PullListed, SelectorOK, PullStates
  <2>7. QED
    BY <1>6, <2>1, <2>2, <2>3, <2>4, <2>5, <2>6 DEF PullListed, SelectorOK
<1>7. QED
  BY <1>2, <1>3, <1>4, <1>5, <1>6 DEF ReadPull

(* The page's variables keep their types, and a model it shows as selected  *)
(* is one it knows, whatever loads and pulls overlap.                       *)
THEOREM TypeCorrect == Spec => []TypeOK
<1>1. Init => TypeOK
  <2>1. Init => load \in [Loads -> CallStates]
    BY DEF Init, Unasked, CallStates
  <2>2. Init => pull \in [Pulls -> PullStates]
    BY DEF Init, Unpulled, PullStates, Values, Placeholders
  <2>3. Init => SelectorOK
    BY PickerAssumption DEF Init, SelectorOK, Values, Placeholders, Banners, Hidden
  <2>4. QED
    BY <2>1, <2>2, <2>3, TypeParts DEF Init, Parts
<1>2. TypeOK /\ [Next]_vars => TypeOK'
  <2>1. TypeOK /\ UNCHANGED vars => TypeOK'
    BY DEF vars, pageVars, TypeOK
  <2>2. QED
    BY <2>1, LoadType, AnswerType, UserType, PullType DEF Next
<1>3. QED
  BY <1>1, <1>2, PTL DEF Spec

-----------------------------------------------------------------------------
(* What the page takes to be pulled. *)

(* Lists on their way are no longer than what Ollama has by now, as it      *)
(* loses no model: what makes PulledIsPulled inductive.                     *)
ListsTrue == \A l \in Loads : load[l].list \subseteq pulled

KnowledgeInv == ListsTrue /\ PulledIsPulled /\ MessagesToPulled

LEMMA KnowledgeStep ==
    ASSUME TypeOK, KnowledgeInv, Next
    PROVE  KnowledgeInv'
<1>0. /\ pulled \subseteq Models
      /\ load \in [Loads -> CallStates]
      /\ pull \in [Pulls -> PullStates]
      /\ modelInfo \in [Models -> {"unknown", "offered", "pulled"}]
      /\ \A l \in Loads : load[l].list \subseteq pulled
  BY TypeParts DEF Parts, SelectorOK, KnowledgeInv, ListsTrue
<1>1. pulled \subseteq pulled'
  BY DEF Next, Refresh, Toggle, Reload, Apply, ApplyList, ApplyFailure, Answer, ListTags, ListFails,
     Select, SelectPlaceholder, SendMessage, PullNow, Stream, PullFinishes, PullFails,
     PullTears, ReadPull, ReadFailure, ReadSuccess, PullListed
<1>2. ListsTrue'
  <2>1. CASE UNCHANGED load
    BY <1>0, <1>1, <2>1 DEF ListsTrue
  <2>2. ASSUME NEW l \in Loads, StartLoad(l)
        PROVE  ListsTrue'
    BY <1>0, <1>1, <2>2 DEF StartLoad, ListsTrue, CallStates
  <2>3. ASSUME NEW l \in Loads, Reload(l)
        PROVE  ListsTrue'
    BY <1>0, <1>1, <2>3 DEF Reload, ListsTrue, CallStates
  <2>4. ASSUME NEW l \in Loads, Answer(l)
        PROVE  ListsTrue'
    BY <1>0, <1>1, <2>4 DEF Answer, ListTags, ListFails, ListsTrue, CallStates
  <2>5. ASSUME NEW l \in Loads, Apply(l) \/ PullListed(l)
        PROVE  ListsTrue'
    BY <1>0, <1>1, <2>5 DEF Apply, ApplyList, ApplyFailure, PullListed, ListsTrue, CallStates
  <2>6. QED
    BY <2>1, <2>2, <2>3, <2>4, <2>5
    DEF Loads, Next, Refresh, Toggle, Select, SelectPlaceholder, SendMessage, PullNow, Stream,
        PullFinishes, PullFails, PullTears, ReadPull, ReadFailure, ReadSuccess, pageVars
<1>3. PulledIsPulled'
  <2>1. CASE UNCHANGED modelInfo
    BY <1>0, <1>1, <2>1 DEF KnowledgeInv, PulledIsPulled
  <2>2. ASSUME NEW l \in Loads, modelInfo' = InfoFrom(load[l].list)
        PROVE  PulledIsPulled'
    <3>1. load[l].list \in SUBSET Models
      BY <1>0 DEF CallStates
    <3>2. QED
      BY <1>0, <1>1, <2>2, <3>1, InfoType DEF PulledIsPulled
  <2>3. ASSUME NEW l \in Refreshes, Reload(l)
        PROVE  PulledIsPulled'
    BY <2>3 DEF Reload, PulledIsPulled
  <2>4. QED
    BY <2>1, <2>2, <2>3
    DEF Loads, Next, Refresh, Toggle, Apply, ApplyList, ApplyFailure, Answer, ListTags, ListFails,
        Select, SelectPlaceholder, SendMessage, PullNow, Stream, PullFinishes, PullFails,
        PullTears, ReadPull, ReadFailure, ReadSuccess, PullListed, Relisted, pageVars
<1>4. MessagesToPulled'
  <2>1. CASE UNCHANGED sentTo
    BY <1>1, <2>1 DEF KnowledgeInv, MessagesToPulled
  <2>2. CASE SendMessage
    <3>1. select \in Models => select \in pulled
      BY <1>0, <2>2
      DEF SendMessage, Refused, TypeOK, KnowledgeInv, PulledIsPulled
    <3>2. QED
      BY <1>1, <2>2, <3>1 DEF SendMessage, KnowledgeInv, MessagesToPulled
  <2>3. QED
    BY <2>1, <2>2
    DEF Next, Refresh, Toggle, Reload, Apply, ApplyList, ApplyFailure, Answer, ListTags, ListFails,
        Select, SelectPlaceholder, PullNow, Stream, PullFinishes, PullFails, PullTears,
        ReadPull, ReadFailure, ReadSuccess, PullListed
<1>5. QED
  BY <1>2, <1>3, <1>4 DEF KnowledgeInv

LEMMA KnowledgeAlways == Spec => []KnowledgeInv
<1>1. Init => KnowledgeInv
  BY DEF Init, KnowledgeInv, ListsTrue, PulledIsPulled, MessagesToPulled, Unasked
<1>2. TypeOK /\ KnowledgeInv /\ [Next]_vars => KnowledgeInv'
  <2>1. KnowledgeInv /\ UNCHANGED vars => KnowledgeInv'
    BY DEF vars, pageVars, KnowledgeInv, ListsTrue, PulledIsPulled, MessagesToPulled
  <2>2. QED
    BY <2>1, KnowledgeStep
<1>3. QED
  BY <1>1, <1>2, TypeCorrect, PTL DEF Spec

(* A model the page lists as available is one Ollama has, however many      *)
(* lists and pulls are under way and however the pulls end.                 *)
THEOREM AvailableIsPulled == Spec => []PulledIsPulled
<1>1. KnowledgeInv => PulledIsPulled
  BY DEF KnowledgeInv
<1>2. QED
  BY <1>1, KnowledgeAlways, PTL

(* A message that names a model names one that Ollama has. *)
THEOREM NoMessageBeforePull == Spec => []MessagesToPulled
<1>1. KnowledgeInv => MessagesToPulled
  BY DEF KnowledgeInv
<1>2. QED
  BY <1>1, KnowledgeAlways, PTL

-----------------------------------------------------------------------------
(* The banner. *)

LEMMA BannerForFits ==
    ASSUME banner \in Banners, NEW v, NEW info
    PROVE  LET b == BannerFor(v, info) IN
              /\ b \in Banners
              /\ v \in Models => (b.shown <=> info[v] = "offered")
              /\ b.shown => b.button
  BY DEF BannerFor, Banners

(* A visible banner, pulls aside, can be used; and it is visible for the    *)
(* model selected.                                                          *)
BannerInv == BannerMatches /\ ButtonComesBack

LEMMA BannerStep ==
    ASSUME TypeOK, BannerInv, Next
    PROVE  BannerInv'
<1>0. /\ banner \in Banners
      /\ pull \in [Pulls -> PullStates]
      /\ "loading" \notin Models /\ "unreachable" \notin Models /\ "nothing" \notin Models
      /\ "deselected" \notin Models
  BY TypeParts, PickerAssumption DEF Parts, SelectorOK, Placeholders
<1>1. ASSUME NEW v, NEW info,
             banner' = BannerFor(v, info), select' = v, modelInfo' = info
      PROVE  BannerInv'
  BY <1>0, <1>1, BannerForFits DEF BannerInv, BannerMatches, ButtonComesBack
<1>2. ASSUME NEW l \in Refreshes, Refresh(l) \/ Toggle(l) \/ Reload(l) \/ ApplyFailure(l)
      PROVE  BannerInv'
  BY <1>0, <1>2
  DEF Refresh, Toggle, StartLoad, Reload, ApplyFailure, Hidden, BannerInv, BannerMatches,
      ButtonComesBack, Pulling
<1>3. ASSUME NEW l \in Loads, Answer(l)
      PROVE  BannerInv'
  BY <1>3
  DEF Answer, ListTags, ListFails, pageVars, BannerInv, BannerMatches, ButtonComesBack, Pulling
<1>4. CASE SendMessage
  BY <1>4
  DEF SendMessage, pageVars, BannerInv, BannerMatches, ButtonComesBack, Pulling
<1>5. ASSUME NEW p \in Pulls, PullNow(p)
      PROVE  BannerInv'
  <2>1. Pulling(p)'
    BY <1>0, <1>5 DEF PullNow, Pulling
  <2>2. BannerMatches'
    BY <1>0, <1>5 DEF PullNow, BannerInv, BannerMatches, Banners
  <2>3. QED
    BY <2>1, <2>2 DEF BannerInv, ButtonComesBack
<1>6. ASSUME NEW p \in Pulls, Stream(p)
      PROVE  BannerInv'
  <2>1. Pulling(p)'
    BY <1>0, <1>6 DEF Stream, PullFinishes, PullFails, PullTears, Pulling, PullStates
  <2>2. BannerMatches'
    BY <1>6
    DEF Stream, PullFinishes, PullFails, PullTears, pageVars, BannerInv, BannerMatches
  <2>3. QED
    BY <2>1, <2>2 DEF BannerInv, ButtonComesBack
<1>7. ASSUME NEW p \in Pulls, ReadFailure(p)
      PROVE  BannerInv'
  BY <1>0, <1>7
  DEF ReadFailure, AfterFailure, Banners, BannerInv, BannerMatches, ButtonComesBack
<1>8. ASSUME NEW p \in Pulls, ReadSuccess(p)
      PROVE  BannerInv'
  <2>1. Pulling(p)'
    BY <1>0, <1>8 DEF ReadSuccess, Pulling, PullStates
  <2>2. BannerMatches'
    BY <1>0, <1>8 DEF ReadSuccess, StartLoad, BannerMatches
  <2>3. QED
    BY <2>1, <2>2 DEF BannerInv, ButtonComesBack
<1>9. ASSUME NEW l, ApplyList(l) \/ Select(l) \/ PullListed(l) \/ SelectPlaceholder
      PROVE  BannerInv'
  BY <1>1, <1>9 DEF ApplyList, Select, PullListed, SelectPlaceholder
<1>10. QED
  BY <1>2, <1>3, <1>4, <1>5, <1>6, <1>7, <1>8, <1>9 DEF Next, Apply, ReadPull

LEMMA BannerAlways == Spec => []BannerInv
<1>1. Init => BannerInv
  BY PickerAssumption
  DEF Init, Hidden, Placeholders, BannerInv, BannerMatches, ButtonComesBack
<1>2. TypeOK /\ BannerInv /\ [Next]_vars => BannerInv'
  <2>1. BannerInv /\ UNCHANGED vars => BannerInv'
    BY DEF vars, pageVars, BannerInv, BannerMatches, ButtonComesBack, Pulling
  <2>2. QED
    BY <2>1, BannerStep
<1>3. QED
  BY <1>1, <1>2, TypeCorrect, PTL DEF Spec

(* Whenever the selector shows a model, the banner is up exactly if the     *)
(* page knows the model as not pulled.                                      *)
THEOREM BannerFitsSelection == Spec => []BannerMatches
<1>1. BannerInv => BannerMatches
  BY DEF BannerInv
<1>2. QED
  BY <1>1, BannerAlways, PTL

(* The button of a visible banner is disabled only while a pull runs. *)
THEOREM ButtonUsable == Spec => []ButtonComesBack
<1>1. BannerInv => ButtonComesBack
  BY DEF BannerInv
<1>2. QED
  BY <1>1, BannerAlways, PTL

=============================================================================
