------------------------ MODULE EvidenceViewerProofs ------------------------
(***************************************************************************)
(* The evidence page with any number of sections, languages, language      *)
(* switches and reloads, and any answers to its fetches.                   *)
(***************************************************************************)
EXTENDS EvidenceViewer, TLAPS

Kinds == {"awaiting", "load-failed", "evidence"}

ContentTypes ==
    content \in [Sections -> [kind : Kinds, lang : Langs]]

Types ==
    /\ currentLang \in Langs
    /\ savedLang \in Langs \cup {NotSaved}
    /\ fetches \in [Sections -> Answers \cup {"outstanding"}]
    /\ pc \in {"loading", "loaded", "failed"}
    /\ ContentTypes

\* Nothing is taken from the answers before all are in; afterwards rawData is
\* what they held.
DataInv ==
    rawData = IF pc = "loading" THEN NothingLoaded ELSE Payloads

SettledInv == pc # "loading" => AllSettled

\* The page shows the evidence of sections renderAll reaches, and so writes again
\* at the next switch of the language.
EvidenceIsRendered ==
    \A s \in Sections : content[s].kind = "evidence" => s \in Rendered(rawData)

LoadedInv == pc = "loaded" => ~Throws(rawData)

IInv ==
    /\ Types /\ DataInv /\ SettledInv /\ EvidenceIsRendered /\ LoadedInv
    /\ PageSpeaksOneLanguage /\ EverySectionIsAnswered

----------------------------------------------------------------------------
\* renderAll reaches no section of an empty page, and every section that has
\* evidence when nothing throws.
LEMMA NothingRendered == Rendered(NothingLoaded) = {}
<1> SUFFICES ASSUME NEW j \in DOMAIN Order
             PROVE  NothingLoaded[Order[j]] # "good"
  BY DEF Rendered
<1>1. Order[j] \in Sections
  BY DEF Sections
<1> QED
  BY <1>1 DEF NothingLoaded

LEMMA GoodIsRendered ==
    ASSUME NEW data, ~Throws(data), NEW s \in Sections, data[s] = "good"
    PROVE  s \in Rendered(data)
<1>1. PICK j \in DOMAIN Order : s = Order[j]
  BY DEF Sections
<1>2. ASSUME NEW k \in 1 .. j PROVE data[Order[k]] # "malformed"
  <2>1. k \in DOMAIN Order
    BY OrderAssumption, <1>1, <1>2
  <2>2. Order[k] \in Sections
    BY <2>1 DEF Sections
  <2> QED
    BY <2>2 DEF Throws
<1> QED
  BY <1>1, <1>2 DEF Rendered

LEMMA RenderedIsGood ==
    ASSUME NEW data, NEW s \in Rendered(data)
    PROVE  data[s] = "good"
BY DEF Rendered

----------------------------------------------------------------------------
LEMMA InitEstablishes == Init => IInv
<1> SUFFICES ASSUME Init PROVE IInv
  OBVIOUS
<1> USE DEF Init
<1>1. currentLang \in Langs
  BY LanguagesAssumption
<1>2. \A s \in Sections : content[s] = Text("awaiting", currentLang)
  OBVIOUS
<1>3. Types
  BY <1>1 DEF Types, ContentTypes, Kinds, Text
<1>4. PageSpeaksOneLanguage /\ EverySectionIsAnswered /\ EvidenceIsRendered
  BY <1>2 DEF PageSpeaksOneLanguage, EverySectionIsAnswered, EvidenceIsRendered, Text
<1> QED
  BY <1>3, <1>4 DEF IInv, DataInv, SettledInv, LoadedInv

LEMMA ReloadKeeps ==
    ASSUME IInv, Reload
    PROVE  IInv'
<1> USE DEF Reload, Opened
<1>1. currentLang' \in Langs /\ savedLang' \in Langs \cup {NotSaved}
  BY LanguagesAssumption DEF IInv, Types
<1>2. \A s \in Sections : content'[s] = Text("awaiting", currentLang')
  OBVIOUS
<1>3. Types'
  BY <1>1 DEF Types, ContentTypes, Kinds, Text
<1>4. PageSpeaksOneLanguage' /\ EverySectionIsAnswered' /\ EvidenceIsRendered'
  BY <1>2 DEF PageSpeaksOneLanguage, EverySectionIsAnswered, EvidenceIsRendered, Text
<1> QED
  BY <1>3, <1>4 DEF IInv, DataInv, SettledInv, LoadedInv

\* While a fetch is outstanding nothing on the page depends on the answers.
LEMMA SettlingKeeps ==
    ASSUME IInv, NEW s \in Sections, FetchSettles(s)
    PROVE  IInv'
<1> USE DEF FetchSettles
<1>1. pc = "loading"
  BY DEF IInv, SettledInv, AllSettled
<1>2. Types'
  BY DEF IInv, Types, ContentTypes
<1>3. PageSpeaksOneLanguage' /\ EverySectionIsAnswered'
  BY <1>1 DEF IInv, PageSpeaksOneLanguage, EverySectionIsAnswered
<1>4. DataInv' /\ SettledInv' /\ EvidenceIsRendered' /\ LoadedInv'
  BY <1>1 DEF IInv, DataInv, SettledInv, EvidenceIsRendered, LoadedInv
<1> QED
  BY <1>2, <1>3, <1>4 DEF IInv

----------------------------------------------------------------------------
LEMMA FinishingKeeps ==
    ASSUME IInv, FinishLoading
    PROVE  IInv'
<1> DEFINE shown == WithLoadErrors(currentLang)
<1> USE DEF FinishLoading, ShowAll
<1>1. /\ pc = "loading" /\ AllSettled
      /\ rawData' = Payloads /\ Payloads' = Payloads
      /\ content' = RenderAll(Payloads, shown, currentLang)
      /\ currentLang' = currentLang /\ staticLang' = currentLang
      /\ fetches' = fetches /\ savedLang' = savedLang
  BY DEF Payloads
<1>2. \A s \in Sections :
         shown[s] = IF fetches[s] = "failed" THEN Text("load-failed", currentLang)
                    ELSE content[s]
  BY DEF WithLoadErrors
<1>3. \A s \in Sections : content[s].kind = "awaiting" /\ content[s].lang = currentLang
  BY <1>1 DEF IInv, EverySectionIsAnswered, PageSpeaksOneLanguage
<1>4. ASSUME NEW s \in Sections
      PROVE  /\ s \in Rendered(Payloads) => content'[s] = Text("evidence", currentLang)
             /\ s \notin Rendered(Payloads) =>
                   content'[s] = IF fetches[s] = "failed"
                                 THEN Text("load-failed", currentLang)
                                 ELSE Text("awaiting", currentLang)
  BY <1>1, <1>2, <1>3 DEF RenderAll, Text
<1>5. /\ pc' = IF Throws(Payloads) THEN "failed" ELSE "loaded"
      /\ status'.text = Text(IF Throws(Payloads) THEN "load-error" ELSE "loaded",
                             currentLang)
  BY <1>1
<1>6. Types'
  <2>1. currentLang \in Langs
    BY DEF IInv, Types
  <2>2. \A s \in Sections : content'[s] \in [kind : Kinds, lang : Langs]
    BY <1>4, <2>1 DEF Kinds, Text
  <2>3. content' \in [Sections -> [kind : Kinds, lang : Langs]]
    BY <1>1, <2>2 DEF RenderAll
  <2> QED
    BY <1>1, <1>5, <2>1, <2>3 DEF IInv, Types, ContentTypes
<1>7. PageSpeaksOneLanguage'
  BY <1>1, <1>4, <1>5 DEF PageSpeaksOneLanguage, Text
<1>8. EvidenceIsRendered'
  BY <1>1, <1>4 DEF EvidenceIsRendered, Text
<1>9. EverySectionIsAnswered'
  <2>1. ASSUME ~Throws(Payloads), NEW s \in Sections
        PROVE  fetches[s] \in DOMAIN Shows /\ content'[s].kind = Shows[fetches[s]]
    <3>1. Payloads[s] # "malformed"
      BY <2>1 DEF Throws
    <3>2. fetches[s] \in {"good", "failed", "falsy"}
      BY <1>1, <3>1 DEF IInv, Types, AllSettled, Payloads, Answers
    <3>3. CASE fetches[s] = "good"
      BY <1>4, <2>1, <3>3, GoodIsRendered DEF Payloads, Shows, Text
    <3>4. CASE fetches[s] \in {"failed", "falsy"}
      <4>1. s \notin Rendered(Payloads)
        BY <3>4, RenderedIsGood DEF Payloads
      <4> QED
        BY <1>4, <3>4, <4>1 DEF Shows, Text
    <3> QED
      BY <3>2, <3>3, <3>4
  <2> QED
    BY <1>1, <1>5, <2>1 DEF EverySectionIsAnswered, Text
<1> QED
  BY <1>1, <1>5, <1>6, <1>7, <1>8, <1>9
  DEF IInv, DataInv, SettledInv, LoadedInv, AllSettled

LEMMA SwitchingKeeps ==
    ASSUME IInv, NEW lang \in Langs, SwitchLanguage(lang)
    PROVE  IInv'
<1> USE DEF SwitchLanguage
<1>1. /\ currentLang' = lang /\ savedLang' = lang /\ staticLang' = lang
      /\ status'.text = Text("loading", lang)
      /\ content' = RenderAll(rawData, content, lang)
      /\ fetches' = fetches /\ rawData' = rawData /\ pc' = pc
  BY DEF IInv, PageSpeaksOneLanguage
<1>2. ASSUME NEW s \in Sections
      PROVE  /\ s \in Rendered(rawData) => content'[s] = Text("evidence", lang)
             /\ s \notin Rendered(rawData) =>
                   content'[s] = IF content[s].kind = "awaiting"
                                 THEN Text("awaiting", lang) ELSE content[s]
             /\ s \notin Rendered(rawData) => content[s].kind # "evidence"
  BY <1>1 DEF RenderAll, IInv, EvidenceIsRendered
<1>3. Types'
  <2>1. \A s \in Sections : content'[s] \in [kind : Kinds, lang : Langs]
    BY <1>2 DEF IInv, Types, ContentTypes, Kinds, Text
  <2>2. content' \in [Sections -> [kind : Kinds, lang : Langs]]
    BY <1>1, <2>1 DEF RenderAll
  <2> QED
    BY <1>1, <2>2 DEF IInv, Types, ContentTypes
<1>4. PageSpeaksOneLanguage'
  <2>1. ASSUME NEW s \in Sections, content'[s].kind # "load-failed"
        PROVE  content'[s].lang = lang
    <3>1. content[s].kind \in Kinds
      BY DEF IInv, Types, ContentTypes
    <3> QED
      BY <1>2, <2>1, <3>1 DEF Kinds, Text
  <2> QED
    BY <1>1, <2>1 DEF PageSpeaksOneLanguage, Text
<1>5. EvidenceIsRendered'
  BY <1>1, <1>2 DEF EvidenceIsRendered, Text
<1>6. EverySectionIsAnswered'
  <2>1. CASE pc = "loading"
    <3>1. Rendered(rawData) = {}
      BY <2>1, NothingRendered DEF IInv, DataInv
    <3>2. \A s \in Sections : content'[s] = Text("awaiting", lang)
      BY <1>2, <2>1, <3>1 DEF IInv, EverySectionIsAnswered
    <3> QED
      BY <1>1, <2>1, <3>2 DEF EverySectionIsAnswered, Text
  <2>2. CASE pc = "loaded"
    <3>1. ASSUME NEW s \in Sections
          PROVE  fetches[s] \in DOMAIN Shows /\ content'[s].kind = Shows[fetches[s]]
      <4>1. rawData = Payloads /\ ~Throws(rawData)
        BY <2>2 DEF IInv, DataInv, LoadedInv
      <4>2. fetches[s] \in DOMAIN Shows /\ content[s].kind = Shows[fetches[s]]
        BY <2>2 DEF IInv, EverySectionIsAnswered
      <4>3. CASE fetches[s] = "good"
        BY <1>2, <4>1, <4>3, GoodIsRendered DEF Payloads, Shows, Text
      <4>4. CASE fetches[s] # "good"
        <5>1. s \notin Rendered(rawData)
          BY <4>1, <4>4, RenderedIsGood DEF Payloads
        <5>2. content'[s].kind = content[s].kind
          BY <1>2, <5>1 DEF Text
        <5> QED
          BY <4>2, <5>2
      <4> QED
        BY <4>3, <4>4
    <3> QED
      BY <1>1, <2>2, <3>1 DEF EverySectionIsAnswered, Text
  <2>3. CASE pc = "failed"
    BY <1>1, <2>3 DEF EverySectionIsAnswered, Text
  <2> QED
    BY <2>1, <2>2, <2>3 DEF IInv, Types
<1>7. DataInv' /\ SettledInv' /\ LoadedInv'
  BY <1>1 DEF IInv, DataInv, SettledInv, LoadedInv, Payloads, AllSettled
<1> QED
  BY <1>3, <1>4, <1>5, <1>6, <1>7 DEF IInv

LEMMA StutteringKeeps ==
    ASSUME IInv, UNCHANGED vars
    PROVE  IInv'
BY DEF IInv, vars, Types, ContentTypes, DataInv, SettledInv, LoadedInv, Payloads,
   AllSettled, EvidenceIsRendered, PageSpeaksOneLanguage, EverySectionIsAnswered

LEMMA Inductive == Spec => []IInv
<1>1. IInv /\ [Next]_vars => IInv'
  BY ReloadKeeps, SettlingKeeps, FinishingKeeps, SwitchingKeeps, StutteringKeeps
  DEF Next
<1> QED
  BY InitEstablishes, <1>1, PTL DEF Spec

----------------------------------------------------------------------------
\* The data-i18n texts, the status line, the placeholders and the evidence are in
\* one language at every moment, for any number of sections and languages and
\* any sequence of answers, clicks and reloads.  The message of a failed fetch
\* is exempt.
THEOREM RewrittenTextsShareOneLanguage == Spec => []PageSpeaksOneLanguage
<1>1. IInv => PageSpeaksOneLanguage
  BY DEF IInv
<1> QED
  BY Inductive, <1>1, PTL

\* A page that says it has loaded shows for every section its evidence, that it
\* could not be loaded, or, for a file that held null, the placeholder.
THEOREM PageAnswersForEverySection == Spec => []EverySectionIsAnswered
<1>1. IInv => EverySectionIsAnswered
  BY DEF IInv
<1> QED
  BY Inductive, <1>1, PTL
=============================================================================
