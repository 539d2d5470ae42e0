--------------------------- MODULE EvidenceViewer ---------------------------
(***************************************************************************)
(* The evidence page web/index.html with its script web/app.js: three      *)
(* evidence files are fetched at once and rendered when the last answer is *)
(* in, while the user may switch the language or reload the page at any    *)
(* moment.                                                                 *)
(*                                                                         *)
(* JavaScript runs one task at a time, so each handler, and each           *)
(* continuation of loadAll, is one action.  A text on the page is the key  *)
(* of its string and the language it was written in.                       *)
(***************************************************************************)
EXTENDS Naturals, Sequences

CONSTANTS
    Order,      \* the sections, in the order renderAll takes them
    Langs,      \* the keys of STRINGS
    Default,    \* the language of the HTML file and of a first visit
    NotSaved,   \* localStorage holds no language
    MaxReloads  \* bound: reloads of the page

Sections == {Order[i] : i \in DOMAIN Order}

ASSUME LanguagesAssumption == Default \in Langs /\ NotSaved \notin Langs
ASSUME OrderAssumption == Order \in Seq(Sections)

VARIABLES
    currentLang,  \* currentLang
    savedLang,    \* localStorage "radio-scheduler-lang"
    fetches,      \* how the fetch of each section stands
    rawData,      \* rawData, by the kind of its payload
    pc,           \* where loadAll is
    staticLang,   \* language of the data-i18n texts and of the pressed button
    status,       \* text and classes of #load-status
    content,      \* what the content area of each section holds
    reloads

vars == <<currentLang, savedLang, fetches, rawData, pc, staticLang, status,
          content, reloads>>

\* How a fetch may end: a network or HTTP error or text that is not JSON; JSON
\* the section can render; JSON of another shape, on which rendering throws;
\* JSON that is false in a condition (null, false, 0, ""), which rawData cannot
\* tell from no answer.
Answers == {"failed", "good", "malformed", "falsy"}

NothingLoaded == [s \in Sections |-> "none"]

Text(kind, lang) == [kind |-> kind, lang |-> lang]

----------------------------------------------------------------------------
\* The page is parsed and its script runs to the end of its first task: the
\* language is looked up, the static strings are written and three fetches
\* are on their way.
Opened(lang) ==
    /\ currentLang' = lang
    /\ fetches' = [s \in Sections |-> "outstanding"]
    /\ rawData' = NothingLoaded
    /\ pc' = "loading"
    /\ staticLang' = lang
    /\ status' = [text |-> Text("loading", lang), classes |-> {}]
    /\ content' = [s \in Sections |-> Text("awaiting", lang)]

Init ==
    /\ savedLang \in Langs \cup {NotSaved}
    /\ currentLang = IF savedLang = NotSaved THEN Default ELSE savedLang
    /\ fetches = [s \in Sections |-> "outstanding"]
    /\ rawData = NothingLoaded
    /\ pc = "loading"
    /\ staticLang = currentLang
    /\ status = [text |-> Text("loading", currentLang), classes |-> {}]
    /\ content = [s \in Sections |-> Text("awaiting", currentLang)]
    /\ reloads = 0

Reload ==
    /\ reloads < MaxReloads
    /\ reloads' = reloads + 1
    /\ Opened(IF savedLang = NotSaved THEN Default ELSE savedLang)
    /\ UNCHANGED savedLang

----------------------------------------------------------------------------
FetchSettles(s) ==
    /\ fetches[s] = "outstanding"
    /\ \E answer \in Answers : fetches' = [fetches EXCEPT ![s] = answer]
    /\ UNCHANGED <<currentLang, savedLang, rawData, pc, staticLang, status,
                   content, reloads>>

\* The sections of data that renderAll reaches: it throws at the first payload
\* it cannot render, and the sections after that one are left alone.
Rendered(data) ==
    {Order[i] : i \in {j \in DOMAIN Order :
        /\ data[Order[j]] = "good"
        /\ \A k \in 1 .. j : data[Order[k]] # "malformed"}}

Throws(data) == \E s \in Sections : data[s] = "malformed"

\* renderAll: applyStaticStrings rewrites every data-i18n text still on the
\* page, the placeholder of a section not filled yet among them, and then the
\* sections that have data are rendered.
RenderAll(data, shown, lang) ==
    [s \in Sections |->
        IF s \in Rendered(data) THEN Text("evidence", lang)
        ELSE IF shown[s].kind = "awaiting" THEN Text("awaiting", lang)
        ELSE shown[s]]

\* showLoadError, for the sections whose fetch was rejected
WithLoadErrors(lang) ==
    [s \in Sections |->
        IF fetches[s] = "failed" THEN Text("load-failed", lang) ELSE content[s]]

AllSettled == \A s \in Sections : fetches[s] # "outstanding"

\* The rest of loadAll, with its catch: data and error messages are in place,
\* everything is rendered, and the status line says how it went.
ShowAll(data, shown) ==
    /\ content' = RenderAll(data, shown, currentLang)
    /\ staticLang' = currentLang
    /\ IF Throws(data)
       THEN /\ pc' = "failed"
            /\ status' = [text    |-> Text("load-error", currentLang),
                          classes |-> status.classes \cup {"error"}]
       ELSE /\ pc' = "loaded"
            /\ status' = [text    |-> Text("loaded", currentLang),
                          classes |-> status.classes \cup {"ok"}]

\* rawData after loadAll has looked at every answer, as `if (rawData...)` sees it
Payloads ==
    [s \in Sections |->
        IF fetches[s] \in {"failed", "falsy"} THEN "none" ELSE fetches[s]]

\* Mutant: a rejected fetch leaves its section as it is.
FinishLoadingSilently ==
    /\ pc = "loading" /\ AllSettled
    /\ rawData' = Payloads
    /\ ShowAll(Payloads, content)
    /\ UNCHANGED <<currentLang, savedLang, fetches, reloads>>

\* The continuation of loadAll once every fetch has settled.
FinishLoading ==
    /\ pc = "loading" /\ AllSettled
    /\ rawData' = Payloads
    /\ ShowAll(Payloads, WithLoadErrors(currentLang))
    /\ UNCHANGED <<currentLang, savedLang, fetches, reloads>>

\* Mutant: the evidence is not rendered again.
SwitchLanguageOfStaticStrings(lang) ==
    /\ lang # currentLang
    /\ currentLang' = lang
    /\ savedLang' = lang
    /\ staticLang' = lang
    /\ status' = [status EXCEPT !.text = Text("loading", lang)]
    /\ content' = RenderAll(NothingLoaded, content, lang)
    /\ UNCHANGED <<fetches, rawData, pc, reloads>>

\* A click on the button of the other language.  #load-status is a data-i18n
\* element of the key "loading", and rendering may throw out of the handler.
SwitchLanguage(lang) ==
    /\ lang # currentLang
    /\ currentLang' = lang
    /\ savedLang' = lang
    /\ staticLang' = lang
    /\ status' = [status EXCEPT !.text = Text("loading", lang)]
    /\ content' = RenderAll(rawData, content, lang)
    /\ UNCHANGED <<fetches, rawData, pc, reloads>>

----------------------------------------------------------------------------
Next ==
    \/ \E s \in Sections : FetchSettles(s)
    \/ FinishLoading
    \/ \E lang \in Langs : SwitchLanguage(lang)
    \/ Reload

\* The server answers every request and the browser runs the continuation;
\* what the user does is up to the user.
Spec ==
    /\ Init /\ [][Next]_vars
    /\ \A s \in Sections : WF_vars(FetchSettles(s))
    /\ WF_vars(FinishLoading)

----------------------------------------------------------------------------
\* Of the texts applyStaticStrings and renderAll write: whenever the language is
\* switched, before, while or after the evidence is rendered and also when
\* rendering throws half way, the data-i18n texts, the status line, the
\* placeholders and the evidence are in one language.  The message of a failed
\* fetch is written once and keeps its language; <title> and the descriptions
\* inside the evidence files have one language each and are not modelled.
PageSpeaksOneLanguage ==
    /\ staticLang = currentLang
    /\ status.text.lang = currentLang
    /\ \A s \in Sections : content[s].kind # "load-failed" =>
                               content[s].lang = currentLang

\* What a loaded page shows for an answer that did not make rendering throw.
Shows == [good |-> "evidence", failed |-> "load-failed", falsy |-> "awaiting"]

\* Nothing is shown before all answers are in, and a page that says it has
\* loaded shows, for every section, its evidence or why there is none, whatever
\* the language was switched to meanwhile.  The one section that goes on saying
\* "Awaiting data..." is one whose file was read and held null or the like.
EverySectionIsAnswered ==
    /\ pc = "loading" => \A s \in Sections : content[s].kind = "awaiting"
    /\ status.text.kind = "loaded" => pc = "loaded"
    /\ pc = "loaded" =>
          \A s \in Sections : /\ fetches[s] \in DOMAIN Shows
                              /\ content[s].kind = Shows[fetches[s]]

\* A page that has loaded awaits nothing (the placeholder of a section reads
\* "Awaiting data...").
LoadedPageAwaitsNothing ==
    pc = "loaded" => \A s \in Sections : content[s].kind # "awaiting"

\* The status line says "Loading evidence..." only while it is loaded.
LoadingIsSaidWhileLoading == status.text.kind = "loading" => pc = "loading"

\* The page says that evidence was loaded only if some was.
LoadedMeansSomething ==
    status.text.kind = "loaded" => \E s \in Sections : rawData[s] # "none"
=============================================================================
