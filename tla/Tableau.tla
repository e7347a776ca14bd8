---- MODULE Tableau ----
(* A dashboard in the browser: its filters, the field that searches a site, the *)
(* table fed by react-query, and the export.  Two dashboards have a button that *)
(* applies the filters (mesures, referentiel); the others apply them at once.   *)
(* The filters of year, dates, parameter, statute and impact are one "year".    *)
EXTENDS Integers, Sequences, FiniteSets, TLC

CONSTANTS
    Ouvrages,   \* [steu, scl -> the sites a search can offer]
    PointsDe,   \* [site -> its points of measure]
    NbPages,    \* [site -> the pages its answer has]
    Annees,     \* the values of the other filters
    SansDates,  \* dates that are missing or inverted (mesures, referentiel)
    Debut,      \* a text typed, that begins the name of every site
    Rien,       \* nothing chosen, nothing typed, nothing shown
    MaxEdits,   \* bound: actions of the user on the filters and the table
    Shared,     \* actions that a shared address stands for, of these
    MaxLooks,   \* bound: actions in the field that choose nothing
    MaxFailed   \* bound: queries that failed and were not asked again

VARIABLES
    dashboard, form, submitted, hasSearched, pageNumber, showGraph,
    field,          \* the site's field: "closed", "open" (list), "typing"
    search, debounced, offered,          \* per mode: text asked for, sent, answered
    underway, store, failed, kept,        \* react-query: under way, answered, failed, previous
    exporting, edits, looks

tableauVars == <<dashboard, form, submitted, hasSearched, pageNumber, showGraph, field, search,
                 debounced, offered, underway, store, failed, kept, exporting, edits, looks>>

Modes == {"steu", "scl"}
WithButton == {"mesures", "referentiel"}
Dashboards_ == WithButton \cup {"conformite", "transmission", "bilan", "evenement"}

\* A site is something, and the other filters have a value.
ASSUME TableauAssumption == (\A m \in Modes : Rien \notin Ouvrages[m]) /\ Annees # {}

----
(* What is asked for *)

Columns(mode) ==
    CASE dashboard \in {"conformite", "transmission"} -> {"common", mode}
      [] dashboard = "referentiel" -> {}
      [] OTHER -> {"common"}

InitialSort == IF dashboard = "transmission" THEN "common" ELSE Rien

\* The filters the table answers to.
Applied == IF dashboard \in WithButton THEN submitted ELSE form

Demande == [filters |-> Applied, page |-> pageNumber]

\* Mutant: the key of a query leaves out its page.
Key_NoPage == [Demande EXCEPT !.page = 1]
\* Each list has a key that holds its whole query.
Key == Demande

\* One observer per list: the dashboards without a button have one for each mode.
Observer == IF dashboard \in WithButton THEN "steu" ELSE form.mode

Enabled_ ==
    CASE dashboard = "mesures" -> hasSearched /\ ~showGraph
      [] dashboard = "referentiel" -> hasSearched /\ submitted.site # Rien
      [] OTHER -> form.site # Rien

Watched == IF Enabled_ THEN <<Observer, Key>> ELSE <<>>

IsFetching == \E p \in underway : p.key = Key
IsLoading == IsFetching /\ Key \notin DOMAIN store /\ kept[Observer] = Rien

\* The rows in the table: the answer, or those of the query before while it is awaited.
Shown_ ==
    IF Key \in DOMAIN store THEN store[Key]
    ELSE IF Key \in failed THEN Rien ELSE kept[Observer]

PagesDe(q) == IF q.filters.point = Rien THEN NbPages[q.filters.site] ELSE 1
TotalPages == IF Shown_ = Rien THEN 0 ELSE PagesDe(Shown_)

TableVisible ==
    CASE dashboard = "mesures" -> ~showGraph /\ ~IsLoading /\ Key \notin failed
      [] dashboard = "referentiel" -> ~IsLoading /\ Key \notin failed /\ Shown_ # Rien
      [] dashboard = "conformite" -> form.site # Rien /\ Key \notin failed /\ TotalPages > 0
      [] OTHER -> form.site # Rien /\ ~IsLoading

\* The server refuses a sort by a column that the list of this mode does not have.
Refused(q) == q.filters.sort \notin {Rien, "common", q.filters.mode}

----
(* The field that searches a site *)

Matching(mode, text) ==
    IF text = Rien THEN {} ELSE IF text = Debut THEN Ouvrages[mode] ELSE Ouvrages[mode] \cap {text}

Options ==
    IF dashboard = "referentiel" /\ form.mode = "scl" THEN Ouvrages["scl"]
    ELSE IF debounced[form.mode] = Rien THEN {} ELSE Matching(form.mode, offered[form.mode])

Searching(mode) == debounced[mode] # Rien /\ offered[mode] # debounced[mode]

----
(* Steps of the user *)

FormOf(mode, year) == [mode |-> mode, site |-> Rien, point |-> Rien, year |-> year, sort |-> InitialSort]

NoSearch == [m \in Modes |-> Rien]

\* A shared address gives the filters and the page of the dashboard of the bilans.
FirstForm ==
    \/ form = FormOf("steu", CHOOSE y \in Annees : TRUE)
    \/ /\ dashboard = "bilan"
       /\ \E m \in Modes, y \in Annees : \E s \in Ouvrages[m] :
          \E p \in {Rien} \cup IF m = "scl" THEN PointsDe[s] ELSE {} :
            form = [FormOf(m, y) EXCEPT !.site = s, !.point = p]

TableauInit ==
    /\ dashboard \in Dashboards_ /\ FirstForm
    /\ submitted = FormOf("steu", form.year)
    /\ hasSearched = FALSE /\ showGraph = FALSE
    /\ pageNumber \in 1 .. IF form.site = Rien THEN 1 ELSE 2
    /\ field = "closed" /\ search = NoSearch /\ debounced = NoSearch /\ offered = NoSearch
    /\ underway = IF form.site = Rien THEN {} ELSE {[key |-> Key, sent |-> Demande]}
    /\ store = [k \in {} |-> k] /\ failed = {}
    /\ kept = NoSearch /\ exporting = NoSearch
    /\ edits = (IF form.site = Rien THEN 0 ELSE Shared) /\ looks = 0

\* An action of the user, and what it leaves of the dashboard.
Count == edits < MaxEdits /\ edits' = edits + 1 /\ UNCHANGED looks
Edit == Count /\ UNCHANGED <<dashboard, debounced, offered, store, exporting>>

\* An action in the field alone.
Look ==
    UNCHANGED <<dashboard, form, submitted, hasSearched, pageNumber, showGraph, debounced, offered, store, exporting, edits>>
LookAgain == Look /\ looks < MaxLooks /\ looks' = looks + 1

\* A dashboard without a button goes back to its first page at every change of a filter.
FirstPage == pageNumber' = IF dashboard \in WithButton THEN pageNumber ELSE 1

Filter(new) == form' = new /\ FirstPage /\ UNCHANGED <<submitted, hasSearched, showGraph>>

\* Mutant: another type of site keeps the site chosen.
UpdateMode_KeepSite ==
    /\ Edit
    /\ \E mode \in Modes \ {form.mode} :
         Filter([FormOf(mode, form.year) EXCEPT !.site = form.site])
    /\ search' = NoSearch /\ UNCHANGED field
\* updateMode, updateOuvrageType: a site of the other type; the dashboard of the
\* transmissions keeps the sort of the type it leaves.
UpdateMode ==
    /\ Edit
    /\ \E mode \in Modes \ {form.mode} :
         Filter([FormOf(mode, form.year) EXCEPT !.sort = IF dashboard = "transmission" THEN form.sort ELSE Rien])
    /\ search' = NoSearch /\ UNCHANGED field

Site(s) ==
    /\ Filter([form EXCEPT !.site = s, !.point = Rien])
    /\ search' = IF dashboard = "mesures" THEN [NoSearch EXCEPT ![form.mode] = s] ELSE [search EXCEPT ![form.mode] = s]

\* Two dashboards refuse a choice while the options are being fetched.
SelectOption ==
    /\ Edit
    /\ field # "closed"
    /\ dashboard \in {"mesures", "bilan"} => ~Searching(form.mode)
    /\ \E s \in Options : Site(s)
    /\ field' = "closed"

HandleClear == Edit /\ form.site # Rien /\ Site(Rien) /\ field' = "closed"

HandleInputChange ==
    /\ field' = "typing"
    /\ \/ Edit /\ Site(Rien)
       \/ LookAgain /\ search' = [search EXCEPT ![form.mode] = Debut]

HandleToggleDropdown ==
    /\ LookAgain
    /\ field' = IF field = "closed" THEN "open" ELSE "closed"
    /\ UNCHANGED search

\* A text that chose nothing is erased when the field is left.
HandleBlur ==
    /\ field # "closed" /\ field' = "closed"
    /\ IF field = "typing" /\ form.site = Rien THEN Edit /\ Site(Rien) ELSE Look /\ UNCHANGED <<search, looks>>

UpdateYear ==
    /\ Edit
    /\ \E y \in Annees \cup IF dashboard \in WithButton THEN {SansDates} ELSE {} :
         y # form.year /\ Filter([form EXCEPT !.year = y])
    /\ UNCHANGED <<field, search>>

UpdatePoint ==
    /\ Edit
    /\ dashboard = "mesures" \/ (dashboard \in {"bilan", "evenement"} /\ form.mode = "scl")
    /\ form.site # Rien
    /\ \E p \in {Rien} \cup PointsDe[form.site] : p # form.point /\ Filter([form EXCEPT !.point = p])
    /\ UNCHANGED <<field, search>>

\* A heading of the table: it also changes the search that was applied.
SetSort ==
    /\ Edit
    /\ TableVisible
    /\ \E c \in Columns(form.mode) :
         /\ form' = [form EXCEPT !.sort = c]
         /\ submitted' = IF dashboard \in WithButton THEN [submitted EXCEPT !.sort = c] ELSE submitted
    /\ pageNumber' = 1
    /\ UNCHANGED <<hasSearched, showGraph, field, search>>

HandleSearch ==
    /\ Edit
    /\ dashboard \in WithButton
    /\ form.site # Rien
    /\ dashboard = "mesures" => form.year # SansDates
    /\ showGraph => form.point # Rien
    /\ submitted' = form /\ hasSearched' = TRUE /\ pageNumber' = 1
    /\ UNCHANGED <<form, showGraph, field, search>>

\* The links to the pages are those of the rows shown, which may be the previous ones.
SetPage ==
    /\ Edit
    /\ TableVisible /\ dashboard # "referentiel" /\ TotalPages > 1
    /\ pageNumber' \in 1 .. TotalPages
    /\ UNCHANGED <<form, submitted, hasSearched, showGraph, field, search>>

HandleToggleGraph ==
    /\ Edit
    /\ dashboard = "mesures" /\ ~IsLoading /\ Key \notin failed
    /\ showGraph \/ (hasSearched /\ submitted.point # Rien)
    /\ showGraph' = ~showGraph
    /\ UNCHANGED <<form, submitted, hasSearched, pageNumber, field, search>>

Choose ==
    \/ UpdateMode \/ SelectOption \/ HandleClear \/ HandleInputChange \/ HandleToggleDropdown \/ HandleBlur
    \/ UpdateYear \/ UpdatePoint \/ SetSort \/ HandleSearch \/ SetPage \/ HandleToggleGraph

----
(* The export *)

CanExport ==
    /\ dashboard # "referentiel" /\ TableVisible
    /\ dashboard = "mesures" => hasSearched
    /\ ~IsFetching /\ TotalPages > 0

pageVars == <<dashboard, form, submitted, hasSearched, pageNumber, showGraph, field, search, debounced, offered, store>>

Download ==
    /\ Count
    /\ CanExport /\ exporting[Observer] = Rien
    /\ exporting' = [exporting EXCEPT ![Observer] = [asked |-> Demande, shown |-> Shown_]]
    /\ UNCHANGED pageVars

DownloadEnds ==
    /\ \E o \in Modes : exporting[o] # Rien /\ exporting' = [exporting EXCEPT ![o] = Rien]
    /\ UNCHANGED <<pageVars, edits, looks>>

----
(* Answers *)

userVars == <<dashboard, form, submitted, hasSearched, pageNumber, showGraph, field, search, exporting, edits, looks>>

\* The text rests for 300 ms.
Debounce ==
    /\ \E m \in Modes : search[m] # debounced[m] /\ debounced' = [debounced EXCEPT ![m] = search[m]]
    /\ UNCHANGED <<userVars, offered, store>>

OptionsArrive ==
    /\ \E m \in Modes : Searching(m) /\ offered' = [offered EXCEPT ![m] = debounced[m]]
    /\ UNCHANGED <<userVars, debounced, store>>

\* A query asked for starts unless the same one is under way; the answers arrive in any order.
Fetch ==
    /\ failed' = failed \ IF Watched' # Watched THEN {Key'} ELSE {}
    /\ underway' = IF Watched' \in {<<>>, Watched} \/ (\E p \in underway : p.key = Key') THEN underway
                  ELSE underway \cup {[key |-> Key', sent |-> Demande']}

RowsArrive ==
    /\ \E p \in underway :
         /\ ~Refused(p.sent)
         /\ underway' = underway \ {p} /\ store' = [k \in DOMAIN store \cup {p.key} |-> IF k = p.key THEN p.sent ELSE store[k]]
         /\ failed' = failed \ {p.key}
    /\ UNCHANGED <<userVars, debounced, offered>>

RowsFail ==
    /\ \E p \in underway :
         /\ Refused(p.sent) \/ Cardinality(failed) < MaxFailed
         /\ underway' = underway \ {p} /\ failed' = failed \cup {p.key}
    /\ UNCHANGED <<userVars, debounced, offered, store>>

\* placeholderData: keepPreviousData, for the observer that watches the key.
Keep_ == kept' = IF Key' \in DOMAIN store' THEN [kept EXCEPT ![Observer'] = store'[Key']] ELSE kept

TableauNext ==
    /\ \/ Choose /\ Fetch
       \/ Debounce /\ UNCHANGED <<underway, failed>>
       \/ OptionsArrive /\ UNCHANGED <<underway, failed>>
       \/ Download /\ UNCHANGED <<underway, failed>>
       \/ DownloadEnds /\ UNCHANGED <<underway, failed>>
       \/ RowsArrive
       \/ RowsFail
    /\ Keep_

TableauSpec == TableauInit /\ [][TableauNext]_tableauVars

----
\* Rows that are not marked as being refreshed are the answer to the filters, the sort and
\* the page applied, whatever was asked before and in whatever order the answers came
\* (useConformite.ts, useMesures.ts: queryKey, enabled, keepPreviousData).
TableAsAsked ==
    TableVisible /\ ~IsFetching /\ Shown_ # Rien => Shown_ = Demande

\* No query asks for a site of the other type, for a point of another site, or, but for the
\* transmissions, for a sort by a column the list does not have (updateMode, handleOuvrageChange).
QueryOfChoice ==
    \A p \in underway :
      LET f == p.sent.filters IN
      /\ f.site \in Ouvrages[f.mode]
      /\ f.point \in {Rien} \cup PointsDe[f.site]
      /\ dashboard # "transmission" => f.sort \in {Rien, "common", f.mode}

\* The export asks for what the table showed when it was clicked (canExport).
ExportAsShown == \A o \in Modes : exporting[o] # Rien => exporting[o].asked = exporting[o].shown

\* What a dashboard shows and exports is what its filters say.
TableauFaithful == TableAsAsked /\ QueryOfChoice /\ ExportAsShown
====
