--------------------------- MODULE Tableau_proofs --------------------------
(***************************************************************************)
(* Proofs about a dashboard in the browser, for every set of sites, points *)
(* and years, and without the bounds on what the user does: the rows shown *)
(* and exported are those of the filters, and no query mixes the filters   *)
(* of two sites.                                                           *)
(***************************************************************************)
EXTENDS Tableau, TLAPS

----------------------------------------------------------------------------
(* The inductive invariant *)

IsForm(f) ==
    /\ f = [mode |-> f.mode, site |-> f.site, point |-> f.point, year |-> f.year, sort |-> f.sort]
    /\ f.mode \in Modes

\* The site is of the type chosen, the point is of the site, and the sort is by a column
\* of the list.
Coherent(f) ==
    /\ IF f.site = Rien THEN f.point = Rien
       ELSE f.site \in Ouvrages[f.mode] /\ f.point \in {Rien} \cup PointsDe[f.site]
    /\ dashboard # "transmission" => f.sort \in {Rien, "common", f.mode}

\* The filters, those of the form and those that were applied with the button.
FormsOK ==
    /\ dashboard \in Dashboards_
    /\ IsForm(form) /\ Coherent(form)
    /\ IsForm(submitted) /\ Coherent(submitted)
    /\ hasSearched \in BOOLEAN
    /\ hasSearched <=> submitted.site # Rien

\* A query under way asks for a site, and its key is the whole of it.
Asked ==
    \A p \in underway : p.key = p.sent /\ p.sent.filters.site # Rien /\ Coherent(p.sent.filters)

\* An answer is kept under the query it answers.
Stored == \A k \in DOMAIN store : store[k] = k /\ k.filters.site # Rien

\* Nothing was ever shown by a dashboard whose button was not used.
NothingKept ==
    /\ DOMAIN kept = Modes
    /\ dashboard \in WithButton /\ ~hasSearched => kept = NoSearch

\* What is watched was answered, or failed, or is under way.
LookedAfter == Enabled_ => Key \in DOMAIN store \/ Key \in failed \/ IsFetching

TableauInv ==
    /\ FormsOK
    /\ Asked
    /\ Stored
    /\ NothingKept
    /\ LookedAfter
    /\ DOMAIN exporting = Modes /\ ExportAsShown

----------------------------------------------------------------------------
(* The filters *)

LEMMA FilterForms ==
    ASSUME FormsOK, NEW new, IsForm(new), Coherent(new), Filter(new), UNCHANGED dashboard
    PROVE  FormsOK'
<1>1. form' = new /\ UNCHANGED <<submitted, hasSearched, dashboard>> BY DEF Filter
<1> QED BY <1>1 DEF FormsOK, IsForm, Coherent

LEMMA SiteForms ==
    ASSUME FormsOK, NEW s \in Ouvrages[form.mode] \cup {Rien}, Site(s), UNCHANGED dashboard
    PROVE  FormsOK'
<1> DEFINE new == [form EXCEPT !.site = s, !.point = Rien]
<1>1. new = [mode |-> form.mode, site |-> s, point |-> Rien, year |-> form.year, sort |-> form.sort]
  <2> DEFINE one == [form EXCEPT !.site = s]
  <2>1. one = [mode |-> form.mode, site |-> s, point |-> form.point, year |-> form.year, sort |-> form.sort]
    BY DEF FormsOK, IsForm
  <2>2. new = [one EXCEPT !.point = Rien] OBVIOUS
  <2> HIDE DEF one, new
  <2> QED BY <2>1, <2>2
<1>2. IsForm(new) BY <1>1 DEF FormsOK, IsForm
<1>3. Coherent(new) BY <1>1 DEF FormsOK, Coherent
<1>4. Filter(new) BY DEF Site
<1> HIDE DEF new
<1> QED BY <1>2, <1>3, <1>4, FilterForms

\* The options offered are sites of the type chosen.
LEMMA OptionsOfMode == FormsOK => Options \subseteq Ouvrages[form.mode]
BY DEF FormsOK, IsForm, Options, Matching, Modes

LEMMA ModeForms == ASSUME FormsOK, UpdateMode PROVE FormsOK'
<1>1. PICK mode \in Modes \ {form.mode} :
         Filter([FormOf(mode, form.year) EXCEPT !.sort = IF dashboard = "transmission" THEN form.sort ELSE Rien])
  BY DEF UpdateMode
<1> DEFINE new == [FormOf(mode, form.year) EXCEPT !.sort = IF dashboard = "transmission" THEN form.sort ELSE Rien]
<1>2. new = [mode |-> mode, site |-> Rien, point |-> Rien, year |-> form.year,
             sort |-> IF dashboard = "transmission" THEN form.sort ELSE Rien]
  BY DEF FormOf
<1>3. IsForm(new) BY <1>2 DEF IsForm
<1>4. Coherent(new) BY <1>2 DEF Coherent
<1>5. Filter(new) BY <1>1
<1>6. UNCHANGED dashboard BY DEF UpdateMode, Edit
<1> HIDE DEF new
<1> QED BY <1>3, <1>4, <1>5, <1>6, FilterForms

LEMMA YearForms == ASSUME FormsOK, UpdateYear PROVE FormsOK'
<1>1. PICK y : Filter([form EXCEPT !.year = y]) BY DEF UpdateYear
<1> DEFINE new == [form EXCEPT !.year = y]
<1>2. new = [mode |-> form.mode, site |-> form.site, point |-> form.point, year |-> y, sort |-> form.sort]
  BY DEF FormsOK, IsForm
<1>3. IsForm(new) BY <1>2 DEF FormsOK, IsForm
<1>4. Coherent(new) BY <1>2 DEF FormsOK, Coherent
<1>5. Filter(new) /\ UNCHANGED dashboard BY <1>1 DEF UpdateYear, Edit
<1> HIDE DEF new
<1> QED BY <1>3, <1>4, <1>5, FilterForms

LEMMA PointForms == ASSUME FormsOK, UpdatePoint PROVE FormsOK'
<1>1. PICK p \in {Rien} \cup PointsDe[form.site] : Filter([form EXCEPT !.point = p]) BY DEF UpdatePoint
<1>2. form.site # Rien /\ UNCHANGED dashboard BY DEF UpdatePoint, Edit
<1> DEFINE new == [form EXCEPT !.point = p]
<1>3. new = [mode |-> form.mode, site |-> form.site, point |-> p, year |-> form.year, sort |-> form.sort]
  BY DEF FormsOK, IsForm
<1>4. IsForm(new) BY <1>3 DEF FormsOK, IsForm
<1>5. Coherent(new) BY <1>2, <1>3 DEF FormsOK, Coherent
<1>6. Filter(new) BY <1>1
<1> HIDE DEF new
<1> QED BY <1>2, <1>4, <1>5, <1>6, FilterForms

LEMMA SortForms == ASSUME FormsOK, SetSort PROVE FormsOK'
<1>1. PICK c \in Columns(form.mode) :
         /\ form' = [form EXCEPT !.sort = c]
         /\ submitted' = IF dashboard \in WithButton THEN [submitted EXCEPT !.sort = c] ELSE submitted
  BY DEF SetSort
<1>2. UNCHANGED <<dashboard, hasSearched>> BY DEF SetSort, Edit
<1>3. c \in {"common", form.mode} BY DEF Columns
<1>4. dashboard \in WithButton => c = "common" BY DEF Columns, WithButton
<1>5. form' = [mode |-> form.mode, site |-> form.site, point |-> form.point, year |-> form.year, sort |-> c]
  BY <1>1 DEF FormsOK, IsForm
<1>6. submitted' = IF dashboard \in WithButton
                   THEN [mode |-> submitted.mode, site |-> submitted.site, point |-> submitted.point,
                         year |-> submitted.year, sort |-> c]
                   ELSE submitted
  BY <1>1 DEF FormsOK, IsForm
<1>7. IsForm(form)' /\ Coherent(form)' BY <1>2, <1>3, <1>5 DEF FormsOK, IsForm, Coherent
<1>8. IsForm(submitted)' /\ Coherent(submitted)' /\ submitted'.site = submitted.site
  BY <1>2, <1>4, <1>6 DEF FormsOK, IsForm, Coherent
<1> QED BY <1>2, <1>7, <1>8 DEF FormsOK

\* Whatever the user does, the filters stay those of one site.
LEMMA ChooseForms == ASSUME FormsOK, Choose PROVE FormsOK' /\ UNCHANGED <<dashboard, store, exporting>> /\ (hasSearched => hasSearched')
<1>1. CASE UpdateMode BY <1>1, ModeForms DEF UpdateMode, Edit, Filter
<1>2. CASE SelectOption
  <2>1. PICK s \in Options : Site(s) BY <1>2 DEF SelectOption
  <2>2. UNCHANGED <<dashboard, store, exporting>> BY <1>2 DEF SelectOption, Edit
  <2> QED BY <2>1, <2>2, OptionsOfMode, SiteForms DEF Site, Filter
<1>3. CASE HandleClear BY <1>3, SiteForms DEF HandleClear, Edit, Site, Filter
<1>4. CASE HandleInputChange
  <2>1. CASE Edit /\ Site(Rien) BY <2>1, SiteForms DEF Edit, Site, Filter
  <2>2. CASE LookAgain BY <2>2 DEF LookAgain, Look, FormsOK, IsForm, Coherent
  <2> QED BY <1>4, <2>1, <2>2 DEF HandleInputChange
<1>5. CASE HandleToggleDropdown BY <1>5 DEF HandleToggleDropdown, LookAgain, Look, FormsOK, IsForm, Coherent
<1>6. CASE HandleBlur
  <2>1. CASE Edit /\ Site(Rien) BY <2>1, SiteForms DEF Edit, Site, Filter
  <2>2. CASE Look BY <2>2 DEF Look, FormsOK, IsForm, Coherent
  <2> QED BY <1>6, <2>1, <2>2 DEF HandleBlur
<1>7. CASE UpdateYear BY <1>7, YearForms DEF UpdateYear, Edit, Filter
<1>8. CASE UpdatePoint BY <1>8, PointForms DEF UpdatePoint, Edit, Filter
<1>9. CASE SetSort BY <1>9, SortForms DEF SetSort, Edit
<1>10. CASE HandleSearch
  BY <1>10 DEF HandleSearch, Edit, FormsOK, IsForm, Coherent
<1>11. CASE SetPage BY <1>11 DEF SetPage, Edit, FormsOK, IsForm, Coherent
<1>12. CASE HandleToggleGraph BY <1>12 DEF HandleToggleGraph, Edit, FormsOK, IsForm, Coherent
<1> QED BY <1>1, <1>2, <1>3, <1>4, <1>5, <1>6, <1>7, <1>8, <1>9, <1>10, <1>11, <1>12 DEF Choose

----------------------------------------------------------------------------
(* What is watched, answered and kept *)

\* Before the button is used nothing can be kept: an answer is of a site.
LEMMA KeptStep ==
    ASSUME NothingKept, FormsOK', Stored', Keep_, UNCHANGED dashboard, hasSearched => hasSearched'
    PROVE  NothingKept'
<1>1. DOMAIN kept' = Modes BY DEF Keep_, NothingKept
<1>2. ASSUME dashboard' \in WithButton, ~hasSearched' PROVE kept' = NoSearch
  <2>1. kept = NoSearch BY <1>2 DEF NothingKept
  <2>2. Key'.filters = submitted' BY <1>2 DEF Key, Demande, Applied
  <2>3. submitted'.site = Rien BY <1>2 DEF FormsOK
  <2>4. Key' \notin DOMAIN store' BY <2>2, <2>3 DEF Stored
  <2> QED BY <2>1, <2>4 DEF Keep_
<1> QED BY <1>1, <1>2 DEF NothingKept

\* What a dashboard asks for is a site.
LEMMA WatchedThen ==
    FormsOK' => Coherent(Demande.filters)' /\ (Enabled_' => Demande'.filters.site # Rien)
BY DEF FormsOK, Demande, Applied, Enabled_, WithButton

LEMMA PairIsNotEmpty == \A a, b : <<a, b>> # <<>>
<1> SUFFICES ASSUME NEW a, NEW b, <<a, b>> = <<>> PROVE FALSE OBVIOUS
<1>1. DOMAIN <<a, b>> = 1 .. 2 /\ DOMAIN <<>> = {} OBVIOUS
<1> QED BY <1>1

\* A query that is watched is under way, answered or failed; a new one is under way.
LEMMA FetchLooksAfter ==
    ASSUME LookedAfter, Fetch, UNCHANGED store
    PROVE  LookedAfter'
<1> SUFFICES ASSUME Enabled_' PROVE (Key \in DOMAIN store \/ Key \in failed \/ IsFetching)'
  BY DEF LookedAfter
<1>1. Watched' = <<Observer', Key'>> /\ Watched' # <<>> BY PairIsNotEmpty DEF Watched
<1>2. CASE Watched' = Watched
  <2>1. Enabled_ /\ Key' = Key BY <1>1, <1>2 DEF Watched
  <2>2. failed' = failed /\ underway' = underway BY <1>2 DEF Fetch
  <2> QED BY <2>1, <2>2 DEF LookedAfter, IsFetching
<1>3. CASE Watched' # Watched
  <2>1. CASE \E p \in underway : p.key = Key'
    <3>1. underway \subseteq underway' BY DEF Fetch
    <3> QED BY <2>1, <3>1 DEF IsFetching
  <2>2. CASE ~\E p \in underway : p.key = Key'
    <3>1. [key |-> Key', sent |-> Demande'] \in underway' BY <1>1, <1>3, <2>2 DEF Fetch
    <3> QED BY <3>1 DEF IsFetching
  <2> QED BY <2>1, <2>2
<1> QED BY <1>2, <1>3

LEMMA FetchAsks ==
    ASSUME Asked, FormsOK', Fetch, UNCHANGED dashboard
    PROVE  Asked'
<1>1. CASE underway' = underway BY <1>1 DEF Asked, Coherent
<1>2. CASE Watched' # <<>> /\ underway' = underway \cup {[key |-> Key', sent |-> Demande']}
  <2>1. Enabled_' BY <1>2 DEF Watched
  <2>2. Coherent(Demande.filters)' /\ Demande'.filters.site # Rien BY <2>1, WatchedThen
  <2>3. \A p \in underway' \ underway : p.key = p.sent /\ p.sent = Demande' BY <1>2 DEF Key
  <2> QED BY <1>2, <2>2, <2>3 DEF Asked, Coherent
<1> QED BY <1>1, <1>2 DEF Fetch

LEMMA StepChoose ==
    ASSUME TableauInv, Choose, Fetch, Keep_
    PROVE  TableauInv'
<1>1. FormsOK' /\ UNCHANGED <<dashboard, store, exporting>> /\ (hasSearched => hasSearched')
  BY ChooseForms DEF TableauInv
<1>2. Asked' BY <1>1, FetchAsks DEF TableauInv
<1>3. Stored' BY <1>1 DEF TableauInv, Stored
<1>4. NothingKept' BY <1>1, <1>3, KeptStep DEF TableauInv
<1>5. LookedAfter' BY <1>1, FetchLooksAfter DEF TableauInv
<1>6. (DOMAIN exporting = Modes /\ ExportAsShown)' BY <1>1 DEF TableauInv, ExportAsShown
<1> QED BY <1>1, <1>2, <1>3, <1>4, <1>5, <1>6 DEF TableauInv

\* Nothing else changes what is asked for.
LEMMA Waiting ==
    ASSUME FormsOK, UNCHANGED <<dashboard, form, submitted, hasSearched, pageNumber, showGraph>>
    PROVE  FormsOK' /\ Demande' = Demande /\ Key' = Key /\ Observer' = Observer /\ (Enabled_ <=> Enabled_')
BY DEF FormsOK, IsForm, Coherent, Demande, Applied, Key, Observer, Enabled_

\* The answer of a query is kept under its key.
LEMMA StepArrive ==
    ASSUME TableauInv, RowsArrive, Keep_
    PROVE  TableauInv'
<1>1. PICK p \in underway :
        /\ underway' = underway \ {p}
        /\ store' = [k \in DOMAIN store \cup {p.key} |-> IF k = p.key THEN p.sent ELSE store[k]]
        /\ failed' = failed \ {p.key}
  BY DEF RowsArrive
<1>2. UNCHANGED <<dashboard, form, submitted, hasSearched, pageNumber, showGraph, exporting>>
  BY DEF RowsArrive, userVars
<1>3. FormsOK' /\ Key' = Key /\ (Enabled_ <=> Enabled_') BY <1>2, Waiting DEF TableauInv
<1>4. Asked' BY <1>1, <1>2 DEF TableauInv, Asked, Coherent
<1>5. Stored' BY <1>1 DEF TableauInv, Stored, Asked
<1>6. NothingKept' BY <1>2, <1>3, <1>5, KeptStep DEF TableauInv
<1>7. LookedAfter' BY <1>1, <1>3 DEF TableauInv, LookedAfter, IsFetching
<1>8. (DOMAIN exporting = Modes /\ ExportAsShown)' BY <1>2 DEF TableauInv, ExportAsShown
<1> QED BY <1>3, <1>4, <1>5, <1>6, <1>7, <1>8 DEF TableauInv

\* A query that failed is no longer awaited.
LEMMA StepFail ==
    ASSUME TableauInv, RowsFail, Keep_
    PROVE  TableauInv'
<1>1. PICK p \in underway : underway' = underway \ {p} /\ failed' = failed \cup {p.key}
  BY DEF RowsFail
<1>2. UNCHANGED <<dashboard, form, submitted, hasSearched, pageNumber, showGraph, exporting, store>>
  BY DEF RowsFail, userVars
<1>3. FormsOK' /\ Key' = Key /\ (Enabled_ <=> Enabled_') BY <1>2, Waiting DEF TableauInv
<1>4. Asked' BY <1>1, <1>2 DEF TableauInv, Asked, Coherent
<1>5. Stored' BY <1>2 DEF TableauInv, Stored
<1>6. NothingKept' BY <1>2, <1>3, <1>5, KeptStep DEF TableauInv
<1>7. LookedAfter' BY <1>1, <1>2, <1>3 DEF TableauInv, LookedAfter, IsFetching
<1>8. (DOMAIN exporting = Modes /\ ExportAsShown)' BY <1>2 DEF TableauInv, ExportAsShown
<1> QED BY <1>3, <1>4, <1>5, <1>6, <1>7, <1>8 DEF TableauInv

----------------------------------------------------------------------------
(* What is shown *)

\* Rows that are shown and awaited by nobody are those asked for: before the button is
\* used there are none, and afterwards what is watched was looked after.
LEMMA ShownIsAsked == TableauInv => TableAsAsked
<1> SUFFICES ASSUME TableauInv, TableVisible, ~IsFetching, Shown_ # Rien PROVE Shown_ = Demande
  BY DEF TableAsAsked
<1>1. CASE Key \in DOMAIN store BY <1>1 DEF TableauInv, Stored, Shown_, Key
<1>2. CASE Key \notin DOMAIN store
  <2>1. Key \notin failed /\ kept[Observer] # Rien BY <1>2 DEF Shown_
  <2>2. ~Enabled_ BY <1>2, <2>1 DEF TableauInv, LookedAfter
  <2>3. dashboard \in WithButton /\ ~hasSearched
    BY <2>2 DEF Enabled_, TableVisible, TableauInv, FormsOK, Dashboards_, WithButton
  <2>4. kept = NoSearch BY <2>3 DEF TableauInv, NothingKept
  <2>5. Observer \in Modes BY <2>3 DEF Observer, Modes
  <2> QED BY <2>1, <2>4, <2>5 DEF NoSearch
<1> QED BY <1>1, <1>2

\* What can be exported is what is shown.
LEMMA StepDownload ==
    ASSUME TableauInv, Download, UNCHANGED <<underway, failed>>, Keep_
    PROVE  TableauInv'
<1>1. UNCHANGED <<dashboard, form, submitted, hasSearched, pageNumber, showGraph, store>>
  BY DEF Download, pageVars
<1>2. FormsOK' /\ Key' = Key /\ (Enabled_ <=> Enabled_') BY <1>1, Waiting DEF TableauInv
<1>3. Asked' BY <1>1 DEF TableauInv, Asked, Coherent
<1>4. Stored' BY <1>1 DEF TableauInv, Stored
<1>5. NothingKept' BY <1>1, <1>2, <1>4, KeptStep DEF TableauInv
<1>6. LookedAfter' BY <1>1, <1>2 DEF TableauInv, LookedAfter, IsFetching
<1>7. (DOMAIN exporting = Modes /\ ExportAsShown)'
  <2>1. exporting' = [exporting EXCEPT ![Observer] = [asked |-> Demande, shown |-> Shown_]] BY DEF Download
  <2>2. TableVisible /\ ~IsFetching /\ Shown_ # Rien BY DEF Download, CanExport, TotalPages
  <2>3. Shown_ = Demande BY <2>2, ShownIsAsked DEF TableAsAsked
  <2> QED BY <2>1, <2>3 DEF TableauInv, ExportAsShown
<1> QED BY <1>2, <1>3, <1>4, <1>5, <1>6, <1>7 DEF TableauInv

\* What is left of the page by a step that is not the user's on the filters.
LEMMA StepAside ==
    ASSUME TableauInv, UNCHANGED <<pageVars, underway, failed>> \/ ((Debounce \/ OptionsArrive) /\ UNCHANGED <<underway, failed>>),
           Keep_, UNCHANGED exporting \/ DownloadEnds
    PROVE  TableauInv'
<1>1. UNCHANGED <<dashboard, form, submitted, hasSearched, pageNumber, showGraph, store, underway, failed>>
  BY DEF pageVars, Debounce, OptionsArrive, userVars
<1>2. FormsOK' /\ Key' = Key /\ (Enabled_ <=> Enabled_') BY <1>1, Waiting DEF TableauInv
<1>3. Asked' BY <1>1 DEF TableauInv, Asked, Coherent
<1>4. Stored' BY <1>1 DEF TableauInv, Stored
<1>5. NothingKept' BY <1>1, <1>2, <1>4, KeptStep DEF TableauInv
<1>6. LookedAfter' BY <1>1, <1>2 DEF TableauInv, LookedAfter, IsFetching
<1>7. (DOMAIN exporting = Modes /\ ExportAsShown)' BY DEF TableauInv, ExportAsShown, DownloadEnds
<1> QED BY <1>2, <1>3, <1>4, <1>5, <1>6, <1>7 DEF TableauInv

----------------------------------------------------------------------------
(* The theorem *)

\* A shared address is that of one site; without it nothing is chosen.
LEMMA InitialForm ==
    ASSUME TableauInit
    PROVE  FormsOK /\ (form.site # Rien => dashboard = "bilan")
<1>1. dashboard \in Dashboards_ /\ hasSearched = FALSE BY DEF TableauInit
<1>2. submitted = [mode |-> "steu", site |-> Rien, point |-> Rien, year |-> form.year, sort |-> InitialSort]
  BY DEF TableauInit, FormOf
<1>3. IsForm(submitted) /\ Coherent(submitted) /\ submitted.site = Rien
  BY <1>2 DEF IsForm, Coherent, Modes, InitialSort
<1>4. CASE \E y : form = FormOf("steu", y)
  <2>1. PICK y : form = [mode |-> "steu", site |-> Rien, point |-> Rien, year |-> y, sort |-> InitialSort]
    BY <1>4 DEF FormOf
  <2>2. IsForm(form) /\ Coherent(form) /\ form.site = Rien BY <2>1 DEF IsForm, Coherent, Modes, InitialSort
  <2> QED BY <1>1, <1>3, <2>2 DEF FormsOK
<1>5. CASE dashboard = "bilan" /\ \E m \in Modes, y \in Annees : \E s \in Ouvrages[m] :
             \E p \in {Rien} \cup IF m = "scl" THEN PointsDe[s] ELSE {} :
               form = [FormOf(m, y) EXCEPT !.site = s, !.point = p]
  <2>1. PICK m \in Modes, y \in Annees : \E s \in Ouvrages[m] :
          \E p \in {Rien} \cup PointsDe[s] : form = [FormOf(m, y) EXCEPT !.site = s, !.point = p]
    BY <1>5
  <2>2. PICK s \in Ouvrages[m] :
          \E p \in {Rien} \cup PointsDe[s] : form = [FormOf(m, y) EXCEPT !.site = s, !.point = p]
    BY <2>1
  <2>3. PICK p \in {Rien} \cup PointsDe[s] : form = [FormOf(m, y) EXCEPT !.site = s, !.point = p]
    BY <2>2
  <2>4. form = [mode |-> m, site |-> s, point |-> p, year |-> y, sort |-> InitialSort]
    <3> DEFINE one == [FormOf(m, y) EXCEPT !.site = s]
    <3>1. one = [mode |-> m, site |-> s, point |-> Rien, year |-> y, sort |-> InitialSort] BY DEF FormOf
    <3>2. form = [one EXCEPT !.point = p] BY <2>3
    <3> HIDE DEF one
    <3> QED BY <3>1, <3>2
  <2>5. s # Rien BY TableauAssumption
  <2>6. IsForm(form) BY <2>4 DEF IsForm
  <2>7. Coherent(form) BY <1>5, <2>4, <2>5 DEF Coherent, InitialSort
  <2> QED BY <1>1, <1>3, <1>5, <2>6, <2>7 DEF FormsOK
<1> QED BY <1>4, <1>5 DEF TableauInit, FirstForm

LEMMA InvTableauInit == TableauInit => TableauInv
<1> SUFFICES ASSUME TableauInit PROVE TableauInv OBVIOUS
<1>1. FormsOK /\ (form.site # Rien => dashboard = "bilan") BY InitialForm
<1>2. underway = (IF form.site = Rien THEN {} ELSE {[key |-> Key, sent |-> Demande]}) /\ ~hasSearched
      /\ store = [k \in {} |-> k] /\ kept = NoSearch /\ exporting = NoSearch
  BY DEF TableauInit
<1>3. form.site # Rien => Demande.filters = form BY <1>1 DEF Demande, Applied, WithButton
<1>4. Asked BY <1>1, <1>2, <1>3 DEF Asked, Key, FormsOK
<1>5. Stored BY <1>2 DEF Stored
<1>6. NothingKept BY <1>2 DEF NothingKept, NoSearch
<1>7. LookedAfter BY <1>2 DEF LookedAfter, Enabled_, IsFetching
<1>8. DOMAIN exporting = Modes /\ ExportAsShown BY <1>2 DEF ExportAsShown, NoSearch
<1> QED BY <1>1, <1>4, <1>5, <1>6, <1>7, <1>8 DEF TableauInv

LEMMA InvTableauStep == TableauInv /\ [TableauNext]_tableauVars => TableauInv'
<1> SUFFICES ASSUME TableauInv, [TableauNext]_tableauVars PROVE TableauInv' OBVIOUS
<1>1. CASE UNCHANGED tableauVars
  BY <1>1 DEF tableauVars, TableauInv, FormsOK, IsForm, Coherent, Asked, Stored, NothingKept, LookedAfter,
              Enabled_, Key, Demande, Applied, IsFetching, ExportAsShown
<1>2. CASE Choose /\ Fetch /\ Keep_ BY <1>2, StepChoose
<1>3. CASE Debounce /\ UNCHANGED <<underway, failed>> /\ Keep_
  <2>1. UNCHANGED exporting BY <1>3 DEF Debounce, userVars
  <2> QED BY <1>3, <2>1, StepAside
<1>4. CASE OptionsArrive /\ UNCHANGED <<underway, failed>> /\ Keep_
  <2>1. UNCHANGED exporting BY <1>4 DEF OptionsArrive, userVars
  <2> QED BY <1>4, <2>1, StepAside
<1>5. CASE Download /\ UNCHANGED <<underway, failed>> /\ Keep_ BY <1>5, StepDownload
<1>6. CASE DownloadEnds /\ UNCHANGED <<underway, failed>> /\ Keep_
  <2>1. UNCHANGED pageVars BY <1>6 DEF DownloadEnds
  <2> QED BY <1>6, <2>1, StepAside
<1>7. CASE RowsArrive /\ Keep_ BY <1>7, StepArrive
<1>8. CASE RowsFail /\ Keep_ BY <1>8, StepFail
<1> QED BY <1>1, <1>2, <1>3, <1>4, <1>5, <1>6, <1>7, <1>8 DEF TableauNext

LEMMA QueriesOfChoice == TableauInv => QueryOfChoice
BY DEF TableauInv, Asked, Coherent, QueryOfChoice

\* Whatever the user does and in whatever order the answers come, rows that are not being
\* refreshed are those of the filters, the sort and the page applied, no query mixes two
\* sites, and what is exported is what was shown (useConformite.ts, useMesures.ts).
THEOREM TableauCorrect == TableauSpec => []TableauFaithful
<1>1. TableauInv => TableauFaithful
  BY ShownIsAsked, QueriesOfChoice DEF TableauFaithful, TableauInv
<1> QED BY <1>1, InvTableauInit, InvTableauStep, PTL DEF TableauSpec
====
