------------------------------- MODULE Tooling -------------------------------
(***************************************************************************)
(* The two scripts that cut the console down, npm run simple and npm run    *)
(* i18n-remove: they edit and delete files of the working tree one after    *)
(* the other, can be stopped by an error or a signal between any two calls  *)
(* or inside one, and are then run again, in any order. A file of the       *)
(* sources is its one text a visitor reads.                                 *)
(***************************************************************************)
EXTENDS Naturals

CONSTANTS
  Kept, Dropped,   \* source files, and those in page directories simple.js deletes
  Computed,        \* those of them whose text has no literal id, or parameters
  Top, Nested      \* route names of routes.ts, and those below another route

Files == Kept \cup Dropped
Names == Top \cup Nested
Scripts == {"simple", "i18n-remove"}
Written == Files \cup {"routes", "config", "package"}

\* Of src/locales/zh-CN: the texts of the files, and of the menu.
Keys == Files \cup {"menu"}

VARIABLES
  text,      \* what each file has: a call of the intl API, Chinese, its default
  routes,    \* whose routes config/routes.ts has
  chinese,   \* the names in it that are Chinese
  backup,    \* config/routes.simple.ts is there
  locale,    \* config.ts has its locale settings
  locales,   \* the keys that are still under src/locales
  deps,      \* package.json has the dependencies simple.js removes
  entries,   \* the scripts package.json has
  script,    \* scripts/simple.js is there
  torn,      \* files that were being written when a script was stopped
  step,      \* what the running script does next
  todo,      \* the files it still has to do
  map        \* localeMap and menuMap: the keys it has read

sources == <<text, locales>>
config == <<routes, chinese, backup, locale>>
package == <<deps, entries, script>>
run == <<step, todo, map>>
vars == <<sources, config, package, torn, run>>

Steps == {"dirs", "routes", "unlink", "shrink", "self",
          "names", "config", "files", "locales", "entry", "check"}

TypeOK ==
  /\ text \in [Files -> {"call", "zh", "default", "gone"}]
  /\ routes \in {"full", "simple"} /\ chinese \subseteq Names
  /\ backup \in BOOLEAN /\ locale \in BOOLEAN /\ locales \subseteq Keys
  /\ deps \in BOOLEAN /\ entries \subseteq Scripts /\ script \in BOOLEAN
  /\ torn \subseteq Written /\ step \in Steps \cup {"idle"}
  /\ todo \subseteq Files /\ map \subseteq Keys

Init ==
  /\ text = [f \in Files |-> "call"] /\ locales = Keys
  /\ routes = "full" /\ chinese = {} /\ backup = TRUE /\ locale = TRUE
  /\ deps = TRUE /\ entries = Scripts /\ script = TRUE
  /\ torn = {} /\ step = "idle" /\ todo = {} /\ map = {}

There == {f \in Files : text[f] # "gone"}

\* npm run needs the entry in a package.json that can be read.
RunSimple ==
  /\ step = "idle" /\ "simple" \in entries /\ "package" \notin torn /\ script
  /\ step' = "dirs" /\ todo' = Dropped
  /\ UNCHANGED <<sources, config, package, torn, map>>

\* buildLocaleMap, buildMenuMap
RunI18n ==
  /\ step = "idle" /\ "i18n-remove" \in entries /\ "package" \notin torn
  /\ step' = "names" /\ map' = locales
  /\ UNCHANGED <<sources, config, package, torn, todo>>

\* A signal, a full disk, a file that is open elsewhere. What was being written
\* is cut short; of what was being deleted, some is left.
Stop ==
  /\ step # "idle" /\ step' = "idle" /\ todo' = {} /\ map' = {}
  /\ \/ UNCHANGED <<torn, locales>>
     \/ /\ \/ step = "routes" /\ backup /\ torn' = torn \cup {"routes"}
           \/ step = "names" /\ "menu" \in map /\ ~(Top \subseteq chinese) /\ routes = "full"
              /\ torn' = torn \cup {"routes"}
           \/ step = "config" /\ locale /\ torn' = torn \cup {"config"}
           \/ step \in {"shrink", "entry"} /\ torn' = torn \cup {"package"}
           \/ \E f \in todo : /\ step = "files" /\ text[f] = "call"
                              /\ f \notin Computed /\ torn' = torn \cup {f}
        /\ UNCHANGED locales
     \/ step = "locales" /\ locales' \in SUBSET locales /\ UNCHANGED torn
  /\ UNCHANGED <<text, config, package>>

-----------------------------------------------------------------------------
(* simple.js *)

\* deleteDir, for each of the directories there is. What a stop leaves of one is
\* not different from the whole to what follows.
DeleteDir ==
  /\ step = "dirs" /\ todo # {}
  /\ \E f \in todo :
       /\ text' = [text EXCEPT ![f] = "gone"] /\ torn' = torn \ {f}
       /\ todo' = todo \ {f}
  /\ UNCHANGED <<locales, config, package, step, map>>

DirsDone ==
  /\ step = "dirs" /\ todo = {} /\ step' = "routes"
  /\ UNCHANGED <<sources, config, package, torn, todo, map>>

\* Variant: routes.simple.ts is read and deleted, and written last.
ReplaceRoutes_Last ==
  /\ step \in {"routes", "unlink"}
  /\ \/ /\ step = "routes" /\ backup /\ step' = "unlink"
        /\ backup' = FALSE /\ UNCHANGED <<routes, chinese, torn>>
     \/ /\ step = "routes" /\ ~backup /\ step' = "shrink"
        /\ UNCHANGED <<routes, chinese, torn, backup>>
     \/ /\ step = "unlink" /\ step' = "shrink"
        /\ routes' = "simple" /\ chinese' = {} /\ torn' = torn \ {"routes"} /\ UNCHANGED backup
  /\ UNCHANGED <<sources, locale, package, todo, map>>

\* replaceRoutes: routes.simple.ts, which is in Chinese, over routes.ts; then it
\* is deleted.
ReplaceRoutes ==
  /\ step \in {"routes", "unlink"}
  /\ \/ /\ step = "routes" /\ backup /\ step' = "unlink"
        /\ routes' = "simple" /\ chinese' = {} /\ torn' = torn \ {"routes"} /\ UNCHANGED backup
     \/ /\ step = "routes" /\ ~backup /\ step' = "shrink"
        /\ UNCHANGED <<routes, chinese, torn, backup>>
     \/ /\ step = "unlink" /\ step' = "shrink"
        /\ backup' = FALSE /\ UNCHANGED <<routes, chinese, torn>>
  /\ UNCHANGED <<sources, locale, package, todo, map>>

\* Variant: after the script has been deleted.
Shrink_Last ==
  \/ /\ step = "shrink" /\ step' = "self" /\ script' = FALSE
     /\ UNCHANGED <<sources, config, deps, entries, torn, todo, map>>
  \/ /\ step = "self" /\ step' = "idle"
     /\ deps' = FALSE /\ entries' = entries \ {"simple"}
     /\ UNCHANGED <<sources, config, script, torn, todo, map>>

\* updatePackageJson: dependencies and the script in one write.
Shrink ==
  /\ step = "shrink" /\ step' = "self"
  /\ deps' = FALSE /\ entries' = entries \ {"simple"}
  /\ UNCHANGED <<sources, config, script, torn, todo, map>>

\* Last, the script itself.
Self ==
  /\ step = "self" /\ step' = "idle" /\ script' = FALSE
  /\ UNCHANGED <<sources, config, deps, entries, torn, todo, map>>

-----------------------------------------------------------------------------
(* i18n-remove.js *)

\* replaceRoutes: a name is looked up as it stands, and the keys of nested ones
\* have the names above them in front.
ReplaceNames ==
  /\ step = "names" /\ step' = "config"
  /\ chinese' = IF "menu" \in map /\ routes = "full" /\ "routes" \notin torn
                THEN chinese \cup Top ELSE chinese
  /\ UNCHANGED <<sources, routes, backup, locale, package, torn, todo, map>>

RemoveLocaleConfig ==
  /\ step = "config" /\ step' = "files" /\ todo' = There
  /\ locale' = ("config" \in torn /\ locale)
  /\ UNCHANGED <<sources, routes, chinese, backup, package, torn, map>>

\* resolveText, the rest of processFile done.
Resolved(f) ==
  IF text[f] # "call" \/ f \in Computed \cup torn THEN text[f]
  ELSE IF f \in map THEN "zh" ELSE "default"

ProcessFile ==
  /\ step = "files" /\ todo # {}
  /\ \E f \in todo :
       /\ text' = [text EXCEPT ![f] = Resolved(f)] /\ todo' = todo \ {f}
  /\ UNCHANGED <<locales, config, package, torn, step, map>>

\* Variant: the directory is deleted while there are files to be done.
FilesDone_Early ==
  /\ step = "files"
  /\ \/ todo = {} /\ step' = "entry" /\ UNCHANGED locales
     \/ locales # {} /\ locales' = {} /\ UNCHANGED step
  /\ UNCHANGED <<text, config, package, torn, todo, map>>

FilesDone ==
  /\ step = "files" /\ todo = {} /\ step' = "locales"
  /\ UNCHANGED <<sources, config, package, torn, todo, map>>

DeleteLocales ==
  /\ step = "locales" /\ step' = "entry" /\ locales' = {}
  /\ UNCHANGED <<text, config, package, torn, todo, map>>

RemoveEntry ==
  /\ step = "entry" /\ step' = "check" /\ entries' = entries \ {"i18n-remove"}
  /\ UNCHANGED <<sources, config, deps, script, torn, todo, map>>

\* checkResiduals prints which calls are left.
CheckResiduals ==
  /\ step = "check" /\ step' = "idle" /\ map' = {}
  /\ UNCHANGED <<sources, config, package, torn, todo>>

-----------------------------------------------------------------------------

Simple == DeleteDir \/ DirsDone \/ ReplaceRoutes \/ Shrink \/ Self

I18n == \/ ReplaceNames \/ RemoveLocaleConfig \/ ProcessFile \/ FilesDone
        \/ DeleteLocales \/ RemoveEntry \/ CheckResiduals

Next == RunSimple \/ RunI18n \/ Stop \/ Simple \/ I18n

Spec == Init /\ [][Next]_vars

-----------------------------------------------------------------------------
(* Properties *)

\* No text becomes its default, which is English or an id, because the Chinese
\* one was deleted too early: not in a second or third run either.
TextsAreTranslated == \A f \in Files : text[f] # "default"

\* What package.json offers to run can be run and has something to do; and while
\* a script has left work undone, it is still offered, unless it was stopped
\* while it wrote package.json.
CanBeRunAgain ==
  /\ "simple" \in entries => script
  /\ "simple" \notin entries => routes = "simple" /\ ~backup /\ ~deps /\ There \subseteq Kept
  /\ "i18n-remove" \notin entries =>
       /\ locales = {}
       /\ "config" \notin torn => ~locale
       /\ \A f \in There \ torn : text[f] = "call" <=> f \in Computed

\* The routes simple.js was stopped over are whole again once it has finished,
\* and so is the result of both scripts the same in whatever order they were run,
\* stopped and run again: the routes in Chinese, and Chinese texts.
SameInEitherOrder ==
  step = "idle" /\ entries = {} =>
    /\ routes = "simple" /\ "routes" \notin torn /\ chinese = {} /\ locales = {}
    /\ \A f \in Kept \ torn : text[f] = IF f \in Computed THEN "call" ELSE "zh"
    /\ \A f \in Dropped : text[f] = "gone"
=============================================================================
