--------------------------- MODULE BuildPipeline ---------------------------
(***************************************************************************)
(* The build of an extension: zephir generate, install, stubs, api, clean  *)
(* and fullclean (Library/Compiler.php), each a process of its own that    *)
(* keeps everything it remembers in files.  A source file is parsed into .temp,  *)
(* as <file>.js and again as <file>.js.php (CompilerFile::genIR), compiled *)
(* to ext/<file>.zep.c, which is left alone if a cached hash says it is    *)
(* the same (CompilerFile::compile, HardDisk::getHashFile), and linked by  *)
(* a Makefile that phpize and configure make from ext/config.m4.           *)
(*                                                                         *)
(* What a file says is a content; the .js, .zep.c and so on of a source    *)
(* have the content of the source they were made from.  Times are those    *)
(* of filemtime, in whole seconds.  Writing one file is atomic.            *)
(***************************************************************************)
EXTENDS Naturals, FiniteSets

CONSTANTS
  Files,          \* the paths of source files
  Contents,       \* what a source file may say
  Signature,      \* the class entry and methods declared by a content
  Flags,          \* the values of extra-cflags in config.json
  Absent,         \* no such file
  MaxTime,        \* bound: the clock stops here
  MaxChanges,     \* bound: how often the user changes, adds or removes something
  QuickEdits,     \* TRUE: the user also writes a file while it is parsed, or in that second
  CanRevert,      \* TRUE: the user also goes back to a content that was built before
  StubsOfOthers,  \* TRUE: zephir stubs also runs when the Makefile is not for its sources
  CrashAnywhere   \* TRUE: a command may also stop in the two places of Exposed

ASSUME BoundsAssumption == MaxTime \in Nat /\ MaxChanges \in Nat
ASSUME SignatureAssumption == Contents \subseteq DOMAIN Signature
ASSUME AbsentAssumption ==
  /\ Absent \notin Contents /\ Absent \notin Files
  /\ Absent \notin [content : Contents, time : Nat]
  /\ \A fs \in SUBSET Files :
       /\ Absent # fs /\ Absent \notin [files : {fs}, flags : Flags]
       /\ Absent \notin [fs -> Contents] /\ Absent \notin [fs -> {Signature[c] : c \in Contents}]

VARIABLES
  now,            \* the clock, in seconds
  changes,        \* how often the user has changed something
  zep,            \* <file>.zep
  flags,          \* extra-cflags in config.json
  js,             \* .temp/<version>/<file>.js
  jsphp,          \* .temp/<version>/<file>.js.php
  csrc,           \* ext/<file>.zep.c
  md5,            \* .temp/<version>/<file>.md5, the content it is the hash of
  sum,            \* .temp/<version>/compiled-files-sum
  m4,             \* ext/config.m4
  w32,            \* ext/config.w32
  makefile,       \* ext/Makefile, the config.m4 it was configured from
  so,             \* ext/modules/<namespace>.so, the content of each file in it
  pc,             \* where the running command is
  command,        \* the running command
  file,           \* the file it works on
  todo,           \* the files it has not come to in this round
  ir,             \* the parsed files in its memory
  needConfigure,  \* its variable of that name
  wanted          \* history: what each source said when the command came to it

cached   == <<js, jsphp, md5, sum>>
printed  == <<csrc, m4, w32>>
built    == <<makefile, so>>
memory   == <<command, file, todo, ir, needConfigure, wanted>>
user     == <<now, changes, zep, flags>>
vars == <<user, cached, printed, built, pc, memory>>

Dated == [content : Contents, time : 0..MaxTime]
At(content) == [content |-> content, time |-> now]
OfFiles(S) == UNION {[fs -> S] : fs \in SUBSET Files}
Configs == [files : SUBSET Files, flags : Flags]
Declared == {Signature[content] : content \in Contents}

Nothing == [f \in {} |-> Absent]

\* A command that has ended remembers nothing.
Exit ==
  /\ pc' = "idle"
  /\ command' = "none" /\ file' = Absent /\ todo' = {} /\ needConfigure' = FALSE
  /\ ir' = Nothing /\ wanted' = Nothing

\* The files this command compiles: those it parsed.
Listed == DOMAIN ir
Config == [files |-> Listed, flags |-> flags]
\* A mutant: the sum leaves out the names of the files.
SumNameless == {Signature[ir[f]] : f \in Listed}

\* compiled-files-sum: the names of the files and what they declare.
Sum == [f \in Listed |-> Signature[ir[f]]]

-----------------------------------------------------------------------------
(* The user *)

\* A second passes.
Tick ==
  /\ now < MaxTime
  /\ now' = now + 1
  /\ UNCHANGED <<changes, zep, flags, cached, printed, built, pc, memory>>

\* The user changes something.
Change == changes < MaxChanges /\ changes' = changes + 1

\* The command has read <file>.zep and not yet written what it read.
BeingParsed(f) == pc \in {"write js", "write php"} /\ file = f

\* Edits that the times of genIR cannot tell from older ones.
Quick(f) == BeingParsed(f) \/ (js[f] # Absent /\ js[f].time = now)

\* The contents that csrc and md5 remember.
Remembered(f) == {dated.content : dated \in {csrc[f], md5[f]} \ {Absent}}

\* Writes a source file, new or not.
Edit(f, content) ==
  /\ Change
  /\ QuickEdits \/ ~Quick(f)
  /\ CanRevert \/ content \notin Remembered(f)
  /\ zep' = [zep EXCEPT ![f] = At(content)]
  /\ UNCHANGED <<now, flags, cached, printed, built, pc, memory>>

\* Removes a source file.
Delete(f) ==
  /\ Change /\ zep[f] # Absent
  /\ zep' = [zep EXCEPT ![f] = Absent]
  /\ UNCHANGED <<now, flags, cached, printed, built, pc, memory>>

\* Changes extra-cflags in config.json, between two commands.
ChangeFlags(value) ==
  /\ Change /\ pc = "idle"
  /\ flags' = value
  /\ UNCHANGED <<now, zep, cached, printed, built, pc, memory>>

-----------------------------------------------------------------------------
(* Round 1: the sources are parsed *)

\* install removes the extension and compiles; generate stops before make.  So
\* do stubs, and api like it: they generate, then describe the classes.
Commands == {"install", "generate", "stubs"}

Start(cmd) ==
  /\ pc = "idle"
  /\ \E f \in Files : zep[f] # Absent
  /\ pc' = "parse" /\ command' = cmd
  /\ todo' = {f \in Files : zep[f] # Absent}
  /\ ir' = Nothing /\ wanted' = Nothing /\ needConfigure' = FALSE
  /\ so' = IF cmd = "install" THEN Absent ELSE so
  /\ UNCHANGED <<user, cached, printed, makefile, file>>

\* A mutant: times are not compared.
ChangedIfMissing(f) == js[f] = Absent

\* The parsed file is missing or older than its source.
Changed(f) == js[f] # Absent => js[f].time < zep[f].time

With(fun, f, value) == [g \in DOMAIN fun \cup {f} |-> IF g = f THEN value ELSE fun[g]]

\* genIR reads a source that changed.  A source removed since the listing ends
\* the command.
Parse(f) ==
  /\ pc = "parse" /\ f \in todo /\ zep[f] # Absent /\ Changed(f)
  /\ wanted' = With(wanted, f, zep[f].content)
  /\ ir' = With(ir, f, zep[f].content)
  /\ todo' = todo \ {f} /\ file' = f
  /\ pc' = "write js"
  /\ UNCHANGED <<user, cached, printed, built, command, needConfigure>>

\* A mutant: the PHP form is taken to be there.
ParsedBeforeAsPhp(f) == jsphp[f]

\* What earlier commands parsed: the PHP form, or the JSON form if that is missing.
ParsedBefore(f) == IF jsphp[f] = Absent THEN js[f].content ELSE jsphp[f]

\* genIR does not read a source that is not newer than its parsed file.
Reuse(f) ==
  /\ pc = "parse" /\ f \in todo /\ zep[f] # Absent /\ ~Changed(f)
  /\ wanted' = With(wanted, f, zep[f].content)
  /\ ir' = With(ir, f, ParsedBefore(f))
  /\ todo' = todo \ {f} /\ file' = f
  /\ pc' = IF jsphp[f] = Absent THEN "write php" ELSE "parse"
  /\ UNCHANGED <<user, cached, printed, built, command, needConfigure>>

WriteJs ==
  /\ pc = "write js"
  /\ js' = [js EXCEPT ![file] = At(ir[file])]
  /\ pc' = "write php"
  /\ UNCHANGED <<user, jsphp, md5, sum, printed, built, memory>>

WritePhp ==
  /\ pc = "write php"
  /\ jsphp' = [jsphp EXCEPT ![file] = ir[file]]
  /\ pc' = "parse"
  /\ UNCHANGED <<user, js, md5, sum, printed, built, memory>>

\* All files are parsed; they are sorted by rank, and compiled in that order.
Rank ==
  /\ pc = "parse" /\ todo = {}
  /\ pc' = "compile" /\ todo' = Listed
  /\ UNCHANGED <<user, cached, printed, built, command, file, ir, needConfigure, wanted>>

-----------------------------------------------------------------------------
(* Round 3: the C files are written *)

\* A C file that does not exist is written, and no hash is stored.
WriteNew(f) ==
  /\ pc = "compile" /\ f \in todo /\ csrc[f] = Absent
  /\ csrc' = [csrc EXCEPT ![f] = At(ir[f])]
  /\ todo' = todo \ {f}
  /\ UNCHANGED <<user, cached, m4, w32, built, pc, command, file, ir, needConfigure, wanted>>

\* getHashFile: the cached hash is missing or older than the C file.
HashExpired(f) == md5[f] # Absent => csrc[f].time > md5[f].time

\* A mutant: the hash is that of the new output.
HashOfOutput(f) == IF HashExpired(f) THEN At(ir[f]) ELSE md5[f]

\* The hash of a C file that exists, cached or computed.
HashOfFile(f) == IF HashExpired(f) THEN At(csrc[f].content) ELSE md5[f]

\* It is compared with that of the new output; only if they differ is the file written.
Compare(f) ==
  /\ pc = "compile" /\ f \in todo /\ csrc[f] # Absent
  /\ md5' = [md5 EXCEPT ![f] = HashOfFile(f)]
  /\ pc' = IF md5'[f].content = ir[f] THEN "compile" ELSE "rewrite"
  /\ todo' = todo \ {f} /\ file' = f
  /\ UNCHANGED <<user, js, jsphp, sum, printed, built, command, ir, needConfigure, wanted>>

Rewrite ==
  /\ pc = "rewrite"
  /\ csrc' = [csrc EXCEPT ![file] = At(ir[file])]
  /\ pc' = "compile"
  /\ UNCHANGED <<user, cached, m4, w32, built, memory>>

-----------------------------------------------------------------------------
(* Round 4: config.m4, config.w32 and what must be configured *)

\* createConfigFiles, up to the first checkAndWriteIfNeeded.
WriteM4 ==
  /\ pc = "compile" /\ todo = {}
  /\ needConfigure' = (m4 # Config)
  /\ m4' = Config
  /\ pc' = "w32"
  /\ UNCHANGED <<user, cached, csrc, w32, built, command, file, todo, ir, wanted>>

\* createConfigFiles, the second checkAndWriteIfNeeded, and checkIfPhpized.
WriteW32 ==
  /\ pc = "w32"
  /\ w32' = Listed
  /\ \/ /\ command # "generate"
        /\ needConfigure' = (w32 # Listed \/ makefile = Absent)
        /\ pc' = "sum"
        /\ UNCHANGED <<command, file, todo, ir, wanted>>
     \/ command = "generate" /\ Exit
  /\ UNCHANGED <<user, cached, csrc, m4, built>>

\* A new or removed file, or a new method, changes the sum.  Only generate does
\* not store it, but only install goes on to configure.
WriteSum ==
  /\ pc = "sum"
  /\ sum' = Sum
  /\ \/ /\ command = "install"
        /\ needConfigure' = (needConfigure \/ sum # Sum)
        /\ pc' = IF needConfigure' THEN "unconfigure" ELSE "make"
        /\ UNCHANGED <<command, file, todo, ir, wanted>>
     \/ /\ command = "stubs"
        /\ StubsOfOthers \/ sum = Sum \/ makefile = Absent
        /\ Exit
  /\ UNCHANGED <<user, js, jsphp, md5, printed, built>>

\* make clean && phpize --clean.
Unconfigure ==
  /\ pc = "unconfigure"
  /\ makefile' = Absent /\ so' = Absent
  /\ pc' = "configure"
  /\ UNCHANGED <<user, cached, printed, memory>>

\* phpize && configure; nothing looks whether they succeed.
Configure ==
  /\ pc = "configure"
  /\ makefile' \in {m4, Absent}
  /\ pc' = "make"
  /\ UNCHANGED <<user, cached, printed, so, memory>>

\* make brings the extension up to date with the C files of its Makefile, and
\* install finds it.
Make ==
  /\ pc = "make" /\ makefile # Absent
  /\ so' = [f \in makefile.files |-> csrc[f].content]
  /\ pc' = "installed"
  /\ UNCHANGED <<user, cached, printed, makefile, memory>>

-----------------------------------------------------------------------------
(* The end of a command *)

\* make clean.
Clean ==
  /\ pc = "idle" /\ makefile # Absent
  /\ so' = Absent
  /\ UNCHANGED <<user, cached, printed, makefile, pc, memory>>

\* fullclean empties .temp, then runs make clean and phpize --clean.
FullClean ==
  /\ pc = "idle"
  /\ js' = [f \in Files |-> Absent] /\ jsphp' = js' /\ md5' = js' /\ sum' = Absent
  /\ pc' = "fullclean"
  /\ UNCHANGED <<user, printed, built, memory>>

FullCleanExt ==
  /\ pc = "fullclean"
  /\ makefile' = Absent /\ so' = Absent
  /\ Exit
  /\ UNCHANGED <<user, cached, printed>>

Done ==
  /\ pc = "installed"
  /\ Exit
  /\ UNCHANGED <<user, cached, printed, built>>

\* Two places where a command that stops leaves files that mislead the next:
\* between <file>.js and an older <file>.js.php, and after the sum is stored.
Exposed ==
  \/ pc = "write php" /\ jsphp[file] # Absent
  \/ pc = "unconfigure"

\* A command stops: it is killed, a source does not parse, make fails.
Stop ==
  /\ pc \notin {"idle", "installed"}
  /\ CrashAnywhere \/ ~Exposed
  /\ Exit
  /\ UNCHANGED <<user, cached, printed, built>>

-----------------------------------------------------------------------------
Init ==
  /\ now = 0 /\ changes = 0
  /\ zep \in [Files -> {Absent} \cup {At(content) : content \in Contents}]
  /\ flags \in Flags
  /\ js = [f \in Files |-> Absent] /\ jsphp = js /\ csrc = js /\ md5 = js
  /\ sum = Absent /\ m4 = Absent /\ w32 = Absent
  /\ makefile = Absent /\ so = Absent
  /\ pc = "idle" /\ command = "none" /\ file = Absent /\ todo = {}
  /\ ir = Nothing /\ wanted = Nothing /\ needConfigure = FALSE

Next ==
  \/ Tick \/ WriteJs \/ WritePhp \/ Rank \/ Rewrite \/ WriteM4 \/ WriteW32 \/ WriteSum
  \/ Unconfigure \/ Configure \/ Make \/ Clean \/ FullClean \/ FullCleanExt \/ Done \/ Stop
  \/ \E f \in Files, content \in Contents : Edit(f, content)
  \/ \E f \in Files : Delete(f) \/ Parse(f) \/ Reuse(f) \/ WriteNew(f) \/ Compare(f)
  \/ \E value \in Flags : ChangeFlags(value)
  \/ \E cmd \in Commands : Start(cmd)

Spec == Init /\ [][Next]_vars

-----------------------------------------------------------------------------
(* Properties *)

Places == {"idle", "parse", "write js", "write php", "compile", "rewrite", "w32", "sum",
           "unconfigure", "configure", "make", "installed", "fullclean"}

\* Every file and variable has its type; in particular what a command has
\* parsed is the content of a source, whichever file it read it from.
TypeOK ==
  /\ now \in 0..MaxTime /\ changes \in 0..MaxChanges /\ flags \in Flags
  /\ zep \in [Files -> Dated \cup {Absent}]
  /\ js \in [Files -> Dated \cup {Absent}] /\ jsphp \in [Files -> Contents \cup {Absent}]
  /\ csrc \in [Files -> Dated \cup {Absent}] /\ md5 \in [Files -> Dated \cup {Absent}]
  /\ sum \in OfFiles(Declared) \cup {Absent}
  /\ m4 \in Configs \cup {Absent} /\ w32 \in {Absent} \cup SUBSET Files
  /\ makefile \in Configs \cup {Absent} /\ so \in OfFiles(Contents) \cup {Absent}
  /\ pc \in Places
  /\ command \in Commands \cup {"none"}
  /\ file \in Files \cup {Absent} /\ todo \in SUBSET Files /\ needConfigure \in BOOLEAN
  /\ ir \in OfFiles(Contents) /\ wanted \in OfFiles(Contents)

\* zephir install ends with an extension made of the sources it found, all of
\* them and as it found them, whatever earlier commands did or left undone (but
\* for what the last four constants leave out).
BuildCurrent == pc = "installed" => so = wanted

\* When the C files are compiled each says what was parsed: a file that was not
\* rewritten had not changed (CompilerFile.php:932).
OutputWritten ==
  pc \in {"w32", "sum", "unconfigure", "configure", "make"} =>
    \A f \in Listed : csrc[f] # Absent /\ csrc[f].content = ir[f]

\* make never runs with a Makefile for other files: configure runs again when a
\* file is added or removed (Compiler.php:1160).
ConfiguredForFiles ==
  pc = "make" /\ makefile # Absent => makefile.files = Listed

\* make never runs with a Makefile made from another config.m4: createConfigFiles
\* says when configure must run (Compiler.php:1523).
ConfiguredForConfig ==
  pc = "make" /\ makefile # Absent => makefile = m4
=============================================================================
