------------------------ MODULE BuildPipelineProofs ------------------------
(***************************************************************************)
(* An installed extension is made of the sources the command found, for    *)
(* any number of files, contents, flags and changes, as long as the user,  *)
(* the crashes and zephir stubs keep to the conditions that BuildPipeline  *)
(* names.                                                                  *)
(*                                                                         *)
(* The invariant follows a source through the files made from it.  A .js   *)
(* that is not older than its source has its content, since no edit falls  *)
(* in the second the .js is written; the .js.php has the content of the    *)
(* .js.  The cached hash of a C file may be that of an older version, and  *)
(* then it is not the hash of anything a source says or a command has      *)
(* parsed, so it never keeps a C file from being written.  The Makefile is *)
(* for the files of the stored sum whenever both exist.                    *)
(***************************************************************************)
EXTENDS BuildPipeline, TLAPS

\* What the theorems ask of the user, of the crashes and of zephir stubs.
Careful ==
  /\ QuickEdits = FALSE /\ CanRevert = FALSE /\ CrashAnywhere = FALSE
  /\ StubsOfOthers = FALSE

-----------------------------------------------------------------------------
(* The parse cache *)

\* No source and no .js is from the future.
TimesPast ==
  \A f \in Files : /\ zep[f] # Absent => zep[f].time <= now
                   /\ js[f] # Absent => js[f].time <= now

\* A .js that is not older than its source has its content.
JsCurrent ==
  \A f \in Files : zep[f] # Absent /\ js[f] # Absent /\ zep[f].time <= js[f].time
                     => js[f].content = zep[f].content

\* A .js.php has the content of the .js, unless it is about to be written.
PhpFollows ==
  \A f \in Files : jsphp[f] # Absent =>
    /\ js[f] # Absent
    /\ jsphp[f] = js[f].content \/ (pc = "write php" /\ file = f)

\* While a file is parsed its source stays what was read.
InHand ==
  /\ pc \in {"write js", "write php"} =>
       /\ file \in Listed /\ file \in Files
       /\ zep[file] # Absent => zep[file].content = ir[file]
  /\ pc = "write php" => js[file] # Absent /\ js[file].content = ir[file]

CacheInvariant == TimesPast /\ JsCurrent /\ PhpFollows /\ InHand /\ ir = wanted

-----------------------------------------------------------------------------
(* The C files and their hashes *)

\* The files parsed whose C file is not yet looked at.
Pending ==
  {f \in Listed : \/ pc \in {"parse", "write js", "write php"}
                  \/ pc \in {"compile", "rewrite"} /\ f \in todo}

\* The C file of f is to be rewritten.
Rewriting(f) == pc = "rewrite" /\ file = f

\* The C file of f is what the command parsed.
Current(f) == csrc[f] # Absent /\ csrc[f].content = ir[f]

\* The hash of f is stored, and not for the C file that is there.
WrongHash(f) == ~HashExpired(f) /\ md5[f].content # csrc[f].content

\* A hash that is not the one of its C file is not the one of the source or of
\* what is to be compiled.
HashHarmless ==
  \A f \in Files :
    /\ md5[f] # Absent => csrc[f] # Absent
    /\ WrongHash(f) /\ zep[f] # Absent => zep[f].content # md5[f].content
    /\ WrongHash(f) /\ f \in Pending => ir[f] # md5[f].content

\* What the user wrote after the file was parsed was never built.
EditsNew ==
  \A f \in Files : (f \in Pending \/ Rewriting(f)) /\ zep[f] # Absent =>
    zep[f].content = ir[f] \/ zep[f].content \notin Remembered(f)

\* A file is rewritten because of its hash.
RewriteNeeded ==
  pc = "rewrite" =>
    /\ file \in Listed /\ file \in Files /\ file \notin todo
    /\ csrc[file] # Absent /\ md5[file] # Absent /\ md5[file].content # ir[file]

\* The files that were looked at are written.
FilesWritten ==
  pc \in {"compile", "rewrite"} =>
    /\ todo \subseteq Listed
    /\ \A f \in Listed \ todo : Current(f) \/ Rewriting(f)

HashInvariant == HashHarmless /\ EditsNew /\ RewriteNeeded /\ FilesWritten /\ OutputWritten

-----------------------------------------------------------------------------
(* The configuration *)

\* config.m4, and later the sum, are those of this command.
ConfigWritten ==
  /\ pc \in {"w32", "sum", "unconfigure", "configure", "make"} => m4 # Absent /\ m4.files = Listed
  /\ pc \in {"unconfigure", "configure", "make"} => sum = Sum

\* The Makefile is for the files of the sum.
MakefileFollowsSum ==
  makefile # Absent /\ sum # Absent /\ pc # "unconfigure" => makefile.files = DOMAIN sum

ConfigInvariant == ConfigWritten /\ MakefileFollowsSum

BuildInvariant ==
  TypeOK /\ CacheInvariant /\ HashInvariant /\ ConfigInvariant /\ BuildCurrent

-----------------------------------------------------------------------------
(* Types *)

\* No value of a file is the one that stands for a missing file.
LEMMA AbsentFacts ==
  /\ Absent \notin Contents /\ Absent \notin Files /\ Absent \notin Dated
  /\ Absent \notin Configs /\ Absent \notin SUBSET Files
  /\ Absent \notin OfFiles(Contents) /\ Absent \notin OfFiles(Declared)
  <1>1. Absent \notin Dated
    BY AbsentAssumption, BoundsAssumption DEF Dated
  <1>2. Absent \notin Configs
    <2>1. ASSUME NEW c \in Configs PROVE c \in [files : {c.files}, flags : Flags]
      BY DEF Configs
    <2> QED BY <2>1, AbsentAssumption DEF Configs
  <1> QED BY <1>1, <1>2, AbsentAssumption DEF OfFiles, Declared

\* A file added to what is known of others.
LEMMA WithType ==
  ASSUME NEW S, NEW fun \in OfFiles(S), NEW f \in Files, NEW value \in S
  PROVE  /\ With(fun, f, value) \in OfFiles(S)
         /\ DOMAIN With(fun, f, value) = DOMAIN fun \cup {f}
         /\ With(fun, f, value)[f] = value
         /\ \A g \in DOMAIN fun : g # f => With(fun, f, value)[g] = fun[g]
  <1>1. PICK fs \in SUBSET Files : fun \in [fs -> S]
    BY DEF OfFiles
  <1>2. With(fun, f, value) \in [fs \cup {f} -> S]
    BY <1>1 DEF With
  <1> QED BY <1>1, <1>2 DEF With, OfFiles

\* What is known of some files has values of its own kind.
LEMMA OfFilesFacts ==
  ASSUME NEW S, NEW fun \in OfFiles(S)
  PROVE  /\ DOMAIN fun \subseteq Files
         /\ \A f \in DOMAIN fun : fun[f] \in S
         /\ fun = [f \in DOMAIN fun |-> fun[f]]
  BY DEF OfFiles

\* The files of a command, and the sum of them.
LEMMA SumFacts ==
  ASSUME TypeOK
  PROVE  /\ Listed \subseteq Files /\ DOMAIN ir = Listed
         /\ \A f \in Listed : ir[f] \in Contents
         /\ Sum \in OfFiles(Declared) /\ DOMAIN Sum = Listed /\ Sum # Absent
  <1>1. Listed \subseteq Files /\ \A f \in Listed : ir[f] \in Contents
    BY OfFilesFacts DEF Listed, TypeOK
  <1>2. Sum \in [Listed -> Declared]
    BY <1>1 DEF Sum, Declared
  <1>3. Sum \in OfFiles(Declared)
    BY <1>1, <1>2 DEF OfFiles
  <1> QED BY <1>1, <1>2, <1>3, AbsentFacts DEF Listed

\* A command that has just begun knows nothing.
LEMMA NothingType == ASSUME NEW S PROVE Nothing \in OfFiles(S)
  BY DEF Nothing, OfFiles

\* Ending a command keeps to the types.
LEMMA ExitType ==
  ASSUME TypeOK, Exit, UNCHANGED <<user, cached, printed>>,
         makefile' \in Configs \cup {Absent}, so' \in OfFiles(Contents) \cup {Absent}
  PROVE  TypeOK'
  BY NothingType DEF TypeOK, Places, Exit, user, cached, printed

\* The steps of the user.
LEMMA UserType ==
  ASSUME TypeOK,
         \/ Tick
         \/ \E f \in Files, content \in Contents : Edit(f, content)
         \/ \E f \in Files : Delete(f)
         \/ \E value \in Flags : ChangeFlags(value)
  PROVE  TypeOK'
  <1> USE DEF cached, printed, built, memory
  <1>1. now \in 0..MaxTime /\ changes \in 0..MaxChanges
    BY DEF TypeOK
  <1>2. Change => changes' \in 0..MaxChanges
    BY <1>1, BoundsAssumption DEF Change
  <1>3. CASE Tick
    <2>1. now' \in 0..MaxTime
      BY <1>1, <1>3, BoundsAssumption DEF Tick
    <2> QED BY <1>3, <2>1 DEF Tick, TypeOK
  <1>4. ASSUME NEW f \in Files, NEW content \in Contents, Edit(f, content) PROVE TypeOK'
    <2>1. At(content) \in Dated
      BY <1>1 DEF At, Dated
    <2> QED BY <1>2, <1>4, <2>1 DEF Edit, TypeOK
  <1>5. ASSUME NEW f \in Files, Delete(f) PROVE TypeOK'
    BY <1>2, <1>5 DEF Delete, TypeOK
  <1>6. ASSUME NEW value \in Flags, ChangeFlags(value) PROVE TypeOK'
    BY <1>2, <1>6 DEF ChangeFlags, TypeOK
  <1> QED BY <1>3, <1>4, <1>5, <1>6

\* The steps of round 1.
LEMMA ParseType ==
  ASSUME TypeOK, InHand,
         \/ \E cmd \in Commands : Start(cmd)
         \/ \E f \in Files : Parse(f) \/ Reuse(f)
         \/ WriteJs \/ WritePhp \/ Rank
  PROVE  TypeOK'
  <1> USE DEF TypeOK, Places, user, cached, printed, built
  <1>1. ASSUME NEW cmd \in Commands, Start(cmd) PROVE TypeOK'
    BY <1>1, NothingType DEF Start
  <1>2. ASSUME NEW f \in Files, Parse(f) PROVE TypeOK'
    <2>1. zep[f].content \in Contents
      BY <1>2 DEF Parse, Dated
    <2>2. ir' \in OfFiles(Contents) /\ wanted' \in OfFiles(Contents)
      BY <1>2, <2>1, WithType DEF Parse
    <2> QED BY <1>2, <2>2 DEF Parse
  <1>3. ASSUME NEW f \in Files, Reuse(f) PROVE TypeOK'
    <2>1. zep[f].content \in Contents /\ ParsedBefore(f) \in Contents
      BY <1>3 DEF Reuse, Changed, ParsedBefore, Dated
    <2>2. ir' \in OfFiles(Contents) /\ wanted' \in OfFiles(Contents)
      BY <1>3, <2>1, WithType DEF Reuse
    <2> QED BY <1>3, <2>2 DEF Reuse
  <1>4. CASE WriteJs
    <2>1. ir[file] \in Contents
      BY <1>4, OfFilesFacts DEF WriteJs, InHand, Listed
    <2> QED BY <1>4, <2>1 DEF WriteJs, At, Dated, memory
  <1>5. CASE WritePhp
    <2>1. ir[file] \in Contents
      BY <1>5, OfFilesFacts DEF WritePhp, InHand, Listed
    <2> QED BY <1>5, <2>1 DEF WritePhp, memory
  <1>6. CASE Rank
    <2>1. Listed \subseteq Files
      BY OfFilesFacts DEF Listed
    <2> QED BY <1>6, <2>1 DEF Rank
  <1> QED BY <1>1, <1>2, <1>3, <1>4, <1>5, <1>6

\* The steps of round 3.
LEMMA CompileType ==
  ASSUME TypeOK, RewriteNeeded, FilesWritten,
         \/ \E f \in Files : WriteNew(f) \/ Compare(f)
         \/ Rewrite
  PROVE  TypeOK'
  <1> USE DEF TypeOK, Places, user, cached, printed, built
  <1>1. ASSUME NEW f \in Files, WriteNew(f) PROVE TypeOK'
    <2>1. ir[f] \in Contents
      BY <1>1, OfFilesFacts DEF WriteNew, FilesWritten, Listed
    <2> QED BY <1>1, <2>1 DEF WriteNew, At, Dated
  <1>2. ASSUME NEW f \in Files, Compare(f) PROVE TypeOK'
    <2>1. HashOfFile(f) \in Dated
      BY <1>2 DEF Compare, HashOfFile, HashExpired, At, Dated
    <2> QED BY <1>2, <2>1 DEF Compare
  <1>3. CASE Rewrite
    <2>1. ir[file] \in Contents
      BY <1>3, OfFilesFacts DEF Rewrite, RewriteNeeded, Listed
    <2> QED BY <1>3, <2>1 DEF Rewrite, At, Dated, memory
  <1> QED BY <1>1, <1>2, <1>3

\* The steps of round 4 and the end of a command.
LEMMA ConfigType ==
  ASSUME TypeOK, OutputWritten, ConfigInvariant,
         \/ WriteM4 \/ WriteW32 \/ WriteSum \/ Unconfigure \/ Configure \/ Make
         \/ Clean \/ FullClean \/ FullCleanExt \/ Done \/ Stop
  PROVE  TypeOK'
  <1> USE DEF Places, user, cached, printed, built
  <1>0. Listed \subseteq Files /\ Config \in Configs /\ Sum \in OfFiles(Declared)
    BY SumFacts DEF Config, Configs, TypeOK
  <1>1. CASE WriteM4
    BY <1>0, <1>1 DEF WriteM4, TypeOK
  <1>2. CASE WriteW32
    <2>1. CASE command # "generate"
      BY <1>0, <1>2, <2>1 DEF WriteW32, TypeOK
    <2>2. CASE command = "generate"
      BY <1>0, <1>2, <2>2, NothingType DEF WriteW32, TypeOK, Exit
    <2> QED BY <1>2, <2>1, <2>2 DEF WriteW32
  <1>3. CASE WriteSum
    <2>1. CASE command = "install"
      BY <1>0, <1>3, <2>1 DEF WriteSum, TypeOK
    <2>2. CASE command = "stubs"
      BY <1>0, <1>3, <2>2, NothingType DEF WriteSum, TypeOK, Exit
    <2> QED BY <1>3, <2>1, <2>2 DEF WriteSum
  <1>4. CASE Unconfigure
    BY <1>4 DEF Unconfigure, TypeOK, memory
  <1>5. CASE Configure
    BY <1>5 DEF Configure, TypeOK, memory
  <1>6. CASE Make
    <2>1. makefile.files = Listed
      BY <1>6, SumFacts DEF Make, ConfigInvariant, ConfigWritten, MakefileFollowsSum
    <2>2. \A f \in Listed : csrc[f].content \in Contents
      BY <1>0, <1>6 DEF Make, OutputWritten, TypeOK, Dated
    <2>3. so' \in OfFiles(Contents)
      BY <1>0, <1>6, <2>1, <2>2 DEF Make, OfFiles
    <2> QED BY <1>6, <2>3 DEF Make, TypeOK, memory
  <1>7. CASE Clean
    BY <1>7 DEF Clean, TypeOK, memory
  <1>8. CASE FullClean
    BY <1>8 DEF FullClean, TypeOK, memory
  <1>9. CASE FullCleanExt
    BY <1>9, ExitType DEF FullCleanExt
  <1>10. CASE Done
    BY <1>10, ExitType DEF Done, TypeOK
  <1>11. CASE Stop
    BY <1>11, ExitType DEF Stop, TypeOK
  <1> QED BY <1>1, <1>2, <1>3, <1>4, <1>5, <1>6, <1>7, <1>8, <1>9, <1>10, <1>11

-----------------------------------------------------------------------------
(* The parse cache *)

\* Steps that neither read nor write a source or a parsed file keep the cache
\* invariant, unless they leave an older .js.php behind.
LEMMA CacheKept ==
  ASSUME CacheInvariant, UNCHANGED <<now, zep, js, jsphp>>, ir' = wanted',
         pc' \notin {"write js", "write php"},
         pc = "write php" => jsphp[file] = Absent
  PROVE  CacheInvariant'
  BY DEF CacheInvariant, TimesPast, JsCurrent, PhpFollows, InHand

\* The steps of the user: an edit makes the source newer than its .js.
LEMMA UserCache ==
  ASSUME TypeOK, CacheInvariant, Careful,
         \/ Tick
         \/ \E f \in Files, content \in Contents : Edit(f, content)
         \/ \E f \in Files : Delete(f)
         \/ \E value \in Flags : ChangeFlags(value)
  PROVE  CacheInvariant'
  <1> USE DEF cached, printed, built, memory, Listed
  <1>1. /\ now \in Nat
        /\ \A f \in Files : /\ zep[f] # Absent => zep[f].time \in Nat
                            /\ js[f] # Absent => js[f].time \in Nat
    BY BoundsAssumption DEF TypeOK, Dated
  <1>2. CASE Tick
    <2>1. TimesPast'
      BY <1>1, <1>2 DEF Tick, CacheInvariant, TimesPast
    <2> QED BY <1>2, <2>1 DEF Tick, CacheInvariant, JsCurrent, PhpFollows, InHand
  <1>3. ASSUME NEW f \in Files, NEW content \in Contents, Edit(f, content)
        PROVE  CacheInvariant'
    <2>1. ~Quick(f) /\ js[f] # Absent => js[f].time < now
      BY <1>1 DEF CacheInvariant, TimesPast, Quick
    <2>2. ~Quick(f)
      BY <1>3 DEF Edit, Careful
    <2>3. At(content) # Absent /\ At(content).time = now
      BY <1>1, AbsentAssumption DEF At
    <2>4. zep' = [zep EXCEPT ![f] = At(content)] /\ zep \in [Files -> Dated \cup {Absent}]
      BY <1>3 DEF Edit, TypeOK
    <2>5. TimesPast' /\ JsCurrent'
      BY <1>1, <1>3, <2>1, <2>2, <2>3, <2>4 DEF Edit, CacheInvariant, TimesPast, JsCurrent
    <2>6. InHand'
      BY <1>3, <2>2, <2>4 DEF Edit, CacheInvariant, InHand, Quick, BeingParsed
    <2> QED BY <1>3, <2>5, <2>6 DEF Edit, CacheInvariant, PhpFollows
  <1>4. ASSUME NEW f \in Files, Delete(f) PROVE CacheInvariant'
    <2>1. zep' = [zep EXCEPT ![f] = Absent] /\ zep \in [Files -> Dated \cup {Absent}]
      BY <1>4 DEF Delete, TypeOK
    <2> QED BY <1>4, <2>1 DEF Delete, CacheInvariant, TimesPast, JsCurrent, PhpFollows, InHand
  <1>5. ASSUME NEW value \in Flags, ChangeFlags(value) PROVE CacheInvariant'
    BY <1>5 DEF ChangeFlags, CacheInvariant, TimesPast, JsCurrent, PhpFollows, InHand
  <1> QED BY <1>2, <1>3, <1>4, <1>5

\* The steps of round 1: what is reused is what the source says, and what is
\* stored is what was read.
LEMMA ParseCache ==
  ASSUME TypeOK, CacheInvariant,
         \/ \E cmd \in Commands : Start(cmd)
         \/ \E f \in Files : Parse(f) \/ Reuse(f)
         \/ WriteJs \/ WritePhp \/ Rank
  PROVE  CacheInvariant'
  <1> USE DEF user, cached, printed, built, Listed
  <1>1. /\ now \in Nat
        /\ \A f \in Files : /\ zep[f] # Absent => zep[f] \in Dated /\ zep[f].time \in Nat
                            /\ js[f] # Absent => js[f] \in Dated /\ js[f].time \in Nat
    BY BoundsAssumption DEF TypeOK, Dated
  <1>2. ASSUME NEW cmd \in Commands, Start(cmd) PROVE CacheInvariant'
    BY <1>2, CacheKept DEF Start
  <1>3. ASSUME NEW f \in Files, Parse(f) PROVE CacheInvariant'
    <2>1. zep[f].content \in Contents
      BY <1>1, <1>3 DEF Parse, Dated
    <2>2. f \in DOMAIN ir' /\ ir'[f] = zep[f].content /\ ir' = wanted'
      <3>1. ir = wanted /\ ir \in OfFiles(Contents)
        BY DEF TypeOK, CacheInvariant
      <3>2. ir' = With(ir, f, zep[f].content) /\ wanted' = With(wanted, f, zep[f].content)
        BY <1>3 DEF Parse
      <3>3. /\ f \in DOMAIN With(ir, f, zep[f].content)
            /\ With(ir, f, zep[f].content)[f] = zep[f].content
        BY DEF With
      <3> QED BY <3>1, <3>2, <3>3
    <2> QED BY <1>3, <2>2 DEF Parse, CacheInvariant, TimesPast, JsCurrent, PhpFollows, InHand
  <1>4. ASSUME NEW f \in Files, Reuse(f) PROVE CacheInvariant'
    <2>1. js[f] # Absent /\ zep[f] # Absent /\ js[f].content = zep[f].content
      <3>1. zep[f] # Absent /\ js[f] # Absent /\ ~(js[f].time < zep[f].time)
        BY <1>4 DEF Reuse, Changed
      <3>2. zep[f].time <= js[f].time
        BY <1>1, <3>1
      <3> QED BY <3>1, <3>2 DEF CacheInvariant, JsCurrent
    <2>2. ParsedBefore(f) = zep[f].content
      BY <1>4, <2>1 DEF Reuse, ParsedBefore, CacheInvariant, PhpFollows
    <2>3. zep[f].content \in Contents
      BY <1>1, <2>1 DEF Dated
    <2>4. f \in DOMAIN ir' /\ ir'[f] = zep[f].content /\ ir' = wanted'
      <3>1. ir = wanted /\ ir \in OfFiles(Contents)
        BY DEF TypeOK, CacheInvariant
      <3>2. ir' = With(ir, f, zep[f].content) /\ wanted' = With(wanted, f, zep[f].content)
        BY <1>4, <2>2 DEF Reuse
      <3>3. /\ f \in DOMAIN With(ir, f, zep[f].content)
            /\ With(ir, f, zep[f].content)[f] = zep[f].content
        BY DEF With
      <3> QED BY <3>1, <3>2, <3>3
    <2> QED BY <1>4, <2>1, <2>4
            DEF Reuse, CacheInvariant, TimesPast, JsCurrent, PhpFollows, InHand
  <1>5. CASE WriteJs
    <2>1. At(ir[file]) # Absent /\ At(ir[file]).time = now /\ At(ir[file]).content = ir[file]
      <3>1. ir[file] \in Contents
        BY <1>5, OfFilesFacts DEF WriteJs, CacheInvariant, InHand, TypeOK
      <3> QED BY <1>1, <3>1, AbsentAssumption DEF At
    <2>2. js' = [js EXCEPT ![file] = At(ir[file])] /\ js \in [Files -> Dated \cup {Absent}]
      BY <1>5 DEF WriteJs, TypeOK
    <2>3. file \in Files /\ (zep[file] # Absent => zep[file].content = ir[file])
      BY <1>5 DEF WriteJs, CacheInvariant, InHand
    <2>4. TimesPast' /\ JsCurrent'
      <3>1. UNCHANGED <<now, zep>>
        BY <1>5 DEF WriteJs
      <3>2. /\ js'[file] = At(ir[file])
            /\ \A f \in Files : f # file => js'[f] = js[f]
        BY <2>2, <2>3
      <3>3. TimesPast'
        BY <1>1, <2>1, <3>1, <3>2 DEF CacheInvariant, TimesPast
      <3>4. JsCurrent'
        BY <2>1, <2>3, <3>1, <3>2 DEF CacheInvariant, JsCurrent
      <3> QED BY <3>3, <3>4
    <2>5. PhpFollows' /\ InHand'
      BY <1>5, <2>1, <2>2, <2>3 DEF WriteJs, CacheInvariant, PhpFollows, InHand, memory
    <2> QED BY <1>5, <2>4, <2>5 DEF WriteJs, CacheInvariant, memory
  <1>6. CASE WritePhp
    <2>1. file \in Files /\ js[file] # Absent /\ js[file].content = ir[file]
      BY <1>6 DEF WritePhp, CacheInvariant, InHand
    <2>2. jsphp' = [jsphp EXCEPT ![file] = ir[file]] /\ jsphp \in [Files -> Contents \cup {Absent}]
      BY <1>6 DEF WritePhp, TypeOK
    <2>3. PhpFollows'
      BY <1>6, <2>1, <2>2 DEF WritePhp, CacheInvariant, PhpFollows
    <2> QED BY <1>6, <2>3 DEF WritePhp, CacheInvariant, TimesPast, JsCurrent, InHand, memory
  <1>7. CASE Rank
    BY <1>7, CacheKept DEF Rank, CacheInvariant
  <1> QED BY <1>2, <1>3, <1>4, <1>5, <1>6, <1>7

\* The other steps only remove parsed files, all of them.
LEMMA RestCache ==
  ASSUME TypeOK, CacheInvariant, Careful,
         \/ \E f \in Files : WriteNew(f) \/ Compare(f)
         \/ Rewrite \/ WriteM4 \/ WriteW32 \/ WriteSum \/ Unconfigure \/ Configure \/ Make
         \/ Clean \/ FullClean \/ FullCleanExt \/ Done \/ Stop
  PROVE  CacheInvariant'
  <1> USE DEF user, cached, printed, built, memory
  <1>0. ir = wanted
    BY DEF CacheInvariant
  <1>1. ASSUME NEW f \in Files, WriteNew(f) \/ Compare(f) PROVE CacheInvariant'
    BY <1>0, <1>1, CacheKept DEF WriteNew, Compare
  <1>2. CASE Rewrite \/ WriteM4 \/ Unconfigure \/ Configure \/ Make \/ Clean
    BY <1>0, <1>2, CacheKept DEF Rewrite, WriteM4, Unconfigure, Configure, Make, Clean
  <1>3. CASE WriteW32 \/ WriteSum \/ FullCleanExt \/ Done
    BY <1>0, <1>3, CacheKept DEF WriteW32, WriteSum, FullCleanExt, Done, Exit
  <1>4. CASE FullClean
    BY <1>4 DEF FullClean, CacheInvariant, TimesPast, JsCurrent, PhpFollows, InHand
  <1>5. CASE Stop
    BY <1>5, CacheKept DEF Stop, Exposed, Exit, Careful
  <1> QED BY <1>1, <1>2, <1>3, <1>4, <1>5

-----------------------------------------------------------------------------
(* The C files and their hashes *)

\* What the C file and the hash of a file say is remembered.
LEMMA RememberedFacts ==
  ASSUME NEW f \in Files
  PROVE  /\ csrc[f] # Absent => csrc[f].content \in Remembered(f)
         /\ md5[f] # Absent => md5[f].content \in Remembered(f)
  BY DEF Remembered

\* The steps of the user: nobody goes back to what is remembered.
LEMMA UserHash ==
  ASSUME TypeOK, HashInvariant, Careful,
         \/ Tick
         \/ \E f \in Files, content \in Contents : Edit(f, content)
         \/ \E f \in Files : Delete(f)
         \/ \E value \in Flags : ChangeFlags(value)
  PROVE  HashInvariant'
  <1>1. UNCHANGED <<csrc, md5, ir, pc, file, todo>>
    BY DEF Tick, Edit, Delete, ChangeFlags, cached, printed, memory
  <1>2. /\ RewriteNeeded' /\ FilesWritten' /\ OutputWritten' /\ Pending' = Pending
        /\ \A f \in Files : /\ (Rewriting(f)' => Rewriting(f)) /\ (WrongHash(f)' => WrongHash(f))
                            /\ Remembered(f)' = Remembered(f)
                            /\ (WrongHash(f) => md5[f] # Absent)
    BY <1>1 DEF HashInvariant, RewriteNeeded, FilesWritten, OutputWritten, Pending, Rewriting,
                Current, WrongHash, HashExpired, Remembered, Listed
  <1>3. \A f \in Files : \/ zep'[f] = zep[f]
                         \/ zep'[f] = Absent
                         \/ zep'[f].content \notin Remembered(f)
    <2>1. zep \in [Files -> Dated \cup {Absent}]
      BY DEF TypeOK
    <2>2. CASE Tick \/ \E value \in Flags : ChangeFlags(value)
      BY <2>2 DEF Tick, ChangeFlags
    <2>3. ASSUME NEW f \in Files, NEW content \in Contents, Edit(f, content)
          PROVE  \A g \in Files : zep'[g] = zep[g] \/ zep'[g].content \notin Remembered(g)
      BY <2>1, <2>3 DEF Edit, At, Careful
    <2>4. ASSUME NEW f \in Files, Delete(f)
          PROVE  \A g \in Files : zep'[g] = zep[g] \/ zep'[g] = Absent
      BY <2>1, <2>4 DEF Delete
    <2> QED BY <2>2, <2>3, <2>4
  <1>4. HashHarmless'
    BY <1>1, <1>2, <1>3, RememberedFacts DEF HashInvariant, HashHarmless
  <1>5. EditsNew'
    BY <1>1, <1>2, <1>3 DEF HashInvariant, EditsNew
  <1> QED BY <1>2, <1>4, <1>5 DEF HashInvariant

\* A command that has ended, or has just begun, has nothing pending.
LEMMA NothingPending ==
  ASSUME HashInvariant, UNCHANGED <<zep, csrc, md5>>, ir' = Nothing,
         pc' \notin {"compile", "rewrite"}
  PROVE  HashInvariant'
  <1>1. Listed' = {}
    BY DEF Listed, Nothing
  <1> QED BY <1>1 DEF HashInvariant, HashHarmless, EditsNew, RewriteNeeded, FilesWritten,
          OutputWritten, Pending, Rewriting, WrongHash, HashExpired

\* The steps of round 1: a file just parsed is what its source says.
LEMMA ParseHash ==
  ASSUME TypeOK, CacheInvariant, CacheInvariant', HashInvariant,
         \/ \E cmd \in Commands : Start(cmd)
         \/ \E f \in Files : Parse(f) \/ Reuse(f)
         \/ WriteJs \/ WritePhp \/ Rank
  PROVE  HashInvariant'
  <1> USE DEF user, cached, printed
  <1>1. ASSUME NEW cmd \in Commands, Start(cmd) PROVE HashInvariant'
    BY <1>1, NothingPending DEF Start
  <1>2. ASSUME NEW f \in Files, Parse(f) \/ Reuse(f) PROVE HashInvariant'
    <2>1. ir' = With(ir, f, zep[f].content)
      <3>1. wanted' = With(wanted, f, zep[f].content)
        BY <1>2 DEF Parse, Reuse
      <3> QED BY <3>1 DEF CacheInvariant
    <2>2. /\ Listed' = Listed \cup {f} /\ ir'[f] = zep[f].content
          /\ \A g \in Listed : g # f => ir'[g] = ir[g]
      BY <2>1 DEF With, Listed
    <2>3. /\ pc = "parse" /\ pc' \in {"parse", "write js", "write php"}
          /\ UNCHANGED <<zep, csrc, md5>>
      BY <1>2 DEF Parse, Reuse
    <2>4. \A g \in Files : /\ g \in Pending' => g = f \/ g \in Pending
                           /\ WrongHash(g)' => WrongHash(g)
                           /\ Remembered(g)' = Remembered(g)
                           /\ ~Rewriting(g)'
      BY <2>2, <2>3 DEF Pending, WrongHash, HashExpired, Remembered, Rewriting
    <2>5. \A g \in Files : g \in Pending /\ g # f => ir'[g] = ir[g]
      BY <2>2 DEF Pending
    <2>6. zep[f] # Absent
      BY <1>2 DEF Parse, Reuse
    <2>7. HashHarmless'
      BY <2>2, <2>3, <2>4, <2>5, <2>6 DEF HashInvariant, HashHarmless
    <2>8. EditsNew'
      BY <2>2, <2>3, <2>4, <2>5 DEF HashInvariant, EditsNew
    <2> QED BY <2>3, <2>7, <2>8 DEF HashInvariant, RewriteNeeded, FilesWritten, OutputWritten
  <1>3. CASE WriteJs \/ WritePhp
    BY <1>3 DEF WriteJs, WritePhp, memory, HashInvariant, HashHarmless, EditsNew, RewriteNeeded,
       FilesWritten, OutputWritten, Pending, Rewriting, WrongHash, HashExpired, Remembered, Listed
  <1>4. CASE Rank
    <2>1. Pending' = Pending
      BY <1>4 DEF Rank, Pending, Listed
    <2> QED BY <1>4, <2>1 DEF Rank, HashInvariant, HashHarmless, EditsNew, RewriteNeeded,
       FilesWritten, OutputWritten, Rewriting, WrongHash, HashExpired, Remembered, Listed, Current
  <1> QED BY <1>1, <1>2, <1>3, <1>4

\* The steps of round 3: a C file that is left alone says what was parsed, and
\* the hash of a file that is rewritten is not the hash of its source.
LEMMA CompileHash ==
  ASSUME TypeOK, HashInvariant,
         \/ \E f \in Files : WriteNew(f) \/ Compare(f)
         \/ Rewrite
  PROVE  HashInvariant'
  <1> USE DEF user, cached, printed, Listed
  <1>1. \A f \in Files : /\ csrc[f] # Absent => csrc[f] \in Dated /\ csrc[f].time \in Nat
                         /\ md5[f] # Absent => md5[f] \in Dated /\ md5[f].time \in Nat
    BY BoundsAssumption DEF TypeOK, Dated
  <1>2. /\ csrc \in [Files -> Dated \cup {Absent}] /\ md5 \in [Files -> Dated \cup {Absent}]
        /\ now \in 0..MaxTime
    BY DEF TypeOK
  <1>3. \A content \in Contents : /\ At(content) # Absent
                                 /\ At(content).content = content /\ At(content).time = now
    BY <1>2, AbsentFacts DEF At, Dated
  <1>4. \A f \in Listed : ir[f] \in Contents
    BY OfFilesFacts DEF TypeOK
  <1>5. ASSUME NEW f \in Files, WriteNew(f) PROVE HashInvariant'
    <2>1. /\ pc = "compile" /\ pc' = "compile" /\ f \in todo /\ csrc[f] = Absent /\ f \in Listed
          /\ md5[f] = Absent /\ todo' = todo \ {f}
          /\ UNCHANGED <<zep, md5, ir, file>>
      BY <1>5 DEF WriteNew, HashInvariant, FilesWritten, HashHarmless
    <2>2. /\ csrc'[f] # Absent /\ csrc'[f].content = ir[f]
          /\ \A g \in Files : g # f => csrc'[g] = csrc[g]
      BY <1>2, <1>3, <1>4, <1>5, <2>1 DEF WriteNew
    <2>3. \A g \in Files : /\ g \in Pending' => g \in Pending /\ g # f
                           /\ WrongHash(g)' => WrongHash(g) /\ g # f
                           /\ g # f => Remembered(g)' = Remembered(g)
                           /\ ~Rewriting(g) /\ ~Rewriting(g)'
      BY <2>1, <2>2 DEF Pending, WrongHash, HashExpired, Remembered, Rewriting
    <2>4. HashHarmless'
      BY <2>1, <2>2, <2>3 DEF HashInvariant, HashHarmless
    <2>5. EditsNew'
      BY <2>1, <2>3 DEF HashInvariant, EditsNew
    <2>6. FilesWritten'
      <3>1. Listed \subseteq Files
        BY OfFilesFacts DEF TypeOK
      <3> QED BY <2>1, <2>2, <2>3, <3>1 DEF HashInvariant, FilesWritten, Current, Rewriting
    <2> QED BY <2>1, <2>4, <2>5, <2>6 DEF HashInvariant, RewriteNeeded, OutputWritten
  <1>6. ASSUME NEW f \in Files, Compare(f) PROVE HashInvariant'
    <2>1. /\ pc = "compile" /\ f \in todo /\ csrc[f] # Absent /\ f \in Listed
          /\ todo' = todo \ {f} /\ file' = f
          /\ pc' = IF md5'[f].content = ir[f] THEN "compile" ELSE "rewrite"
          /\ UNCHANGED <<zep, csrc, ir>>
      BY <1>6 DEF Compare, HashInvariant, FilesWritten
    <2>2. /\ md5'[f] = HashOfFile(f)
          /\ \A g \in Files : g # f => md5'[g] = md5[g]
      BY <1>2, <1>6 DEF Compare
    <2>3. csrc[f].content \in Contents
      BY <1>1, <2>1 DEF Dated
    <2>4. /\ md5'[f] # Absent
          /\ \/ HashExpired(f) /\ md5'[f].content = csrc[f].content
             \/ ~HashExpired(f) /\ md5'[f] = md5[f]
      BY <1>3, <2>2, <2>3 DEF HashOfFile, HashExpired
    <2>5. f \in Pending /\ f \notin Pending'
      BY <2>1 DEF Pending
    <2>6. md5'[f].content = ir[f] => csrc[f].content = ir[f]
      BY <2>4, <2>5 DEF HashInvariant, HashHarmless, WrongHash
    <2>7. /\ WrongHash(f)' => WrongHash(f)
          /\ WrongHash(f) => md5'[f] = md5[f]
          /\ \A content : content \in Remembered(f)' => content \in Remembered(f)
      BY <2>1, <2>4 DEF WrongHash, HashExpired, Remembered
    <2>8. \A g \in Files : g # f => /\ g \in Pending' => g \in Pending
                                    /\ WrongHash(g)' => WrongHash(g)
                                    /\ Remembered(g)' = Remembered(g)
                                    /\ ~Rewriting(g) /\ ~Rewriting(g)'
      BY <2>1, <2>2 DEF Pending, WrongHash, HashExpired, Remembered, Rewriting
    <2>9. HashHarmless'
      BY <2>1, <2>2, <2>5, <2>7, <2>8 DEF HashInvariant, HashHarmless
    <2>10. EditsNew'
      BY <2>1, <2>5, <2>7, <2>8 DEF HashInvariant, EditsNew
    <2>11. RewriteNeeded'
      BY <2>1, <2>4 DEF RewriteNeeded
    <2>12. FilesWritten'
      BY <2>1, <2>6 DEF HashInvariant, FilesWritten, Current, Rewriting
    <2> QED BY <2>1, <2>9, <2>10, <2>11, <2>12 DEF HashInvariant, OutputWritten
  <1>7. CASE Rewrite
    <2>1. /\ pc = "rewrite" /\ pc' = "compile" /\ file \in Listed /\ file \in Files
          /\ file \notin todo /\ csrc[file] # Absent /\ md5[file] # Absent
          /\ md5[file].content # ir[file]
          /\ UNCHANGED <<zep, md5, ir, file, todo>>
      BY <1>7 DEF Rewrite, memory, HashInvariant, RewriteNeeded
    <2>2. /\ csrc'[file] # Absent /\ csrc'[file].content = ir[file]
          /\ \A g \in Files : g # file => csrc'[g] = csrc[g]
      BY <1>2, <1>3, <1>4, <1>7, <2>1 DEF Rewrite
    <2>3. zep[file] # Absent => zep[file].content # md5[file].content
      BY <2>1, RememberedFacts DEF HashInvariant, EditsNew, Rewriting
    <2>4. \A g \in Files : /\ g \in Pending' => g \in Pending /\ g # file
                           /\ g # file /\ WrongHash(g)' => WrongHash(g)
                           /\ g # file => Remembered(g)' = Remembered(g)
                           /\ ~Rewriting(g)'
      BY <2>1, <2>2 DEF Pending, WrongHash, HashExpired, Remembered, Rewriting
    <2>5. HashHarmless'
      BY <2>1, <2>2, <2>3, <2>4 DEF HashInvariant, HashHarmless
    <2>6. EditsNew'
      BY <2>1, <2>4 DEF HashInvariant, EditsNew
    <2>7. FilesWritten'
      <3>1. Listed \subseteq Files
        BY OfFilesFacts DEF TypeOK
      <3> QED BY <2>1, <2>2, <3>1 DEF HashInvariant, FilesWritten, Current, Rewriting
    <2> QED BY <2>1, <2>5, <2>6, <2>7 DEF HashInvariant, RewriteNeeded, OutputWritten
  <1> QED BY <1>5, <1>6, <1>7

\* The other steps write no C file; they only remove hashes, all of them.
LEMMA RestHash ==
  ASSUME HashInvariant,
         \/ WriteM4 \/ WriteW32 \/ WriteSum \/ Unconfigure \/ Configure \/ Make
         \/ Clean \/ FullClean \/ FullCleanExt \/ Done \/ Stop
  PROVE  HashInvariant'
  <1> USE DEF user, cached, printed, memory, Listed
  <1>1. CASE Stop \/ Done \/ FullCleanExt \/ (WriteW32 /\ Exit) \/ (WriteSum /\ Exit)
    BY <1>1, NothingPending DEF Stop, Done, FullCleanExt, WriteW32, WriteSum, Exit
  <1>2. CASE WriteM4
    BY <1>2 DEF WriteM4, HashInvariant, HashHarmless, EditsNew, RewriteNeeded, FilesWritten,
       OutputWritten, Pending, Rewriting, WrongHash, HashExpired, Remembered, Current
  <1>3. CASE (WriteW32 /\ ~Exit) \/ (WriteSum /\ ~Exit) \/ Unconfigure \/ Configure \/ Make
    BY <1>3 DEF WriteW32, WriteSum, Unconfigure, Configure, Make, HashInvariant, HashHarmless,
       EditsNew, RewriteNeeded, FilesWritten, OutputWritten, Pending, Rewriting, WrongHash,
       HashExpired, Remembered, Current
  <1>4. CASE Clean
    BY <1>4 DEF Clean, HashInvariant, HashHarmless, EditsNew, RewriteNeeded, FilesWritten,
       OutputWritten, Pending, Rewriting, WrongHash, HashExpired, Remembered, Current
  <1>5. CASE FullClean
    BY <1>5 DEF FullClean, HashInvariant, HashHarmless, EditsNew, RewriteNeeded, FilesWritten,
       OutputWritten, Pending, Rewriting, WrongHash, HashExpired, Remembered, Current
  <1> QED BY <1>1, <1>2, <1>3, <1>4, <1>5

-----------------------------------------------------------------------------
(* The configuration, and the extension *)

\* The Makefile is for the files of the sum: install stores a new sum just before
\* it removes the old Makefile and does not stop in between, and stubs does not
\* store a new one while there is a Makefile.
LEMMA ConfigStep ==
  ASSUME TypeOK, ConfigInvariant, Careful, Next
  PROVE  ConfigInvariant'
  <1> USE DEF user, cached, printed, built, memory, ConfigInvariant, ConfigWritten,
              MakefileFollowsSum, Listed
  <1>1. CASE \/ Tick
             \/ \E f \in Files, content \in Contents : Edit(f, content)
             \/ \E f \in Files : Delete(f)
             \/ \E value \in Flags : ChangeFlags(value)
    BY <1>1 DEF Tick, Edit, Delete, ChangeFlags, Sum
  <1>2. CASE \/ \E cmd \in Commands : Start(cmd)
             \/ \E f \in Files : Parse(f) \/ Reuse(f)
             \/ WriteJs \/ WritePhp \/ Rank
    BY <1>2 DEF Start, Parse, Reuse, WriteJs, WritePhp, Rank
  <1>3. CASE \/ \E f \in Files : WriteNew(f) \/ Compare(f)
             \/ Rewrite
    BY <1>3 DEF WriteNew, Compare, Rewrite
  <1>4. CASE WriteM4
    <2>1. Config \in Configs
      BY OfFilesFacts DEF Config, Configs, TypeOK
    <2> QED BY <1>4, <2>1, AbsentFacts DEF WriteM4, Config
  <1>5. CASE WriteW32
    BY <1>5 DEF WriteW32, Exit
  <1>6. CASE WriteSum
    <2>1. DOMAIN Sum = Listed
      BY DEF Sum
    <2>2. CASE command = "install"
      <3>1. Sum' = Sum
        BY <1>6, <2>2 DEF WriteSum, Sum
      <3> QED BY <1>6, <2>1, <2>2, <3>1 DEF WriteSum
    <2>3. CASE command = "stubs"
      BY <1>6, <2>1, <2>3 DEF WriteSum, Exit, Careful
    <2> QED BY <1>6, <2>2, <2>3 DEF WriteSum
  <1>7. CASE Unconfigure
    BY <1>7 DEF Unconfigure, Sum
  <1>8. CASE Configure
    <2>1. DOMAIN Sum = Listed /\ Sum' = Sum
      BY <1>8 DEF Configure, Sum
    <2> QED BY <1>8, <2>1 DEF Configure
  <1>9. CASE Make
    BY <1>9 DEF Make
  <1>10. CASE Clean \/ FullClean \/ FullCleanExt \/ Done
    BY <1>10 DEF Clean, FullClean, FullCleanExt, Done, Exit
  <1>11. CASE Stop
    BY <1>11 DEF Stop, Exit, Exposed, Careful
  <1> QED BY <1>1, <1>2, <1>3, <1>4, <1>5, <1>6, <1>7, <1>8, <1>9, <1>10, <1>11 DEF Next

\* The extension make links has the content of every file of this command.
LEMMA CurrentStep ==
  ASSUME TypeOK, CacheInvariant, HashInvariant, ConfigInvariant, BuildCurrent, Next
  PROVE  BuildCurrent'
  <1> USE DEF user, cached, printed, built, memory, BuildCurrent
  <1>1. CASE Make
    <2>1. ir = wanted /\ ir \in OfFiles(Contents) /\ DOMAIN ir = Listed
      BY DEF CacheInvariant, TypeOK, Listed
    <2>2. makefile.files = Listed
      BY <1>1, SumFacts DEF Make, ConfigInvariant, ConfigWritten, MakefileFollowsSum
    <2>3. so' = [f \in Listed |-> ir[f]]
      BY <1>1, <2>2 DEF Make, HashInvariant, OutputWritten
    <2>4. ir = [f \in Listed |-> ir[f]]
      BY <2>1, OfFilesFacts
    <2> QED BY <1>1, <2>1, <2>3, <2>4 DEF Make
  <1>2. CASE \/ Tick
             \/ \E f \in Files, content \in Contents : Edit(f, content)
             \/ \E f \in Files : Delete(f)
             \/ \E value \in Flags : ChangeFlags(value)
    BY <1>2 DEF Tick, Edit, Delete, ChangeFlags
  <1>3. ASSUME ~Make, pc' = "installed", ~(pc = "installed" /\ UNCHANGED <<so, wanted>>)
        PROVE  FALSE
    BY <1>2, <1>3 DEF Next, Tick, Edit, Delete, ChangeFlags, Start, Parse, Reuse, WriteJs, WritePhp,
       Rank, WriteNew, Compare, Rewrite, WriteM4, WriteW32, WriteSum, Unconfigure, Configure,
       Clean, FullClean, FullCleanExt, Done, Stop, Exit
  <1> QED BY <1>1, <1>3

\* Before the first command no file is derived from another.
LEMMA BuildInit == Init => BuildInvariant
  <1> SUFFICES ASSUME Init PROVE BuildInvariant
    OBVIOUS
  <1>1. \A content \in Contents : At(content) \in Dated /\ At(content).time = 0
    BY BoundsAssumption DEF Init, At, Dated
  <1>2. TypeOK
    <2>1. zep \in [Files -> Dated \cup {Absent}]
      BY <1>1 DEF Init
    <2>2. now \in 0..MaxTime /\ changes \in 0..MaxChanges
      BY BoundsAssumption DEF Init
    <2> QED BY <2>1, <2>2, NothingType DEF Init, TypeOK, Places
  <1>3. CacheInvariant
    <2>1. \A f \in Files : zep[f] # Absent => zep[f].time = 0
      BY <1>1 DEF Init
    <2> QED BY <2>1 DEF Init, CacheInvariant, TimesPast, JsCurrent, PhpFollows, InHand
  <1>4. HashInvariant
    <2>1. Listed = {}
      BY DEF Init, Listed, Nothing
    <2> QED BY <2>1 DEF Init, HashInvariant, HashHarmless, EditsNew, RewriteNeeded,
         FilesWritten, OutputWritten, Pending, Rewriting, WrongHash, HashExpired
  <1>5. ConfigInvariant /\ BuildCurrent
    BY DEF Init, ConfigInvariant, ConfigWritten, MakefileFollowsSum, BuildCurrent
  <1> QED BY <1>2, <1>3, <1>4, <1>5 DEF BuildInvariant

\* Every step keeps the invariant.
LEMMA BuildStep ==
  ASSUME BuildInvariant, Careful, [Next]_vars
  PROVE  BuildInvariant'
  <1> USE DEF BuildInvariant
  <1>1. CASE UNCHANGED vars
    <2> USE <1>1 DEF vars, user, cached, printed, built, memory
    <2>1. TypeOK'
      BY DEF TypeOK
    <2>2. CacheInvariant'
      BY DEF CacheInvariant, TimesPast, JsCurrent, PhpFollows, InHand, Listed
    <2>3. HashInvariant'
      BY DEF HashInvariant, HashHarmless, EditsNew, RewriteNeeded, FilesWritten, OutputWritten,
         Pending, Rewriting, WrongHash, HashExpired, Remembered, Current, Listed
    <2>4. ConfigInvariant' /\ BuildCurrent'
      BY DEF ConfigInvariant, ConfigWritten, MakefileFollowsSum, BuildCurrent, Sum, Listed
    <2> QED BY <2>1, <2>2, <2>3, <2>4
  <1>2. CASE Next
    <2>1. ConfigInvariant' /\ BuildCurrent'
      BY <1>2, ConfigStep, CurrentStep
    <2>2. CASE \/ Tick
               \/ \E f \in Files, content \in Contents : Edit(f, content)
               \/ \E f \in Files : Delete(f)
               \/ \E value \in Flags : ChangeFlags(value)
      BY <2>1, <2>2, UserType, UserCache, UserHash
    <2>3. CASE \/ \E cmd \in Commands : Start(cmd)
               \/ \E f \in Files : Parse(f) \/ Reuse(f)
               \/ WriteJs \/ WritePhp \/ Rank
      <3>1. CacheInvariant' /\ TypeOK'
        BY <2>3, ParseType, ParseCache DEF CacheInvariant
      <3> QED BY <2>1, <2>3, <3>1, ParseHash
    <2>4. CASE \/ \E f \in Files : WriteNew(f) \/ Compare(f)
               \/ Rewrite
      BY <2>1, <2>4, CompileType, RestCache, CompileHash DEF HashInvariant
    <2>5. CASE \/ WriteM4 \/ WriteW32 \/ WriteSum \/ Unconfigure \/ Configure \/ Make
               \/ Clean \/ FullClean \/ FullCleanExt \/ Done \/ Stop
      BY <2>1, <2>5, ConfigType, RestCache, RestHash DEF HashInvariant
    <2> QED BY <1>2, <2>2, <2>3, <2>4, <2>5 DEF Next
  <1> QED BY <1>1, <1>2

\* The inductive invariant of the build holds in every reachable state.
THEOREM BuildInvariantHolds ==
  ASSUME Careful
  PROVE  Spec => []BuildInvariant
  <1>1. BuildInvariant /\ [Next]_vars => BuildInvariant'
    BY BuildStep
  <1> QED BY <1>1, BuildInit, PTL DEF Spec

\* What a command holds in memory as the parse of a source is always one, and
\* no file is taken for what it is not.
THEOREM BuildTypeCorrect ==
  ASSUME Careful
  PROVE  Spec => []TypeOK
  <1>1. BuildInvariant => TypeOK
    BY DEF BuildInvariant
  <1> QED BY <1>1, BuildInvariantHolds, PTL

\* zephir install links what the sources said when it came to them.
THEOREM BuildCurrentHolds ==
  ASSUME Careful
  PROVE  Spec => []BuildCurrent
  <1>1. BuildInvariant => BuildCurrent
    BY DEF BuildInvariant
  <1> QED BY <1>1, BuildInvariantHolds, PTL

\* A C file that was left alone had not changed.
THEOREM OutputWrittenHolds ==
  ASSUME Careful
  PROVE  Spec => []OutputWritten
  <1>1. BuildInvariant => OutputWritten
    BY DEF BuildInvariant, HashInvariant
  <1> QED BY <1>1, BuildInvariantHolds, PTL

\* make never runs with a Makefile for other files.
THEOREM ConfiguredForFilesHolds ==
  ASSUME Careful
  PROVE  Spec => []ConfiguredForFiles
  <1>1. BuildInvariant => ConfiguredForFiles
    BY SumFacts DEF BuildInvariant, ConfigInvariant, ConfigWritten, MakefileFollowsSum,
       ConfiguredForFiles
  <1> QED BY <1>1, BuildInvariantHolds, PTL

=============================================================================
