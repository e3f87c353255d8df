------------------------------ MODULE BundledSeed ------------------------------
(***************************************************************************)
(* loadVerifiedBundledSeed (electron/main/managed/bundled-seed.ts): the    *)
(* Harness seed packaged with the application is read file by file, with   *)
(* an await before and after every look at the disk, while an installer or *)
(* a person may replace, damage or remove the very files.  A body stands   *)
(* for the contents of a file: its release and the form it is in; two      *)
(* bodies have the same digest only when they are the same contents.       *)
(***************************************************************************)
EXTENDS Naturals, FiniteSets

CONSTANTS
  Releases,    \* the application releases whose seed may be on the disk
  MaxChanges,  \* bound: changes made to the files by somebody else
  None         \* no file, no answer

VARIABLES
  dirs,     \* dirs[d]: a direct directory, a link to one, or absent
  extra,    \* the directories holding a child nobody expects
  files,    \* files[n]: the file, or None
  changes,  \* how many changes were made; also the stamp of the newest
  step,     \* where the loader is
  seen,     \* seen[n]: what the loader's current look at n found so far
  held,     \* what the loader keeps: parsed manifest, resources, texts
  answer    \* None, a refusal code, or the verified seed

vars == <<dirs, extra, files, changes, step, seen, held, answer>>

Names == {"manifest", "bundle", "package", "generation"}
expectedResourcePaths == {"bundle", "package", "generation"}
texts == {"package", "generation"}
Dirs == {"root", "harness", "plugins"}
Home(n) == CASE n = "manifest" -> "root"
             [] n = "bundle" -> "harness"
             [] OTHER -> "plugins"

\* The forms a file is found in; the manifest can also disagree with itself,
\* or be larger than MAX_JSON_RESOURCE_BYTES.
Forms(n) == CASE n = "manifest" -> {"packaged", "damaged", "mislabelled", "huge"}
              [] n = "bundle" -> {"packaged", "damaged"}
              [] OTHER -> {"packaged", "reformatted", "damaged"}
Bodies(n) == [release : Releases, form : Forms(n)]
Files(n) == [body : Bodies(n), link : BOOLEAN, stamp : 0..MaxChanges]

Packaged(r) == [release |-> r, form |-> "packaged"]

\* numericByteSize: damage keeps the length, another form does not
MAX_JSON_RESOURCE_BYTES == 2
numericByteSize(body) == CASE body.form = "huge" -> 3
                           [] body.form \in {"reformatted", "mislabelled"} -> 2
                           [] OTHER -> 1

\* The digest of a body. The package manifest says the same in every release.
sha256(n, body) == IF n = "package" THEN [body EXCEPT !.release = 0] ELSE body

Resource(n, body) == [sha256 |-> sha256(n, body), bytes |-> numericByteSize(body)]

NoLook == [at |-> "before", before |-> None, body |-> None]
NoSeed == [manifest |-> None, resources |-> None, texts |-> None]

-----------------------------------------------------------------------------
(* Conversions and checks                                                    *)

\* parseSeedManifest: the record a well-formed manifest is read as. Its list
\* declares every resource; its labels repeat the digests and bind the plugin
\* generation to the Harness revision.
pluginGenerationIdentity(generation, package) == <<generation, package>>
parseResourceRecord(release) ==
  [n \in expectedResourcePaths |-> Resource(n, Packaged(release))]
parseSeedManifest(body) ==
  [revision |-> body.release,
   resources |-> parseResourceRecord(body.release),
   labels |-> [n \in expectedResourcePaths |-> sha256(n, Packaged(body.release))],
   generationId |-> body.release,
   identity |-> IF body.form = "mislabelled" THEN <<>>
                ELSE pluginGenerationIdentity(body.release,
                       sha256("package", Packaged(body.release)))]

\* Damage is no JSON, or JSON without exactly the fields, digests, lengths,
\* identifiers and addresses a record must have; all of it is refused alike.
exactObject(body) == body.form # "damaged"
parseJson(body) == exactObject(body)

parsePluginPackageManifest(body) == parseJson(body)
\* the generation must name the Harness revision
parsePluginGenerationManifest(body, revision) == parseJson(body) /\ body.release = revision

assertExactResourceList(declared, actual) == declared = actual

bindingsOfInspected(m, res, txt) ==
  /\ \A n \in expectedResourcePaths : m.labels[n] = res[n].sha256
  /\ m.generationId = txt["generation"].release
  /\ m.identity = pluginGenerationIdentity(txt["generation"].release,
                                           res["package"].sha256)

assertManifestResourceBindings(m, res, txt) ==
  /\ \A n \in expectedResourcePaths : m.labels[n] = res[n].sha256
  /\ \A n \in texts : sha256(n, txt[n]) = res[n].sha256
  /\ m.generationId = txt["generation"].release
  /\ m.identity = pluginGenerationIdentity(txt["generation"].release,
                                           res["package"].sha256)

\* sameFile: device, inode, length and modification time are unchanged
sameFile(before, after) ==
  /\ before.stamp = after.stamp
  /\ numericByteSize(before.body) = numericByteSize(after.body)

-----------------------------------------------------------------------------
Refuse(code) ==
  /\ answer' = code /\ step' = "done"
  /\ seen' = [n \in Names |-> NoLook] /\ held' = NoSeed

\* What lstat and readdir of one directory answer, as the code of the refusal
\* (None: as expected).  The children are the manifest and the two directories
\* of the root, and the resources of each directory.
assertDirectDirectory(d) == CASE dirs[d] = "absent" -> "bundled_seed.unavailable"
                              [] dirs[d] = "link" -> "bundled_seed.invalid"
                              [] OTHER -> None
missingChild(d) ==
  \/ \E n \in Names : Home(n) = d /\ files[n] = None
  \/ d = "root" /\ \E e \in Dirs : dirs[e] = "absent"
assertExactChildren(d) == CASE missingChild(d) -> "bundled_seed.unavailable"
                            [] d \in extra -> "bundled_seed.invalid"
                            [] OTHER -> None

\* One directory look of every directory of ds (Promise.all: the first refusal
\* wins, which one that is depends on the disk), then the next step.
LookAt(ds, look(_), next) ==
  \/ \E d \in ds : look(d) # None /\ Refuse(look(d))
  \/ /\ \A d \in ds : look(d) = None
     /\ step' = next /\ UNCHANGED <<seen, held, answer>>

Directories ==
  /\ \/ step = "root" /\ LookAt({"root"}, assertDirectDirectory, "children")
     \/ step = "children" /\ LookAt({"root"}, assertExactChildren, "manifest")
     \/ /\ step = "directories"
        /\ LookAt({"harness", "plugins"}, assertDirectDirectory, "contents")
     \/ /\ step = "contents"
        /\ LookAt({"harness", "plugins"}, assertExactChildren, "inspect")
  /\ UNCHANGED <<dirs, extra, files, changes>>

\* The files the loader is looking at: the manifest, the resources it hashes,
\* and the two texts it reads again for their contents.
Looking == CASE step = "manifest" -> {"manifest"}
             [] step = "inspect" -> expectedResourcePaths
             [] step = "texts" -> texts
             [] OTHER -> {}

\* assertDirectRegularFile: lstat before and after the contents are read
assertDirectRegularFile(n) == CASE files[n] = None -> "bundled_seed.unavailable"
                                [] files[n].link -> "bundled_seed.invalid"
                                [] OTHER -> None

tooLong(n) == step # "inspect" /\ numericByteSize(files[n].body) > MAX_JSON_RESOURCE_BYTES

\* inspectResource and readDirectText, up to the digest or the text
Before(n) ==
  /\ n \in Looking /\ seen[n].at = "before"
  /\ \/ assertDirectRegularFile(n) # None /\ Refuse(assertDirectRegularFile(n))
     \/ /\ assertDirectRegularFile(n) = None /\ tooLong(n)
        /\ Refuse("bundled_seed.invalid")
     \/ /\ assertDirectRegularFile(n) = None /\ ~tooLong(n)
        /\ seen' = [seen EXCEPT ![n] = [at |-> "read", before |-> files[n], body |-> None]]
        /\ UNCHANGED <<step, held, answer>>
  /\ UNCHANGED <<dirs, extra, files, changes>>

\* sha256File and readFile follow a link, and fail on a missing file
Read(n) ==
  /\ n \in Looking /\ seen[n].at = "read"
  /\ \/ files[n] = None /\ Refuse("bundled_seed.unavailable")
     \/ /\ files[n] # None
        /\ seen' = [seen EXCEPT ![n].at = "after", ![n].body = files[n].body]
        /\ UNCHANGED <<step, held, answer>>
  /\ UNCHANGED <<dirs, extra, files, changes>>

\* a text must also have as many bytes as lstat says now
unchanged(n) ==
  /\ sameFile(seen[n].before, files[n])
  /\ step # "inspect" => numericByteSize(seen[n].body) = numericByteSize(files[n].body)

After(n) ==
  /\ n \in Looking /\ seen[n].at = "after"
  /\ \/ assertDirectRegularFile(n) # None /\ Refuse(assertDirectRegularFile(n))
     \/ /\ assertDirectRegularFile(n) = None /\ ~unchanged(n)
        /\ Refuse("bundled_seed.invalid")
     \/ /\ assertDirectRegularFile(n) = None /\ unchanged(n)
        /\ seen' = [seen EXCEPT ![n].at = "looked"]
        /\ UNCHANGED <<step, held, answer>>
  /\ UNCHANGED <<dirs, extra, files, changes>>

\* Every look of the step is back: what loadVerifiedBundledSeed makes of it
Looked == Looking # {} /\ \A n \in Looking : seen[n].at = "looked"

Keep(record, next) ==
  /\ held' = record /\ step' = next
  /\ seen' = [n \in Names |-> NoLook] /\ UNCHANGED answer

ManifestRead ==
  /\ step = "manifest" /\ Looked
  /\ IF parseJson(seen["manifest"].body)
     THEN Keep([held EXCEPT !.manifest = parseSeedManifest(seen["manifest"].body)],
               "directories")
     ELSE Refuse("bundled_seed.invalid")
  /\ UNCHANGED <<dirs, extra, files, changes>>

Inspected ==
  LET actual == [n \in expectedResourcePaths |-> Resource(n, seen[n].body)] IN
  /\ step = "inspect" /\ Looked
  /\ IF assertExactResourceList(held.manifest.resources, actual)
     THEN Keep([held EXCEPT !.resources = actual], "texts")
     ELSE Refuse("bundled_seed.integrity_failed")
  /\ UNCHANGED <<dirs, extra, files, changes>>

loadVerifiedBundledSeed ==
  LET txt == [n \in texts |-> seen[n].body] IN
  /\ step = "texts" /\ Looked
  /\ \/ /\ ~(parsePluginPackageManifest(txt["package"])
             /\ parsePluginGenerationManifest(txt["generation"], held.manifest.revision))
        /\ Refuse("bundled_seed.invalid")
     \/ /\ parsePluginPackageManifest(txt["package"])
        /\ parsePluginGenerationManifest(txt["generation"], held.manifest.revision)
        /\ ~assertManifestResourceBindings(held.manifest, held.resources, txt)
        /\ Refuse("bundled_seed.integrity_failed")
     \/ /\ parsePluginPackageManifest(txt["package"])
        /\ parsePluginGenerationManifest(txt["generation"], held.manifest.revision)
        /\ assertManifestResourceBindings(held.manifest, held.resources, txt)
        /\ held' = [held EXCEPT !.texts = txt]
        /\ answer' = "verified" /\ step' = "done"
        /\ seen' = [n \in Names |-> NoLook]
  /\ UNCHANGED <<dirs, extra, files, changes>>

-----------------------------------------------------------------------------
(* Somebody else's changes, while the seed is being read                     *)

Changing == changes < MaxChanges /\ step # "done" /\ changes' = changes + 1
Untouched == UNCHANGED <<step, seen, held, answer>>

Replaced(n) ==
  /\ Changing /\ dirs[Home(n)] # "absent" /\ Untouched
  /\ \/ \E b \in Bodies(n) :
          files' = [files EXCEPT ![n] = [body |-> b, link |-> FALSE, stamp |-> changes']]
     \/ /\ files[n] # None
        /\ files' = [files EXCEPT ![n].link = TRUE, ![n].stamp = changes']
     \/ files[n] # None /\ files' = [files EXCEPT ![n] = None]
  /\ UNCHANGED <<dirs, extra>>

Rearranged(d) ==
  /\ Changing /\ dirs[d] = "directory" /\ Untouched
  /\ \/ extra' = extra \cup {d} /\ UNCHANGED <<dirs, files>>
     \/ dirs' = [dirs EXCEPT ![d] = "link"] /\ UNCHANGED <<extra, files>>
     \/ /\ dirs' = [e \in Dirs |-> IF d \in {e, "root"} THEN "absent" ELSE dirs[e]]
        /\ files' = [n \in Names |-> IF d \in {Home(n), "root"} THEN None ELSE files[n]]
        /\ UNCHANGED extra

\* A packaged application holds one whole release; a development build none.
Init ==
  /\ \/ /\ dirs = [d \in Dirs |-> "directory"]
        /\ \E r \in Releases : files = [n \in Names |->
             [body |-> Packaged(r), link |-> FALSE, stamp |-> 0]]
     \/ dirs = [d \in Dirs |-> "absent"] /\ files = [n \in Names |-> None]
  /\ extra = {} /\ changes = 0 /\ step = "root"
  /\ seen = [n \in Names |-> NoLook] /\ held = NoSeed /\ answer = None

Next ==
  \/ Directories \/ ManifestRead \/ Inspected \/ loadVerifiedBundledSeed
  \/ \E n \in Names : Before(n) \/ Read(n) \/ After(n) \/ Replaced(n)
  \/ \E d \in Dirs : Rearranged(d)

Spec == Init /\ [][Next]_vars

-----------------------------------------------------------------------------
TypeOK ==
  /\ dirs \in [Dirs -> {"directory", "link", "absent"}] /\ extra \subseteq Dirs
  /\ \A n \in Names : files[n] = None \/ files[n] \in Files(n)
  /\ changes \in 0..MaxChanges
  /\ step \in {"root", "children", "manifest", "directories", "contents",
               "inspect", "texts", "done"}
  /\ \A n \in Names : seen[n].at \in {"before", "read", "after", "looked"}
  /\ (answer # None) = (step = "done")

(* A seed answered as verified is one whole release, whatever was replaced   *)
(* between two looks: the digests are the declared ones, the two texts that  *)
(* will be written into the plugin store are exactly the bytes hashed, and   *)
(* the generation belongs to the revision the bundle is of.  A whole release *)
(* that nobody touches is never refused (bundled-seed.ts                     *)
(* loadVerifiedBundledSeed).                                                 *)
VerifiedIsBound ==
  /\ answer = "verified" =>
       LET r == held.manifest.revision IN
       /\ \A n \in expectedResourcePaths :
            held.resources[n] = Resource(n, Packaged(r))
       /\ \A n \in texts :
            sha256(n, held.texts[n]) = held.resources[n].sha256
       /\ held.texts["generation"].release = r
  /\ (changes = 0 /\ answer \notin {None, "verified"}) => dirs["root"] = "absent"
=============================================================================
