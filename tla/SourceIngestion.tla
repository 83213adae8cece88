---------------------------- MODULE SourceIngestion ----------------------------
(***************************************************************************)
(* src/core/intelligence/sources.mjs and ingest.mjs: sources are           *)
(* registered, their content is stored where the rights allow it, and an   *)
(* ingestion makes a version and an extraction when the content changed.   *)
(* A call is synchronous; it may die in or between its appends.  Versions  *)
(* are counted per dedupe key, extractions are found by source.            *)
(***************************************************************************)
EXTENDS JsonlTable, Naturals, FiniteSets

CONSTANTS
  SourceIds,
  Urls,
  Dois,        \* a source without one, or a repository identity, is known by its URL
  NoDoi,
  Texts,       \* contents, which are their own hashes
  MaxFetches,  \* bound: ingestions
  MaxRegisters,\* bound: registrations
  MaxCuts      \* bound: calls that die

ASSUME IngestionAssumption == MaxFetches \in Nat

VARIABLES
  sources,     \* the table of sources
  bodies,      \* the contents whose object file is whole
  ingestions,  \* the table `intelligence_ingestion`
  extractions, \* the table `intelligence_extraction`
  registers,   \* registrations so far
  fetches,     \* ingestions so far
  cuts,        \* calls that died
  published    \* history: source and version -> the content first reported for it

svars == <<sources, bodies, ingestions, extractions, registers, fetches, cuts, published>>

VersionNumbers == 1 .. MaxFetches

SInit ==
  /\ sources = EmptyTable
  /\ bodies = {}
  /\ ingestions = EmptyTable
  /\ extractions = EmptyTable
  /\ registers = 0 /\ fetches = 0 /\ cuts = 0
  /\ published = [sv \in SourceIds \X VersionNumbers |-> {}]

SourceById(s) ==
  LET all == ReadRows(sources) IN LastOf(all, {i \in DOMAIN all : all[i].id = s})

\* registerSource: the URL of a source never changes, its other fields may.
RegisterSource(s, url, doi, licensed) ==
  /\ registers < MaxRegisters
  /\ registers' = registers + 1
  /\ \A existing \in SourceById(s) : existing.url = url
  /\ LET row == [id |-> s, url |-> url, doi |-> doi, licensed |-> licensed]
     IN  \/ sources' = AppendRow(sources, row) /\ UNCHANGED cuts
         \/ /\ cuts < MaxCuts /\ cuts' = cuts + 1
            /\ sources' \in PartialAppends(sources, row)
  /\ UNCHANGED <<bodies, ingestions, extractions, fetches, published>>

DedupeKey(source) == IF source.doi = NoDoi THEN source.url ELSE source.doi

\* findExistingIngestion
Prior(key) ==
  LET all == ReadRows(ingestions) IN LastOf(all, {i \in DOMAIN all : all[i].key = key})

\* Mutant: content that was ingested before is not new.
UnchangedEver(key, text) ==
  \E i \in DOMAIN ReadRows(ingestions) :
    ReadRows(ingestions)[i].key = key /\ ReadRows(ingestions)[i].text = text

Unchanged(key, text) == \E prior \in Prior(key) : prior.text = text

NextVersion(key, text) ==
  CASE Prior(key) = {} -> 1
    [] Unchanged(key, text) -> (CHOOSE prior \in Prior(key) : TRUE).version
    [] OTHER -> (CHOOSE prior \in Prior(key) : TRUE).version + 1

\* storeContent writes the body, always anew, if the rights are complete; its
\* own row is read by nothing and left out.
Stored(source, text) == IF source.licensed THEN bodies \cup {text} ELSE bodies

\* storeContent, the ingestion row, and the extraction row last, unless the
\* content is the one of the prior row.
IngestSource(s, text) ==
  /\ fetches < MaxFetches
  /\ fetches' = fetches + 1
  /\ \E source \in SourceById(s) :
       LET key       == DedupeKey(source)
           version   == NextVersion(key, text)
           row       == [source |-> s, key |-> key, text |-> text, version |-> version]
           extract   == ~ Unchanged(key, text)
           extracted == [source |-> s, text |-> text, version |-> version]
           stored    == Stored(source, text)
       IN  \/ /\ bodies' = stored
              /\ ingestions' = AppendRow(ingestions, row)
              /\ extractions' = IF extract THEN AppendRow(extractions, extracted) ELSE extractions
              /\ published' = IF extract /\ published[<<s, version>>] = {}
                              THEN [published EXCEPT ![<<s, version>>] = {text}] ELSE published
              /\ UNCHANGED cuts
           \/ /\ cuts < MaxCuts /\ cuts' = cuts + 1
              /\ \/ /\ source.licensed
                    /\ bodies' = bodies \ {text}
                    /\ UNCHANGED <<ingestions, extractions>>
                 \/ /\ bodies' = stored
                    /\ ingestions' \in PartialAppends(ingestions, row)
                    /\ UNCHANGED extractions
                 \/ /\ extract
                    /\ bodies' = stored
                    /\ ingestions' = AppendRow(ingestions, row)
                    /\ extractions' \in PartialAppends(extractions, extracted)
              /\ UNCHANGED published
  /\ UNCHANGED <<sources, registers>>

SNext ==
  \E s \in SourceIds :
    \/ \E url \in Urls, doi \in Dois \cup {NoDoi}, licensed \in BOOLEAN :
         RegisterSource(s, url, doi, licensed)
    \/ \E text \in Texts : IngestSource(s, text)

SSpec == SInit /\ [][SNext]_svars

-----------------------------------------------------------------------------
\* extractionAt: the first row of the source with the version.
ExtractionAt(s, version) ==
  LET rows == ReadRows(extractions)
  IN  {row.text : row \in FirstOf(rows, {i \in DOMAIN rows :
                                            rows[i].source = s /\ rows[i].version = version})}

\* ingest.mjs:3-5.  Old extractions remain readable: what an ingestion reported
\* first for a version of a source is what extractionAt gives for it ever after.
\* And no content goes without an extraction: the latest ingestion of a key has
\* one, perhaps of another source with that key.  A death costs its own extraction
\* and, if it left its line unfinished, the next one, and costs them for good:
\* ingesting the same content again is "unchanged".
ExtractionsKept ==
  LET rows == ReadRows(extractions)
      Extracted(latest) == \E i \in DOMAIN rows :
                             rows[i].version = latest.version /\ rows[i].text = latest.text
  IN  /\ Cardinality({sv \in SourceIds \X VersionNumbers :
            published[sv] # {} /\ ExtractionAt(sv[1], sv[2]) # published[sv]}) <= cuts
      /\ Cardinality({key \in Urls \cup Dois :
            \E latest \in Prior(key) : ~ Extracted(latest)}) <= 2 * cuts
=============================================================================
