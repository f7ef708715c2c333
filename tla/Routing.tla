------------------------------- MODULE Routing -------------------------------
(***************************************************************************)
(* The knowledge index and the routing of a question over it, as pure      *)
(* operators: what one Markdown file becomes, what makes an index, how a   *)
(* document is scored against a question, and what the retrieval budget    *)
(* leaves out (knowledge/documents.py, agent/routing.py).                  *)
(*                                                                         *)
(* A facet value is any value; a body is its length.  An index is the      *)
(* sequence of its documents in the order of their ids.                    *)
(***************************************************************************)
EXTENDS Integers, Sequences, FiniteSets, FiniteSetsExt, SequencesExt

FACET_KEYS == {"question_types", "defect_classes", "dimensions", "stations", "alarm_codes"}

\* Facets(): every key empty.
NoFacets == [key \in FACET_KEYS |-> {}]

\* A document names question types and makes no other claim: the shape of a procedure.
DeclaresOnlyQuestionTypes(facets) ==
  /\ facets["question_types"] # {}
  /\ \A key \in FACET_KEYS \ {"question_types"} : facets[key] = {}

-----------------------------------------------------------------------------
(* One file.  Its record says what the parser looks at:                      *)
(*   fence     "none", "open" or "closed"                                    *)
(*   keys      the front-matter keys, with the values read below             *)
(*   size      the length of the prose                                       *)

DOCUMENT_KEYS == {"id", "title", "always_load", "applies_to"}

\* applies_to as a document may declare it: a mapping from known keys to non-empty lists of
\* names of the vocabulary; an alarm code only has to have the shape of one.
AppliesToIsLegal(declared, vocabulary) ==
  /\ DOMAIN declared \subseteq FACET_KEYS
  /\ \A key \in DOMAIN declared : declared[key] # {} /\ declared[key] \subseteq vocabulary[key]

\* The same mapping with the keys it is silent about empty.
FacetsOf(declared) == [key \in FACET_KEYS |-> IF key \in DOMAIN declared THEN declared[key] ELSE {}]

\* Not a document at all: prose about the tree.
IsProse(file) == file.fence = "none"

\* The front-matter that parse accepts; anything else raises KnowledgeError.
ParsesAsDocument(file, vocabulary) ==
  /\ file.fence = "closed"
  /\ DOMAIN file.keys \subseteq DOCUMENT_KEYS
  /\ {"id", "title"} \subseteq DOMAIN file.keys
  /\ "always_load" \in DOMAIN file.keys => file.keys["always_load"] \in BOOLEAN
  /\ "applies_to" \in DOMAIN file.keys => AppliesToIsLegal(file.keys["applies_to"], vocabulary)

Document(file) ==
  [id |-> file.keys["id"],
   always_load |-> "always_load" \in DOMAIN file.keys /\ file.keys["always_load"],
   applies_to |-> IF "applies_to" \in DOMAIN file.keys
                    THEN FacetsOf(file.keys["applies_to"]) ELSE NoFacets,
   size |-> file.size]

\* load(root) returns an index: every file parses, two never share an id, and the tree is
\* not empty of documents.
Loads(files, vocabulary) ==
  LET documents == {file \in files : ~IsProse(file)} IN
  /\ documents # {}
  /\ \A file \in documents : ParsesAsDocument(file, vocabulary)
  /\ \A f, g \in documents : f.keys["id"] = g.keys["id"] => f = g

\* KnowledgeIndex.of: the documents in the order of their ids.
IndexOf(files) ==
  SetToSortSeq({Document(file) : file \in {f \in files : ~IsProse(f)}},
               LAMBDA d, e : d.id < e.id)

IdsOf(documents) == {documents[i].id : i \in DOMAIN documents}

-----------------------------------------------------------------------------
(* Routing                                                                   *)

Scale == 840    \* divisible by 1..8, so that the fractions below compare exactly

\* The overlap of each key over its union, summed; a key nobody mentions adds nothing.
Specificity(declared, asked) ==
  MapThenSumSet(LAMBDA key : LET union == declared[key] \cup asked[key] IN
                  IF union = {} THEN 0
                  ELSE (Scale * Cardinality(declared[key] \cap asked[key])) \div Cardinality(union),
                FACET_KEYS)

\* The documents that declare themselves the procedure for the question's own type.
Procedures(index, asked) ==
  SelectSeq(index, LAMBDA d : /\ ~d.always_load
                              /\ DeclaresOnlyQuestionTypes(d.applies_to)
                              /\ d.applies_to["question_types"] \cap asked["question_types"] # {})

SizeOf(documents) == FoldSeq(LAMBDA d, sum : d.size + sum, 0, documents)

\* What is neither the method nor a procedure and matches at all, best first; equal scores
\* in the order of their ids.
Matched(index, asked) ==
  LET score(d) == Specificity(d.applies_to, asked)
      reserved == Range(Procedures(index, asked))
  IN SortSeq(SelectSeq(index, LAMBDA d : ~d.always_load /\ d \notin reserved /\ score(d) > 0),
             LAMBDA d, e : \/ score(d) > score(e)
                           \/ score(d) = score(e) /\ d.id < e.id)

\* The ranked remainder is cut at the first document that does not fit: smaller ones behind
\* it are dropped with it.
Cut(matched, room, characters) ==
  Max({0} \cup {n \in 1 .. Len(matched) : n <= room /\ SizeOf(SubSeq(matched, 1, n)) <= characters})

\* Always-load documents first, then the reserved procedures, then what fits of the rest.
\* The reserved ones consume the budget and are never evicted by it.
Route(index, asked, budget) ==
  LET reserved == Procedures(index, asked)
      matched == Matched(index, asked)
      cut == Cut(matched, budget.documents - Len(reserved), budget.characters - SizeOf(reserved))
  IN [documents |-> SelectSeq(index, LAMBDA d : d.always_load) \o reserved
                      \o SubSeq(matched, 1, cut),
      dropped |-> SubSeq(matched, cut + 1, Len(matched))]
=============================================================================
