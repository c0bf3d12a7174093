-------------------------- MODULE EmbeddingColumns --------------------------
(***************************************************************************)
(* What the embedding worker promises to those who search by vectors: a    *)
(* NULL column is filled with the vector of a text of that very row, all   *)
(* rows of one request at once, and a vector once there is never replaced. *)
(* The vector of a text is the text itself: the model is deterministic,    *)
(* and different texts have different vectors.                             *)
(***************************************************************************)
CONSTANTS
  Entities, Sources, Statements,  \* rows of the three tables
  NoVector                        \* NULL

Rows   == Entities \cup Sources \cup Statements
Tables == {Entities, Sources, Statements}

Texts == Rows \X {"label", "title", "title and raw_text", "subject property value"}

VARIABLES
  present,   \* committed rows
  archived,  \* the sources that have a raw_text
  vector     \* the committed embedding columns

columns == <<present, archived, vector>>

entityEmbedText(e)       == <<e, "label">>
sourceEmbedText(s, text) == <<s, IF s \in text THEN "title and raw_text" ELSE "title">>
statementEmbedText(t)    == <<t, "subject property value">>

\* The text that row r is searched by, if `text` are the sources with raw_text.
EmbedText(r, text) ==
  CASE r \in Entities -> entityEmbedText(r)
    [] r \in Sources  -> sourceEmbedText(r, text)
    [] OTHER          -> statementEmbedText(r)

\* The texts that r has or had.
TextsOf(r) == {EmbedText(r, {}), EmbedText(r, archived)}

Init ==
  /\ present  = {}
  /\ archived = {}
  /\ vector   = [r \in Rows |-> NoVector]

\* Collect, or the transaction of an extraction.
Insert ==
  /\ present \subseteq present'
  /\ present' \subseteq Rows
  /\ UNCHANGED <<archived, vector>>

Archive ==
  /\ \E s \in present \cap Sources : archived' = archived \cup {s}
  /\ UNCHANGED <<present, vector>>

Fill ==
  /\ \E T \in Tables : \E S \in SUBSET (T \cap present) :
       /\ \A r \in S : vector[r] = NoVector
       /\ vector' \in [Rows -> Texts \cup {NoVector}]
       /\ \A r \in S : vector'[r] \in TextsOf(r)
       /\ \A r \in Rows \ S : vector'[r] = vector[r]
  /\ UNCHANGED <<present, archived>>

Next == Insert \/ Archive \/ Fill

Spec == Init /\ [][Next]_columns
=============================================================================
