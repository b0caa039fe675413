----------------------------- MODULE Rendering ------------------------------
(***************************************************************************)
(* What a page shows when it is rendered as text, html or json             *)
(* (talisker/render.py): the same blocks, for people or for programs.      *)
(* A block is a heading or a paragraph, or a table, which has rows; what   *)
(* is shown of it is the sequence of its cells, without the layout.        *)
(***************************************************************************)
EXTENDS Naturals, Sequences, SequencesExt

Types == {"text", "html", "json"}
NoId == "no id"

\* Content, and those derived from it but Table, with what it shows; text is
\* FALSE for what is only there in html.
Content(id, shown) == [id |-> id, table |-> FALSE, text |-> TRUE, headers |-> <<>>, rows |-> <<<<shown>>>>]
HtmlOnly(shown) == [Content(NoId, shown) EXCEPT !.text = FALSE]
Table(id, headers, rows) == [id |-> id, table |-> TRUE, text |-> TRUE, headers |-> headers, rows |-> rows]

\* The row as a dictionary, as far as there are headers for it.
Zipped(block, row) == SubSeq(row, 1, IF Len(row) <= Len(block.headers) THEN Len(row) ELSE Len(block.headers))

\* (mutant) Rows of two cells are no dictionary.
JsonRowsZipped(block) == {Zipped(block, row) : row \in ToSet(block.rows)} \ {<<>>}

\* Table.json_content: rows of two cells become a dictionary, in which the last of
\* those with the same first cell is kept; others a dictionary each, and without
\* headers only the name of a generator.
JsonRows(block) ==
  LET rows == block.rows
      IsLast(i) == \A j \in DOMAIN rows : rows[j][1] = rows[i][1] => j <= i
  IN  IF ~block.table \/ rows = <<>> THEN ToSet(rows)
      ELSE IF Len(rows[1]) = 2 THEN {rows[i] : i \in {j \in DOMAIN rows : IsLast(j)}}
      ELSE {Zipped(block, row) : row \in ToSet(rows)} \ {<<>>}

\* render_type: the rows that are shown; json takes the blocks that have an id.
Shown(type, blocks) ==
  UNION {CASE type = "html" -> ToSet(b.rows)
           [] type = "text" -> IF b.text THEN ToSet(b.rows) ELSE {}
           [] type = "json" -> IF b.id = NoId THEN {} ELSE JsonRows(b) : b \in ToSet(blocks)}
=============================================================================
