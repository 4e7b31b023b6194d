----------------------------- MODULE MCRunReaders -----------------------------
EXTENDS RunReaders

\* an empty result, one cut within a page, one of two full pages
MCContent == <<{0}, {0, 2, 6}, {0, 4, 5, 8}>>

\* the first call of the workflow and the first call of one it invokes are the same; the
\* third call is the workflow's own
MCKey == <<1, 1, 2>>
MCSpace == <<1, 2, 1>>

MCResultContent == {0, 3, 5, 9}

\* the predecessor had made the second call, under another number
MCCopied == <<NoAgent, 3, NoAgent>>
================================================================================
