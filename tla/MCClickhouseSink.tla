-------------------------- MODULE MCClickhouseSink --------------------------
EXTENDS ClickhouseSink

\* A module that gets everything right, one whose last block is no insert, and one
\* whose first block does not fit
SomeRefusals ==
    { [unsupported |-> {}, unconvertible |-> {}],
      [unsupported |-> {3}, unconvertible |-> {}],
      [unsupported |-> {}, unconvertible |-> {1}] }
=============================================================================
