SPECIFICATION TextSpec
CONSTANTS
    Encoders <- BothEncoders
    Width = 2
    MaxText = 2
INVARIANT RowReadsBack
