----------------------------- MODULE MCCsvText ------------------------------
EXTENDS CsvText

BothEncoders == {"CSVEncode", "formatRowForCSV"}
=============================================================================
