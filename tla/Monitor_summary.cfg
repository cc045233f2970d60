\* The first refresh of the dashboard against the first sample.
SPECIFICATION MonitorSpec
CONSTANT MaxSamples = 2
PROPERTY SummaryReturns
