---------------------------- MODULE VectorSignals ----------------------------
(***************************************************************************)
(* The vector tests of the signal processors of the uplink, of sequences   *)
(* and transforms, of OFDM and of the Open Fronthaul compression.          *)
(***************************************************************************)
EXTENDS VectorSteps

(* dmrs_pucch_estimator_vectortest.cpp *)

DmrsPucchEstimatorSetUpTestSuite ==
    Asserted(<<"prg_factory", "lpg_factory", "lpc_factory", "dft_factory",
               "ta_estimator_factory", "port_chan_estimator_factory", "estimator_factory">>)

DmrsPucchEstimatorSetUp == Check({"estimator_factory"}) \o Asserted(<<"dmrs_pucch">>)

\* Of the estimate only the noise variance is compared.
DmrsPucchEstimatorFromVector ==
    Run({"dmrs_pucch"}, {"noise_var", "ch_estimates"}) \o Expect({"noise_var"})

DmrsPucchEstimator ==
    File(DmrsPucchEstimatorSetUpTestSuite,
         <<DmrsPucchEstimatorSetUp \o DmrsPucchEstimatorFromVector>>, {}, {"ch_estimates"})

(* SRS estimator, its log, and the estimator of the direction of arrival. *)

SrsEstimatorSetUp ==
    Asserted(<<"dft_proc_factory", "ta_estimator_factory", "sequence_generator_factory",
               "doa_factory", "srs_est_factory", "estimator", "doa_spy", "validator">>)

\* The test double of the estimator of the direction counts its calls, and keeps what it
\* was given and what it returned: both are compared.  The channel matrix is compared
\* normalised.
DoaEstimatorSpy == {"nof_calls", "doa_result", "doa_data"}

SrsEstimatorFromVector ==
    Valid("config")
    \o Run({"estimator"}, {"channel_matrix", "norm", "epre_dB", "time_alignment"}
                          \cup DoaEstimatorSpy)
    \o Expect({"channel_matrix"}) \o Expect({"epre_dB"}) \o Expect({"time_alignment"})
    \o Expect({"nof_calls"}) \o Expect({"doa_result"}) \o Expect({"doa_data"})

SrsEstimator == File(<<>>, <<SrsEstimatorSetUp \o SrsEstimatorFromVector>>, {}, {"norm"})

\* What is logged, at two levels, is for somebody to look at.
SrsEstimatorLogger ==
    LET LoggerTest == Asserted(<<"estimator">>) \o Run({"estimator"}, {"log"})
    IN  File(<<>>, <<LoggerTest, LoggerTest>>, {}, {"log"})

DoaEstimator ==
    File(<<>>, <<Asserted(<<"doa_factory", "doa">>) \o Valid("dimensions")
                 \o Run({"doa"}, {"result", "angles", "strengths"})
                 \o Expect({"result"}) \o Valid("sizes")
                 \o Expect({"angles"}) \o Expect({"strengths"})>>, {}, {})

(* Sequences and transforms. *)

LowPaprSequenceGenerator ==
    File(<<>>, <<UnitTest(<<"factory", "generator">>, {"sequence"})>>, {}, {})

TransformPrecoderSetUpTestSuite == Asserted(<<"dft_factory", "precoder_factory", "precoder">>)

\* One OFDM symbol of several.
TransformPrecoderFromVector ==
    Valid("sizes") \o Run({"precoder"}, {"data"}) \o Run({"precoder"}, {"noise"})
    \o Expect({"data"}) \o Expect({"noise"})

TransformPrecoder ==
    File(TransformPrecoderSetUpTestSuite,
         <<Check({"precoder"}) \o TransformPrecoderFromVector>>, {}, {})

\* The factory is asserted, the processor is not.
DFTProcessor ==
    File(<<>>, <<Unchecked(<<"dft_factory">>, {}) \o Check({"dft_factory"})
                 \o Unchecked(<<"dft">>, {"dft_factory"})
                 \o Run({"dft"}, {"transform"}) \o Expect({"transform"})>>, {"dft"}, {})

(* OFDM: the factory of a pool replaces that of a modulator. *)

OFDMModulator ==
    File(<<>>, <<UnitTest(<<"dft_factory", "generic_factory", "pool_factory", "modulator">>,
                          {"samples"})>>, {}, {})
OFDMDemodulator ==
    File(<<>>, <<UnitTest(<<"dft_factory", "generic_factory", "pool_factory", "demodulator">>,
                          {"symbols"})>>, {}, {})
OFDMPrachDemodulator ==
    File(<<>>, <<UnitTest(<<"dft_factory", "ofdm_factory", "demodulator">>, {"symbols"})>>, {}, {})

(* ofh_compression_vectortest.cpp *)

OFHCompressionSetUp == Asserted(<<"compressor", "decompressor">>)

\* What was compressed is decompressed, also when it is not what was expected: an
\* assertion ends the test before.
OFHCompressionTest ==
    Run({"compressor"}, {"params", "compressed"}) \o Expect({"params"}) \o Expect({"compressed"})
    \o Run({"decompressor"}, {"decompressed"}) \o Expect({"decompressed"})

OFHCompressionZeroInput ==
    Run({"compressor"}, {"compressed zeros"})
    \o Run({"decompressor"}, {"decompressed"}) \o Expect({"decompressed"})

OFHCompression ==
    File(<<>>, <<OFHCompressionSetUp \o OFHCompressionTest,
                 OFHCompressionSetUp \o OFHCompressionZeroInput>>, {}, {"compressed zeros"})

\* Block floating point of 9 bits, for any number of resource blocks, with and without
\* the parameters.
OFHCompressionBfp9SetUp == Asserted(<<"compressor">>)
OFHCompressionBfp9Test == Run({"compressor"}, {"params", "data"}) \o Expect({"params"}) \o Expect({"data"})
OFHCompressionBfp9Param ==
    Run({"compressor"}, {"params", "data of one"}) \o Expect({"params"})

OFHCompressionBfp9 ==
    File(<<>>, <<OFHCompressionBfp9SetUp \o OFHCompressionBfp9Test,
                 OFHCompressionBfp9SetUp \o OFHCompressionBfp9Param>>, {}, {"data of one"})
=============================================================================
